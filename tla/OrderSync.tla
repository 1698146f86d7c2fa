------------------------------- MODULE OrderSync -------------------------------
(***************************************************************************)
(* Taking and dropping an order in the shipper app, over the realtime      *)
(* database client.                                                        *)
(*                                                                         *)
(* The News detail screen takes an order (getNew) and the Storage detail   *)
(* screen drops it (deleteProduct).  Neither reads, checks and writes:     *)
(* each registers a value listener on DetailProduct/<id> that is never     *)
(* removed, and whose callback writes the same two fields every time the   *)
(* local view of the record changes.  The client applies a write to its    *)
(* local view at once, queues the callbacks on the main queue, keeps the   *)
(* write until the server acknowledges it, and sends every outstanding     *)
(* write again after a reconnection.                                       *)
(*                                                                         *)
(* The database server is not in the repository: it is modelled as one     *)
(* value per order which applies each connection's writes in order, tells  *)
(* every connected client of a change, then acknowledges the writer.       *)
(***************************************************************************)
EXTENDS Naturals, Sequences, FiniteSets

CONSTANTS
  Devices,      \* phones running the shipper app
  Users,        \* uids of shipper accounts
  Orders,       \* idDetailProduct keys
  NoUser,       \* "" in the UID field; also: nobody is signed in
  MaxClaims,    \* bound: listeners registered by taps, per device and order
  MaxPending,   \* bound: writes of a device not yet acknowledged
  MaxQueue,     \* bound: callbacks waiting on a device's main queue
  MaxInbox      \* bound: messages under way from the server to a device

ASSUME OrderSyncAssumption ==
  /\ NoUser \notin Users
  /\ IsFiniteSet(Orders)
  /\ MaxClaims \in Nat /\ MaxPending \in Nat /\ MaxQueue \in Nat /\ MaxInbox \in Nat

VARIABLES
  server,    \* order -> the record's [uid, status] in the database
  user,      \* device -> the uid the tabs were built with, or NoUser
  conn,      \* device -> is the client connected?
  cache,     \* device -> order -> what the server last told it
  pend,      \* device -> its unacknowledged writes, oldest first
  applied,   \* device -> how many of pend the server has applied on this connection
  inbox,     \* device -> messages under way from the server
  regs,      \* device -> order -> what each tapped listener writes, in order of registration
  mainq,     \* device -> value events queued for those listeners
  storage    \* device -> the Storage detail screen that is open, or NoScreen

vars == <<server, user, conn, cache, pend, applied, inbox, regs, mainq, storage>>

Board == INSTANCE OrderBoard WITH board <- server

Posted   == Board!Posted
TakenBy(u) == Board!TakenBy(u)
Released == Board!Released
Unknown  == [uid |-> NoUser, status |-> "unknown"]   \* nothing received yet

NoScreen == [open |-> FALSE, order |-> NoUser, born |-> 0]

Post    == {TakenBy(u) : u \in Users} \cup {Released}
Record  == Post \cup {Posted}
Write   == [order : Orders, post : Post]
Event   == [order : Orders, reg : Nat \ {0}]
Data    == [type : {"data"}, order : Orders, rec : Record]
Ack     == [type : {"ack"}]
Screen  == [open : {TRUE}, order : Orders, born : Nat] \cup {NoScreen}
-------------------------------------------------------------------------------
(* The client's view of an order: the server's value under the device's     *)
(* unacknowledged writes.  Every write sets both fields, so the last wins.  *)
WritesTo(p, o)   == {k \in DOMAIN p : p[k].order = o}
Overlay(c, p, o) ==
  IF WritesTo(p, o) = {} THEN c[o]
  ELSE p[CHOOSE m \in WritesTo(p, o) : \A k \in WritesTo(p, o) : k <= m].post
View(d, o) == Overlay(cache[d], pend[d], o)

(* Mutant: a registration takes the place of the ones before it.            *)
EventsOfLatest(d, o) == LET n == Len(regs[d][o]) IN
  IF n = 0 THEN <<>> ELSE <<[order |-> o, reg |-> n]>>
Events(d, o) == [i \in 1..Len(regs[d][o]) |-> [order |-> o, reg |-> i]]

(* The client of d gets a new cache c and new pending writes p: a value     *)
(* event for every listener on o if the view of o is a different one now.   *)
Raised(d, o, c, p) == IF Overlay(c, p, o) # View(d, o) THEN Events(d, o) ELSE <<>>
-------------------------------------------------------------------------------
Init ==
  /\ server = [o \in Orders |-> Posted]
  /\ user \in [Devices -> Users]
  /\ conn = [d \in Devices |-> FALSE]
  /\ cache = [d \in Devices |-> [o \in Orders |-> Unknown]]
  /\ pend = [d \in Devices |-> <<>>]
  /\ applied = [d \in Devices |-> 0]
  /\ inbox = [d \in Devices |-> <<>>]
  /\ regs = [d \in Devices |-> [o \in Orders |-> <<>>]]
  /\ mainq = [d \in Devices |-> <<>>]
  /\ storage = [d \in Devices |-> NoScreen]

(* Mutant: the first event is forgotten when the view is complete.          *)
RegisterSilently(d, o, post) ==
  /\ Len(regs[d][o]) < MaxClaims
  /\ regs' = [regs EXCEPT ![d][o] = Append(@, post)]
  /\ mainq' = mainq

(* A tap registers a listener.  If the client has the record, its first     *)
(* event is queued at once; an order can be tapped before that, since only  *)
(* its Product puts it on the list, and the event comes with the record.    *)
Register(d, o, post) ==
  /\ Len(regs[d][o]) < MaxClaims
  /\ regs' = [regs EXCEPT ![d][o] = Append(@, post)]
  /\ mainq' = IF cache[d][o] = Unknown THEN mainq
              ELSE [mainq EXCEPT ![d] = Append(@, [order |-> o, reg |-> Len(regs[d][o]) + 1])]
  /\ Len(mainq'[d]) <= MaxQueue

(* "Nhận" on the News detail screen.  The News tab lists the order whatever *)
(* its status, and nothing looks at the status on the way.                  *)
GetNew(d, o) ==
  /\ user[d] # NoUser
  /\ Register(d, o, TakenBy(user[d]))
  /\ UNCHANGED <<server, user, conn, cache, pend, applied, inbox, storage>>

(* A row of the Storage tab: orders whose UID is the signed-in user's.      *)
OpenStorageDetail(d, o) ==
  /\ user[d] # NoUser
  /\ ~storage[d].open
  /\ View(d, o).uid = user[d]
  /\ storage' = [storage EXCEPT ![d] = [open |-> TRUE, order |-> o, born |-> Len(regs[d][o])]]
  /\ UNCHANGED <<server, user, conn, cache, pend, applied, inbox, regs, mainq>>

Back(d) ==
  /\ storage[d].open
  /\ storage' = [storage EXCEPT ![d] = NoScreen]
  /\ UNCHANGED <<server, user, conn, cache, pend, applied, inbox, regs, mainq>>

(* Mutant: dropping restores the shop's own status.                         *)
DeleteProductToPosted(d) ==
  /\ storage[d].open
  /\ Register(d, storage[d].order, Posted)
  /\ UNCHANGED <<server, user, conn, cache, pend, applied, inbox, storage>>

(* "Huỷ" on the open screen, which does not follow the record any more.     *)
DeleteProduct(d) ==
  /\ storage[d].open
  /\ Register(d, storage[d].order, Released)
  /\ UNCHANGED <<server, user, conn, cache, pend, applied, inbox, storage>>

(* The main queue runs the next event: the callback writes the captured     *)
(* fields and pops its own screen, if that is still open.                   *)
RunCallback(d) ==
  /\ mainq[d] # <<>>
  /\ LET e == Head(mainq[d])
         post == regs[d][e.order][e.reg]
     IN /\ Len(pend[d]) < MaxPending
        /\ pend' = [pend EXCEPT ![d] = Append(@, [order |-> e.order, post |-> post])]
        /\ cache' = cache
        /\ mainq' = [mainq EXCEPT ![d] = Tail(@) \o Raised(d, e.order, cache'[d], pend'[d])]
        /\ Len(mainq'[d]) <= MaxQueue
        /\ storage' = [storage EXCEPT ![d] =
             IF @.open /\ @.order = e.order /\ e.reg > @.born /\ post = Released
             THEN NoScreen ELSE @]
  /\ UNCHANGED <<server, user, conn, applied, inbox, regs>>
-------------------------------------------------------------------------------
(* The server applies the oldest write it has not seen on this connection.  *)
ServerApply(d) ==
  /\ conn[d]
  /\ applied[d] < Len(pend[d])
  /\ \A e \in Devices : conn[e] => Len(inbox[e]) + 2 <= MaxInbox
  /\ LET w == pend[d][applied[d] + 1]
         news == IF server[w.order] = w.post THEN <<>>
                 ELSE <<[type |-> "data", order |-> w.order, rec |-> w.post]>>
         answer(e) == IF e = d THEN <<[type |-> "ack"]>> ELSE <<>>
     IN /\ server' = [server EXCEPT ![w.order] = w.post]
        /\ inbox' = [e \in Devices |->
             IF conn[e] THEN inbox[e] \o news \o answer(e) ELSE inbox[e]]
  /\ applied' = [applied EXCEPT ![d] = @ + 1]
  /\ UNCHANGED <<user, conn, cache, pend, regs, mainq, storage>>

(* Mutant: an order with a write outstanding keeps its old server value.    *)
DeliverDataUnlessPending(d) ==
  /\ inbox[d] # <<>> /\ Head(inbox[d]).type = "data"
  /\ LET m == Head(inbox[d])
     IN /\ cache' = IF WritesTo(pend[d], m.order) # {} THEN cache
                    ELSE [cache EXCEPT ![d][m.order] = m.rec]
        /\ mainq' = [mainq EXCEPT ![d] = @ \o Raised(d, m.order, cache'[d], pend[d])]
        /\ Len(mainq'[d]) <= MaxQueue
  /\ inbox' = [inbox EXCEPT ![d] = Tail(@)]
  /\ UNCHANGED <<server, user, conn, pend, applied, regs, storage>>

DeliverData(d) ==
  /\ inbox[d] # <<>> /\ Head(inbox[d]).type = "data"
  /\ LET m == Head(inbox[d])
     IN /\ cache' = [cache EXCEPT ![d][m.order] = m.rec]
        /\ pend' = pend
        /\ mainq' = [mainq EXCEPT ![d] = @ \o Raised(d, m.order, cache'[d], pend'[d])]
        /\ Len(mainq'[d]) <= MaxQueue
  /\ inbox' = [inbox EXCEPT ![d] = Tail(@)]
  /\ UNCHANGED <<server, user, conn, applied, regs, storage>>

(* The acknowledged write leaves the overlay; the view falls back to the    *)
(* cache unless a later write still covers the order.  An acknowledgement   *)
(* of a write that is not outstanding would change nothing.                 *)
DeliverAck(d) ==
  /\ inbox[d] # <<>> /\ Head(inbox[d]).type = "ack"
  /\ applied[d] > 0
  /\ LET o == Head(pend[d]).order
     IN /\ pend' = [pend EXCEPT ![d] = Tail(@)]
        /\ cache' = cache
        /\ mainq' = [mainq EXCEPT ![d] = @ \o Raised(d, o, cache'[d], pend'[d])]
        /\ Len(mainq'[d]) <= MaxQueue
  /\ applied' = [applied EXCEPT ![d] = @ - 1]
  /\ inbox' = [inbox EXCEPT ![d] = Tail(@)]
  /\ UNCHANGED <<server, user, conn, regs, storage>>

Deliver(d) == DeliverData(d) \/ DeliverAck(d)

(* Mutants: the count of applied writes survives the connection; the        *)
(* outstanding writes do not.                                               *)
DisconnectKeepingCount(d) ==
  /\ conn[d]
  /\ conn' = [conn EXCEPT ![d] = FALSE]
  /\ inbox' = [inbox EXCEPT ![d] = <<>>]
  /\ UNCHANGED <<server, user, cache, pend, applied, regs, mainq, storage>>

DisconnectDroppingWrites(d) ==
  /\ conn[d]
  /\ conn' = [conn EXCEPT ![d] = FALSE]
  /\ inbox' = [inbox EXCEPT ![d] = <<>>]
  /\ applied' = [applied EXCEPT ![d] = 0]
  /\ pend' = [pend EXCEPT ![d] = <<>>]
  /\ UNCHANGED <<server, user, cache, regs, mainq, storage>>

(* Answers under way are lost; the writes stay outstanding.                 *)
Disconnect(d) ==
  /\ conn[d]
  /\ conn' = [conn EXCEPT ![d] = FALSE]
  /\ inbox' = [inbox EXCEPT ![d] = <<>>]
  /\ applied' = [applied EXCEPT ![d] = 0]
  /\ UNCHANGED <<server, user, cache, pend, regs, mainq, storage>>

(* The orders in some order: each listen is answered by itself.             *)
Snapshots == {s \in [1..Cardinality(Orders) -> Orders] :
               \A o \in Orders : \E k \in DOMAIN s : s[k] = o}

(* restoreState: listen again, which answers with the current records, then *)
(* send every outstanding write from the first.                             *)
Reconnect(d) ==
  /\ ~conn[d]
  /\ \E s \in Snapshots :
       inbox' = [inbox EXCEPT ![d] =
         [k \in DOMAIN s |-> [type |-> "data", order |-> s[k], rec |-> server[s[k]]]]]
  /\ conn' = [conn EXCEPT ![d] = TRUE]
  /\ UNCHANGED <<server, user, cache, pend, applied, regs, mainq, storage>>

(* The app is killed and started again: nothing of the client is on disk,   *)
(* the uid is (UserDefaults).                                               *)
Relaunch(d) ==
  /\ conn' = [conn EXCEPT ![d] = FALSE]
  /\ cache' = [cache EXCEPT ![d] = [o \in Orders |-> Unknown]]
  /\ pend' = [pend EXCEPT ![d] = <<>>]
  /\ applied' = [applied EXCEPT ![d] = 0]
  /\ inbox' = [inbox EXCEPT ![d] = <<>>]
  /\ regs' = [regs EXCEPT ![d] = [o \in Orders |-> <<>>]]
  /\ mainq' = [mainq EXCEPT ![d] = <<>>]
  /\ storage' = [storage EXCEPT ![d] = NoScreen]
  /\ UNCHANGED <<server, user>>

(* Logging out closes the tabs and forgets the uid; the listeners stay.     *)
Logout(d) ==
  /\ user[d] # NoUser
  /\ user' = [user EXCEPT ![d] = NoUser]
  /\ storage' = [storage EXCEPT ![d] = NoScreen]
  /\ UNCHANGED <<server, conn, cache, pend, applied, inbox, regs, mainq>>

SignIn(d, u) ==
  /\ user[d] = NoUser
  /\ conn[d]
  /\ user' = [user EXCEPT ![d] = u]
  /\ UNCHANGED <<server, conn, cache, pend, applied, inbox, regs, mainq, storage>>
-------------------------------------------------------------------------------
Next == \E d \in Devices :
  \/ \E o \in Orders : GetNew(d, o)
  \/ \E o \in Orders : OpenStorageDetail(d, o)
  \/ Back(d)
  \/ DeleteProduct(d)
  \/ RunCallback(d)
  \/ ServerApply(d)
  \/ DeliverData(d)
  \/ DeliverAck(d)
  \/ Disconnect(d)
  \/ Reconnect(d)
  \/ Relaunch(d)
  \/ Logout(d)
  \/ \E u \in Users : SignIn(d, u)

Spec == Init /\ [][Next]_vars

(* The main queue runs what is queued and the client keeps reconnecting;    *)
(* a connection that comes back again and again gets a message through in   *)
(* each direction again and again.  Users owe nothing.                      *)
Fairness == \A d \in Devices :
  /\ WF_vars(RunCallback(d))
  /\ WF_vars(Reconnect(d))
  /\ SF_vars(ServerApply(d))
  /\ SF_vars(Deliver(d))

FairSpec == Spec /\ Fairness
-------------------------------------------------------------------------------
(* Types of every variable; a listener writes what a tap can write.         *)
TypeOK ==
  /\ server \in [Orders -> Record]
  /\ user \in [Devices -> Users \cup {NoUser}]
  /\ conn \in [Devices -> BOOLEAN]
  /\ cache \in [Devices -> [Orders -> Record \cup {Unknown}]]
  /\ pend \in [Devices -> Seq(Write)]
  /\ applied \in [Devices -> Nat]
  /\ inbox \in [Devices -> Seq(Data \cup Ack)]
  /\ regs \in [Devices -> [Orders -> Seq(Post)]]
  /\ mainq \in [Devices -> Seq(Event)]
  /\ storage \in [Devices -> Screen]

QueuedFor(d, o, i) == \E k \in DOMAIN mainq[d] : mainq[d][k] = [order |-> o, reg |-> i]

(* LastWord: a listener registered by a tap is never out-voted for good.    *)
(* Whatever the server sent and whoever wrote, either the device shows what *)
(* this listener writes or a callback is queued that will write it again.   *)
(* On a phone that has not heard of the record yet, which can be tapped all *)
(* the same, nothing is written or queued for it                            *)
(* (PresenterDetailNewController.swift:29-36).                              *)
LastWord == \A d \in Devices, o \in Orders : \A i \in DOMAIN regs[d][o] :
  IF cache[d][o] = Unknown
  THEN WritesTo(pend[d], o) = {} /\ ~QueuedFor(d, o, i)
  ELSE View(d, o) = regs[d][o][i] \/ QueuedFor(d, o, i)

(* EchoNeverDrains: once a shipper has taken an order and dropped it again  *)
(* in one launch of the app (or two users of one phone have taken it), the  *)
(* two listeners keep the main queue busy in every reachable state from the *)
(* moment the phone has the record: each answers the other's write.         *)
EchoNeverDrains == \A d \in Devices, o \in Orders :
  cache[d][o] # Unknown /\ (\E i, j \in DOMAIN regs[d][o] : regs[d][o][i] # regs[d][o][j])
    => mainq[d] # <<>>

News(d, o) == {k \in DOMAIN inbox[d] : inbox[d][k].type = "data" /\ inbox[d][k].order = o}

(* CacheCatchesUp: a connected client that has nothing of an order under    *)
(* way to it holds the server's record of it, through disconnections,       *)
(* repeated writes and relaunches (FPersistentConnection.m restoreState).   *)
CacheCatchesUp == \A d \in Devices, o \in Orders :
  conn[d] /\ News(d, o) = {} => cache[d][o] = server[o]

Acks(d) == {k \in DOMAIN inbox[d] : inbox[d][k].type = "ack"}

(* AcksAnswerWrites: every acknowledgement under way answers a write the    *)
(* device still holds, one for one, so none is lost and none is taken for   *)
(* another's, also when a reconnection sends the writes a second time.      *)
AcksAnswerWrites == \A d \in Devices :
  Cardinality(Acks(d)) = applied[d] /\ applied[d] <= Len(pend[d])

Idle(d) == conn[d] /\ pend[d] = <<>> /\ inbox[d] = <<>> /\ mainq[d] = <<>>

(* QuietMeansAgreed: when every phone is idle, the server's record is what  *)
(* every live listener anywhere writes: two shippers who both took an order *)
(* can never both be idle, one of them having lost.                         *)
QuietMeansAgreed == (\A d \in Devices : Idle(d)) =>
  \A d \in Devices, o \in Orders : \A i \in DOMAIN regs[d][o] : server[o] = regs[d][o][i]

(* The database behaves as a board on which the last writer wins: the apps  *)
(* never restore "chưa nhận" and never leave an order half taken.           *)
LastWriterBoard == Board!BoardSpec

(* What the report claims (paragraph 2500): an order one shipper has taken  *)
(* is out of reach of the others until that shipper drops it.               *)
ExclusiveBoard == Board!StrictSpec

Claimed(d, o) == regs[d][o] # <<>>
SoleClaim(d, o) == Claimed(d, o) /\ \A e \in Devices \ {d} : ~Claimed(e, o)

(* SoleClaimSettles: if one listener alone is left on an order for good,    *)
(* the server's record becomes what it writes and stays so, however often   *)
(* the connection drops and writes are sent twice.                          *)
SoleClaimSettles == \A d \in Devices, o \in Orders :
  <>[](SoleClaim(d, o) /\ Len(regs[d][o]) = 1) => <>[](\E i \in DOMAIN regs[d][o] : server[o] = regs[d][o][i])
===============================================================================
