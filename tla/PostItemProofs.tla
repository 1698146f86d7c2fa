------------------------------ MODULE PostItemProofs ------------------------------
(***************************************************************************)
(* Proofs about posting: an order that is listed is whole, nothing the     *)
(* pipeline waits for is ever taken back, and only a repeated write takes  *)
(* an order back from its shipper, for any number of shops, orders and     *)
(* seconds, over connections that drop and apps that are killed.           *)
(***************************************************************************)
EXTENDS PostItem, SequenceTheorems, TLAPS

(* What one shop's posts write.                                             *)
Simple(s) == [path : {Start(s), Finish(s), Recipient(s)} \cup {Item(t) : t \in Times},
              value : {Written}]
DetailWrite(s, t, i)  == [path |-> Detail(t), value |-> DetailBy(s, i)]
ProductWrite(s, k, t) == [path |-> Product(s, k), value |-> ProductOf(t)]

WritesOf(s) == Simple(s)
  \cup {DetailWrite(s, t, i) : t \in Times, i \in Times}
  \cup {ProductWrite(s, k, t) : k \in Times, t \in Times}

(* The paths a write relies on.                                             *)
Needs(w) == IF w.path.root = "detail" THEN w.value.children
            ELSE IF w.path.root = "product" THEN {Detail(w.value.detail)} ELSE {}

(* A path is in the database db, or among the first n writes of a queue.    *)
There(db, p)   == db[p] # Absent
Ahead(q, n, p) == \E j \in 1..n : q[j].path = p

(* What a database holds under a detail or a product says what it should.   *)
DetailsWhole(db) == \A t \in Times :
  /\ db[Detail(t)] \in {Absent} \cup Details
  /\ There(db, Detail(t)) => \A p \in db[Detail(t)].children : There(db, p)

ProductsWhole(db) == \A s \in Shops, k \in Times :
  /\ db[Product(s, k)] \in {Absent} \cup Products
  /\ There(db, Product(s, k)) => There(db, Detail(db[Product(s, k)].detail))

Database == {db \in [Paths -> Values] : DetailsWhole(db) /\ ProductsWhole(db)}

(* The writes q of a client: the first n, which have been applied, are in   *)
(* the database, and every write comes after those it relies on.            *)
InOrder(db, q, n) ==
  /\ n \in 0..Len(q)
  /\ \A j \in 1..n : There(db, q[j].path)
  /\ \A k \in 1..Len(q) : \A p \in Needs(q[k]) : There(db, p) \/ Ahead(q, k - 1, p)

WireInv ==
  /\ server \in Database
  /\ pend \in [Shops -> Seq(Write)] /\ applied \in [Shops -> Nat]
  /\ \A s \in Shops : pend[s] \in Seq(WritesOf(s)) /\ InOrder(server, pend[s], applied[s])

(* Types; the Product is always found, so the alert never says "failed".    *)
StageInv ==
  /\ now \in Times
  /\ keys \in [Shops -> [item : Times, detail : Times, product : Times]]
  /\ stage \in [Shops -> {"form", "uploading", "children", "detail", "product", "stuck"}]
  /\ reads \in [Shops -> SUBSET Paths]
  /\ alert \in [Shops -> {"none", "incomplete", "waiting", "success"}]

(* How far a post has come tells what can be found.                         *)
Post(s) ==
  /\ stage[s] \in {"form", "uploading", "stuck"} => reads[s] = {}
  /\ stage[s] \in {"uploading", "children"} =>
       \A p \in {Start(s), Finish(s), Recipient(s)} : Found(s, p)
  /\ stage[s] = "children" =>
       Found(s, Item(keys[s].item)) /\ reads[s] \subseteq Children(s, keys[s].item)
  /\ stage[s] = "detail" =>
       Found(s, Detail(keys[s].detail)) /\ reads[s] \subseteq {Detail(keys[s].detail)}
  /\ stage[s] = "product" =>
       Found(s, Product(s, keys[s].product)) /\ reads[s] \subseteq {Product(s, keys[s].product)}
  /\ alert[s] = "incomplete" => stage[s] = "form"
  /\ alert[s] = "success" => stage[s] = "product" /\ reads[s] = {}

PostInv == WireInv /\ StageInv /\ \A s \in Shops : Post(s)
--------------------------------------------------------------------------------
(* Paths are told apart by their trees and keys.                            *)
LEMMA PathFacts ==
  /\ \A t \in Times : Item(t) \in Paths /\ Detail(t) \in Paths
  /\ \A s \in Shops : {Start(s), Finish(s), Recipient(s)} \subseteq Paths
  /\ \A s \in Shops, t \in Times : Product(s, t) \in Paths /\ Children(s, t) \subseteq Paths
BY DEF Paths, Children

(* Every write a post makes is a write, of one of three kinds, and relies   *)
(* on what its kind says.                                                   *)
LEMMA SimpleFacts ==
  ASSUME NEW s \in Shops, NEW w \in Simple(s)
  PROVE  /\ w \in Write /\ w.value = Written /\ Needs(w) = {}
         /\ \A t \in Times : w.path # Detail(t)
         /\ \A x \in Shops, t \in Times : w.path # Product(x, t)
<1>1. w.path \in Paths /\ w.value = Written
  BY DEF Simple, Paths
<1>2. w.value \in Values \ {Absent}
  BY <1>1, AbsentAssumption DEF Values
<1>3. w = [path |-> w.path, value |-> w.value]
  BY DEF Simple
<1>4. w \in Write
  BY <1>1, <1>2, <1>3 DEF Write
<1>5. w.path.root \notin {"detail", "product"}
  BY DEF Simple, Start, Finish, Recipient, Item
<1>6. Needs(w) = {}
  BY <1>5 DEF Needs
<1>7. \A t \in Times : w.path # Detail(t)
  BY <1>5 DEF Detail
<1>8. \A x \in Shops, t \in Times : w.path # Product(x, t)
  BY <1>5 DEF Product
<1> QED BY <1>1, <1>4, <1>6, <1>7, <1>8

LEMMA DetailFacts ==
  ASSUME NEW s \in Shops, NEW t \in Times, NEW i \in Times
  PROVE  /\ DetailWrite(s, t, i) \in Write
         /\ DetailBy(s, i) \in Details /\ DetailBy(s, i) # Absent
         /\ DetailBy(s, i).children = Children(s, i)
         /\ Needs(DetailWrite(s, t, i)) = Children(s, i)
<1>1. DetailBy(s, i) \in Details /\ DetailBy(s, i).children = Children(s, i)
  BY DEF DetailBy, Details
<1>2. DetailBy(s, i) # Absent /\ DetailBy(s, i) \in Values \ {Absent}
  BY <1>1, AbsentAssumption DEF Values
<1>3. DetailWrite(s, t, i) \in Write
  BY <1>2, PathFacts DEF DetailWrite, Write
<1>4. DetailWrite(s, t, i).path.root = "detail" /\ DetailWrite(s, t, i).value = DetailBy(s, i)
  BY DEF DetailWrite, Detail
<1> QED BY <1>1, <1>2, <1>3, <1>4 DEF Needs

LEMMA ProductFacts ==
  ASSUME NEW s \in Shops, NEW k \in Times, NEW t \in Times
  PROVE  /\ ProductWrite(s, k, t) \in Write
         /\ ProductOf(t) \in Products /\ ProductOf(t) # Absent /\ ProductOf(t).detail = t
         /\ Needs(ProductWrite(s, k, t)) = {Detail(t)}
<1>1. ProductOf(t) \in Products /\ ProductOf(t).detail = t
  BY DEF ProductOf, Products
<1>2. ProductOf(t) # Absent /\ ProductOf(t) \in Values \ {Absent}
  BY <1>1, AbsentAssumption DEF Values
<1>3. ProductWrite(s, k, t) \in Write
  BY <1>2, PathFacts DEF ProductWrite, Write
<1>4. /\ ProductWrite(s, k, t).path.root = "product"
      /\ ProductWrite(s, k, t).value = ProductOf(t)
  BY DEF ProductWrite, Product
<1> QED BY <1>1, <1>2, <1>3, <1>4 DEF Needs

LEMMA WritesAreWrites ==
  ASSUME NEW s \in Shops
  PROVE  WritesOf(s) \subseteq Write /\ Simple(s) \subseteq WritesOf(s)
BY SimpleFacts, DetailFacts, ProductFacts DEF WritesOf
--------------------------------------------------------------------------------
(* A path is found in a database or among the writes of a queue.            *)
In(db, q, p) == There(db, p) \/ Ahead(q, Len(q), p)

LEMMA FoundIsIn ==
  ASSUME NEW s \in Shops, NEW p, pend[s] \in Seq(Write)
  PROVE  Found(s, p) <=> In(server, pend[s], p)
<1>1. DOMAIN pend[s] = 1..Len(pend[s])
  BY LenProperties
<1> QED BY <1>1 DEF Found, Pending, In, There, Ahead

(* Writes are added to a queue, each relying on what is found.              *)
LEMMA OrderAppend ==
  ASSUME NEW W, NEW db, NEW q \in Seq(W), NEW n, InOrder(db, q, n), NEW ws \in Seq(W),
         \A k \in 1..Len(ws) : \A p \in Needs(ws[k]) : In(db, q, p)
  PROVE  /\ InOrder(db, q \o ws, n)
         /\ \A p : In(db, q, p) => In(db, q \o ws, p)
         /\ \A k \in 1..Len(ws) : In(db, q \o ws, ws[k].path)
<1> DEFINE r == q \o ws
<1>1. Len(q) \in Nat /\ Len(ws) \in Nat
  BY LenProperties
<1>2. /\ Len(r) = Len(q) + Len(ws)
      /\ \A k \in 1..Len(q) + Len(ws) : r[k] = IF k <= Len(q) THEN q[k] ELSE ws[k - Len(q)]
  BY ConcatProperties
<1> HIDE DEF r
<1>3. \A k \in 1..Len(q) : r[k] = q[k]
  BY <1>1, <1>2
<1>4. \A k \in 1..Len(ws) : r[Len(q) + k] = ws[k] /\ Len(q) + k \in 1..Len(r)
  BY <1>1, <1>2
<1>5. \A p : In(db, q, p) => In(db, r, p)
  BY <1>1, <1>2, <1>3 DEF In, Ahead
<1>6. \A k \in 1..Len(ws) : In(db, r, ws[k].path)
  BY <1>4 DEF In, Ahead
<1>7. n \in 0..Len(r) /\ \A j \in 1..n : There(db, r[j].path)
  BY <1>1, <1>2, <1>3 DEF InOrder
<1>8. ASSUME NEW k \in 1..Len(r), NEW p \in Needs(r[k])
      PROVE  There(db, p) \/ Ahead(r, k - 1, p)
  <2>1. CASE k \in 1..Len(q)
    <3>1. There(db, p) \/ Ahead(q, k - 1, p)
      BY <1>3, <1>8, <2>1 DEF InOrder
    <3> QED BY <1>1, <1>3, <2>1, <3>1 DEF Ahead
  <2>2. CASE k \notin 1..Len(q)
    <3>1. k - Len(q) \in 1..Len(ws) /\ r[k] = ws[k - Len(q)] /\ Len(q) <= k - 1
      BY <1>1, <1>2, <2>2
    <3>2. In(db, q, p)
      BY <1>8, <3>1
    <3> QED BY <1>1, <1>3, <3>1, <3>2 DEF In, Ahead
  <2> QED BY <2>1, <2>2
<1> QED BY <1>5, <1>6, <1>7, <1>8 DEF InOrder, r

(* The oldest write is acknowledged.                                        *)
LEMMA OrderTail ==
  ASSUME NEW W, NEW db, NEW q \in Seq(W), NEW n, InOrder(db, q, n), n > 0
  PROVE  /\ InOrder(db, Tail(q), n - 1)
         /\ \A p : In(db, q, p) => In(db, Tail(q), p)
<1> DEFINE r == Tail(q)
<1>1. Len(q) \in Nat /\ n \in 1..Len(q)
  BY LenProperties DEF InOrder
<1>2. q # <<>>
  BY <1>1
<1>3. Len(r) = Len(q) - 1 /\ \A k \in 1..Len(r) : r[k] = q[k + 1]
  BY <1>2, HeadTailProperties
<1> HIDE DEF r
<1>4. There(db, q[1].path)
  BY <1>1 DEF InOrder
<1>5. ASSUME NEW p, NEW k \in 1..Len(q) + 1, Ahead(q, k - 1, p), ~There(db, p)
      PROVE  Ahead(r, k - 2, p)
  <2>1. PICK j \in 1..k - 1 : q[j].path = p
    BY <1>5 DEF Ahead
  <2>2. j # 1 /\ j \in Int /\ j - 1 \in 1..k - 2 /\ j - 1 \in 1..Len(r)
    BY <1>1, <1>3, <1>4, <1>5, <2>1
  <2>3. r[j - 1] = q[j]
    BY <1>3, <2>2
  <2> QED BY <2>1, <2>2, <2>3 DEF Ahead
<1>6. \A p : In(db, q, p) => In(db, r, p)
  <2> SUFFICES ASSUME NEW p, In(db, q, p), ~There(db, p) PROVE Ahead(r, Len(r), p)
    BY DEF In
  <2>1. Ahead(q, (Len(q) + 1) - 1, p)
    BY <1>1 DEF In
  <2>2. Ahead(r, (Len(q) + 1) - 2, p)
    BY <1>1, <1>5, <2>1
  <2> QED BY <1>1, <1>3, <2>2
<1>7. n - 1 \in 0..Len(r) /\ \A j \in 1..n - 1 : There(db, r[j].path)
  BY <1>1, <1>3 DEF InOrder
<1>8. ASSUME NEW k \in 1..Len(r), NEW p \in Needs(r[k]), ~There(db, p)
      PROVE  Ahead(r, k - 1, p)
  <2>1. k + 1 \in 1..Len(q) /\ r[k] = q[k + 1]
    BY <1>1, <1>3
  <2>2. Ahead(q, (k + 1) - 1, p)
    BY <1>8, <2>1 DEF InOrder
  <2>3. Ahead(r, (k + 1) - 2, p)
    BY <1>1, <1>5, <1>8, <2>1, <2>2
  <2> QED BY <2>3
<1> QED BY <1>6, <1>7, <1>8 DEF InOrder, r

(* What a write names is a path, and so is what it relies on.               *)
LEMMA NamesPaths ==
  ASSUME NEW s \in Shops, NEW w \in WritesOf(s)
  PROVE  /\ w.path \in Paths /\ w.value \in Values \ {Absent} /\ Needs(w) \subseteq Paths
         /\ \A t \in Times : w.path = Detail(t) =>
              \E i \in Times : w.value = DetailBy(s, i) /\ Needs(w) = Children(s, i)
         /\ \A x \in Shops, k \in Times : w.path = Product(x, k) =>
              \E t \in Times : w.value = ProductOf(t) /\ Needs(w) = {Detail(t)}
<1>1. w \in Write
  BY WritesAreWrites
<1>2. w.path \in Paths /\ w.value \in Values \ {Absent}
  BY <1>1 DEF Write
<1>3. CASE w \in Simple(s)
  BY <1>2, <1>3, SimpleFacts
<1>4. CASE \E t \in Times, i \in Times : w = DetailWrite(s, t, i)
  <2>1. PICK t \in Times, i \in Times : w = DetailWrite(s, t, i)
    BY <1>4
  <2>2. w.value = DetailBy(s, i) /\ w.path = Detail(t) /\ Needs(w) = Children(s, i)
    BY <2>1, DetailFacts DEF DetailWrite
  <2>3. \A x \in Shops, k \in Times : w.path # Product(x, k)
    BY <2>2 DEF Detail, Product
  <2> QED BY <1>2, <2>2, <2>3, PathFacts
<1>5. CASE \E k \in Times, t \in Times : w = ProductWrite(s, k, t)
  <2>1. PICK k \in Times, t \in Times : w = ProductWrite(s, k, t)
    BY <1>5
  <2>2. w.value = ProductOf(t) /\ w.path = Product(s, k) /\ Needs(w) = {Detail(t)}
    BY <2>1, ProductFacts DEF ProductWrite
  <2>3. \A x \in Times : w.path # Detail(x)
    BY <2>2 DEF Detail, Product
  <2> QED BY <1>2, <2>2, <2>3, PathFacts
<1> QED BY <1>3, <1>4, <1>5 DEF WritesOf

(* A database that gains values and loses none.                             *)
Grown(db, db2) == \A p \in Paths : There(db, p) => There(db2, p)

LEMMA OrderGrows ==
  ASSUME NEW s \in Shops, NEW q \in Seq(WritesOf(s)), NEW db, NEW db2, Grown(db, db2),
         NEW n, InOrder(db, q, n)
  PROVE  InOrder(db2, q, n) /\ \A p \in Paths : In(db, q, p) => In(db2, q, p)
<1>1. \A k \in 1..Len(q) : q[k] \in WritesOf(s)
  BY ElementOfSeq
<1>2. \A k \in 1..Len(q) : q[k].path \in Paths /\ Needs(q[k]) \subseteq Paths
  BY <1>1, NamesPaths
<1>3. Len(q) \in Nat
  BY LenProperties
<1> QED BY <1>2, <1>3 DEF InOrder, In, Grown

(* The details and products of a database that is whole.                    *)
LEMMA ChildrenArePaths ==
  ASSUME NEW d \in Details PROVE d # Absent /\ d.children \subseteq Paths
BY PathFacts, AbsentAssumption DEF Details

LEMMA ProductNamesDetail ==
  ASSUME NEW x \in Products PROVE x # Absent /\ x.detail \in Times
BY AbsentAssumption DEF Products

(* The next write of a client is applied.                                   *)
LEMMA OrderApply ==
  ASSUME NEW s \in Shops, NEW q \in Seq(WritesOf(s)), NEW db \in Database,
         NEW n, InOrder(db, q, n), n < Len(q),
         NEW db2, db2 = [db EXCEPT ![q[n + 1].path] = q[n + 1].value]
  PROVE  db2 \in Database /\ Grown(db, db2) /\ InOrder(db2, q, n + 1)
<1>1. Len(q) \in Nat /\ n \in Nat /\ n + 1 \in 1..Len(q)
  BY LenProperties DEF InOrder
<1> DEFINE w == q[n + 1]
<1>2. w \in WritesOf(s)
  BY <1>1, ElementOfSeq
<1> HIDE DEF w
<1>3. db \in [Paths -> Values] /\ DetailsWhole(db) /\ ProductsWhole(db)
  BY DEF Database
<1>4. w.path \in Paths /\ w.value \in Values /\ w.value # Absent /\ Needs(w) \subseteq Paths
  BY <1>2, NamesPaths
<1>5. /\ db2 \in [Paths -> Values] /\ db2[w.path] = w.value
      /\ \A p \in Paths : p # w.path => db2[p] = db[p]
  BY <1>3, <1>4 DEF w
<1>6. Grown(db, db2)
  BY <1>4, <1>5 DEF Grown, There
<1>7. \A p \in Needs(w) : There(db, p)
  <2> SUFFICES ASSUME NEW p \in Needs(w), ~There(db, p) PROVE FALSE
    OBVIOUS
  <2>1. Ahead(q, (n + 1) - 1, p)
    BY <1>1 DEF InOrder, w
  <2> QED BY <1>1, <2>1 DEF Ahead, InOrder
<1>8. DetailsWhole(db2)
  <2> SUFFICES ASSUME NEW t \in Times
               PROVE  /\ db2[Detail(t)] \in {Absent} \cup Details
                      /\ There(db2, Detail(t)) => \A p \in db2[Detail(t)].children : There(db2, p)
    BY DEF DetailsWhole
  <2>1. CASE w.path = Detail(t)
    <3>1. PICK i \in Times : w.value = DetailBy(s, i) /\ Needs(w) = Children(s, i)
      BY <1>2, <2>1, NamesPaths
    <3>2. db2[Detail(t)] \in Details /\ db2[Detail(t)].children = Needs(w)
      BY <1>5, <2>1, <3>1, DetailFacts
    <3> QED BY <1>4, <1>6, <1>7, <3>2 DEF Grown
  <2>2. CASE w.path # Detail(t)
    <3>1. db2[Detail(t)] = db[Detail(t)]
      BY <1>5, <2>2, PathFacts
    <3>2. db[Detail(t)] \in {Absent} \cup Details
      BY <1>3 DEF DetailsWhole
    <3> QED BY <1>3, <1>6, <3>1, <3>2, ChildrenArePaths DEF DetailsWhole, Grown, There
  <2> QED BY <2>1, <2>2
<1>9. ProductsWhole(db2)
  <2> SUFFICES ASSUME NEW x \in Shops, NEW k \in Times
               PROVE  /\ db2[Product(x, k)] \in {Absent} \cup Products
                      /\ There(db2, Product(x, k)) => There(db2, Detail(db2[Product(x, k)].detail))
    BY DEF ProductsWhole
  <2>1. CASE w.path = Product(x, k)
    <3>1. PICK t \in Times : w.value = ProductOf(t) /\ Needs(w) = {Detail(t)}
      BY <1>2, <2>1, NamesPaths
    <3>2. db2[Product(x, k)] \in Products /\ db2[Product(x, k)].detail = t
      BY <1>5, <2>1, <3>1, ProductFacts
    <3> QED BY <1>4, <1>6, <1>7, <3>1, <3>2 DEF Grown
  <2>2. CASE w.path # Product(x, k)
    <3>1. db2[Product(x, k)] = db[Product(x, k)]
      BY <1>5, <2>2, PathFacts
    <3>2. db[Product(x, k)] \in {Absent} \cup Products
      BY <1>3 DEF ProductsWhole
    <3>3. There(db, Product(x, k)) => Detail(db[Product(x, k)].detail) \in Paths
      BY <3>2, ProductNamesDetail, PathFacts DEF There
    <3> QED BY <1>3, <1>6, <3>1, <3>2, <3>3 DEF ProductsWhole, Grown, There
  <2> QED BY <2>1, <2>2
<1>10. InOrder(db2, q, n)
  BY <1>6, OrderGrows
<1>11. There(db2, q[n + 1].path)
  BY <1>4, <1>5 DEF There, w
<1>12. InOrder(db2, q, n + 1)
  <2>1. \A j \in 1..n + 1 : j \in 1..n \/ j = n + 1
    BY <1>1
  <2>2. \A j \in 1..n : There(db2, q[j].path)
    BY <1>10 DEF InOrder
  <2>3. \A j \in 1..n + 1 : There(db2, q[j].path)
    BY <1>11, <2>1, <2>2
  <2>4. n + 1 \in 0..Len(q)
    BY <1>1
  <2> QED BY <1>10, <2>3, <2>4 DEF InOrder
<1> QED BY <1>5, <1>6, <1>8, <1>9, <1>12 DEF Database

(* A shipper's uid is written into a detail that is there.                  *)
LEMMA TakeKeepsWhole ==
  ASSUME NEW db \in Database, NEW t \in Times, There(db, Detail(t)), NEW u \in Shippers,
         NEW db2, db2 = [db EXCEPT ![Detail(t)].uid = u]
  PROVE  db2 \in Database /\ Grown(db, db2)
<1>1. db \in [Paths -> Values] /\ DetailsWhole(db) /\ ProductsWhole(db)
  BY DEF Database
<1>2. Detail(t) \in Paths
  BY PathFacts
<1> DEFINE d == db[Detail(t)]
           e == [d EXCEPT !.uid = u]
<1>3. d \in Details
  BY <1>1 DEF DetailsWhole, There
<1>4. e \in Details /\ e.children = d.children
  BY <1>3 DEF Details
<1>5. e # Absent /\ e \in Values
  BY <1>4, ChildrenArePaths DEF Values
<1> HIDE DEF e
<1>6. /\ db2 \in [Paths -> Values] /\ db2[Detail(t)] = e
      /\ \A p \in Paths : p # Detail(t) => db2[p] = db[p]
  BY <1>1, <1>2, <1>5 DEF e
<1>7. Grown(db, db2)
  BY <1>5, <1>6 DEF Grown, There
<1>8. DetailsWhole(db2)
  <2> SUFFICES ASSUME NEW x \in Times
               PROVE  /\ db2[Detail(x)] \in {Absent} \cup Details
                      /\ There(db2, Detail(x)) => \A p \in db2[Detail(x)].children : There(db2, p)
    BY DEF DetailsWhole
  <2>1. db2[Detail(x)] \in {Absent} \cup Details /\ db[Detail(x)] \in {Absent} \cup Details
    BY <1>1, <1>4, <1>6, PathFacts DEF DetailsWhole
  <2>2. There(db2, Detail(x)) =>
          There(db, Detail(x)) /\ db2[Detail(x)].children = db[Detail(x)].children
    BY <1>4, <1>6, PathFacts DEF There
  <2> QED BY <1>1, <1>7, <2>1, <2>2, ChildrenArePaths DEF DetailsWhole, Grown, There
<1>9. ProductsWhole(db2)
  <2> SUFFICES ASSUME NEW x \in Shops, NEW k \in Times
               PROVE  /\ db2[Product(x, k)] \in {Absent} \cup Products
                      /\ There(db2, Product(x, k)) => There(db2, Detail(db2[Product(x, k)].detail))
    BY DEF ProductsWhole
  <2>1. Product(x, k) # Detail(t) /\ Product(x, k) \in Paths
    BY PathFacts DEF Product, Detail
  <2>2. db2[Product(x, k)] = db[Product(x, k)] /\ db[Product(x, k)] \in {Absent} \cup Products
    BY <1>1, <1>6, <2>1 DEF ProductsWhole
  <2>3. There(db, Product(x, k)) => Detail(db[Product(x, k)].detail) \in Paths
    BY <2>2, ProductNamesDetail, PathFacts DEF There
  <2> QED BY <1>1, <1>7, <2>2, <2>3 DEF ProductsWhole, Grown, There
<1> QED BY <1>6, <1>7, <1>8, <1>9 DEF Database

--------------------------------------------------------------------------------
(* At first there is nothing.                                               *)
LEMMA PostInit == Init => PostInv
<1> SUFFICES ASSUME Init PROVE PostInv
  OBVIOUS
<1>1. server \in [Paths -> Values] /\ \A p \in Paths : ~There(server, p)
  BY DEF Init, Values, There
<1>2. server \in Database
  <2>1. DetailsWhole(server)
    BY <1>1, PathFacts DEF DetailsWhole, There
  <2>2. ProductsWhole(server)
    BY <1>1, PathFacts DEF ProductsWhole, There
  <2> QED BY <1>1, <2>1, <2>2 DEF Database
<1>3. \A s \in Shops : pend[s] = <<>> /\ applied[s] = 0
  BY DEF Init
<1>4. ASSUME NEW s \in Shops
      PROVE  pend[s] \in Seq(WritesOf(s)) /\ InOrder(server, pend[s], applied[s])
  <2>1. pend[s] = <<>> /\ applied[s] = 0 /\ Len(pend[s]) = 0 /\ 1..0 = {}
    BY <1>3
  <2>2. 0 \in 0..Len(pend[s]) /\ 1..Len(pend[s]) = {}
    BY <2>1
  <2> QED BY <2>1, <2>2 DEF InOrder
<1>5. pend \in [Shops -> Seq(Write)] /\ applied \in [Shops -> Nat]
  BY DEF Init
<1>6. WireInv
  BY <1>2, <1>4, <1>5 DEF WireInv
<1>7. 0 \in Times
  BY PostItemAssumption DEF Times
<1>8. StageInv
  BY <1>7 DEF Init, StageInv
<1>9. \A s \in Shops : Post(s)
  BY DEF Init, Post
<1> QED BY <1>6, <1>8, <1>9 DEF PostInv

(* What one shop's client does to its queue and the database, in terms of   *)
(* the queue alone, gives the invariant of the next state.                  *)
LEMMA WireStep ==
  ASSUME WireInv, NEW s \in Shops, NEW db \in Database, Grown(server, db),
         NEW q \in Seq(WritesOf(s)), NEW n \in Nat, InOrder(db, q, n),
         server' = db, pend' = [pend EXCEPT ![s] = q], applied' = [applied EXCEPT ![s] = n]
  PROVE  WireInv'
<1>1. q \in Seq(Write)
  BY WritesAreWrites
<1>2. pend' \in [Shops -> Seq(Write)] /\ applied' \in [Shops -> Nat]
  BY <1>1 DEF WireInv
<1>3. ASSUME NEW x \in Shops
      PROVE  pend'[x] \in Seq(WritesOf(x)) /\ InOrder(db, pend'[x], applied'[x])
  <2>1. CASE x = s
    <3>1. pend'[x] = q /\ applied'[x] = n
      BY <2>1 DEF WireInv
    <3> QED BY <2>1, <3>1
  <2>2. CASE x # s
    <3>1. pend'[x] = pend[x] /\ applied'[x] = applied[x]
      BY <2>2 DEF WireInv
    <3>2. pend[x] \in Seq(WritesOf(x)) /\ InOrder(server, pend[x], applied[x])
      BY DEF WireInv
    <3>3. InOrder(db, pend[x], applied[x])
      BY <3>2, OrderGrows
    <3> QED BY <3>1, <3>2, <3>3
  <2> QED BY <2>1, <2>2
<1> QED BY <1>2, <1>3 DEF WireInv

(* What is found stays found, for a shop whose queue keeps what it has.     *)
Kept(x) == /\ Grown(server, server')
           /\ \A p \in Paths : In(server, pend[x], p) => In(server, pend'[x], p)

LEMMA FoundStays ==
  ASSUME WireInv, WireInv', NEW x \in Shops, Kept(x), NEW p \in Paths, Found(x, p)
  PROVE  Found(x, p)'
<1>1. pend[x] \in Seq(Write) /\ pend'[x] \in Seq(Write)
  BY DEF WireInv
<1>2. In(server, pend'[x], p)
  BY <1>1, FoundIsIn DEF Kept
<1>3. There(server, p) => There(server', p)
  BY DEF Grown, Kept
<1>4. In(server', pend'[x], p)
  BY <1>2, <1>3 DEF In
<1>5. DOMAIN pend'[x] = 1..Len(pend'[x])
  BY <1>1, LenProperties
<1> QED BY <1>4, <1>5 DEF In, Ahead, There, Found, Pending

(* A step that leaves a shop's post alone leaves what is known of it.       *)
LEMMA PostStays ==
  ASSUME PostInv, WireInv', NEW x \in Shops, Kept(x),
         stage'[x] = stage[x], keys'[x] = keys[x], reads'[x] = reads[x], alert'[x] = alert[x]
  PROVE  Post(x)'
<1>1. \A p \in Paths : Found(x, p) => Found(x, p)'
  BY FoundStays DEF PostInv
<1>2. /\ keys[x].item \in Times /\ keys[x].detail \in Times /\ keys[x].product \in Times
      /\ Post(x)
  BY DEF PostInv, StageInv
<1>3. /\ {Start(x), Finish(x), Recipient(x)} \subseteq Paths
      /\ Item(keys[x].item) \in Paths /\ Detail(keys[x].detail) \in Paths
      /\ Product(x, keys[x].product) \in Paths
  BY <1>2, PathFacts
<1> QED BY <1>1, <1>2, <1>3 DEF Post

(* A step that touches neither the database nor a queue.                    *)
LEMMA WireSame ==
  ASSUME WireInv, UNCHANGED <<server, pend, applied>>
  PROVE  WireInv' /\ \A x \in Shops : Kept(x) /\ \A p \in Paths : Found(x, p)' <=> Found(x, p)
<1>1. WireInv'
  BY DEF WireInv
<1>2. \A x \in Shops : Kept(x)
  BY DEF Kept, Grown
<1>3. \A x \in Shops : \A p \in Paths : Found(x, p)' <=> Found(x, p)
  BY DEF Found, Pending
<1> QED BY <1>1, <1>2, <1>3

(* The steps of the form and the reads.                                     *)
LEMMA QuietStep ==
  ASSUME PostInv, UNCHANGED <<server, pend, applied, keys>>, StageInv',
         NEW s \in Shops, Post(s)',
         \A x \in Shops \ {s} : /\ stage'[x] = stage[x] /\ reads'[x] = reads[x]
                                /\ alert'[x] = alert[x]
  PROVE  PostInv'
<1>1. WireInv' /\ \A x \in Shops : Kept(x)
  BY WireSame DEF PostInv
<1>2. ASSUME NEW x \in Shops PROVE Post(x)'
  <2>1. CASE x = s
    BY <2>1
  <2>2. CASE x # s
    BY <1>1, <2>2, PostStays
  <2> QED BY <2>1, <2>2
<1> QED BY <1>1, <1>2 DEF PostInv

LEMMA FormSteps ==
  ASSUME PostInv, NEW s \in Shops,
         ClickIncomplete(s) \/ UploadFailed(s) \/ AnswerOne(s) \/ Success(s) \/ TapAlert(s)
  PROVE  PostInv'
<1>1. StageInv /\ Post(s)
  BY DEF PostInv
<1>2. UNCHANGED <<now, server, pend, applied, keys>>
  BY DEF ClickIncomplete, UploadFailed, AnswerOne, Success, TapAlert
<1>3. \A p \in Paths : Found(s, p)' <=> Found(s, p)
  BY <1>2, WireSame DEF PostInv
<1>4. /\ keys[s].item \in Times /\ keys[s].detail \in Times /\ keys[s].product \in Times
  BY <1>1 DEF StageInv
<1>5. /\ {Start(s), Finish(s), Recipient(s)} \subseteq Paths
      /\ Item(keys[s].item) \in Paths /\ Detail(keys[s].detail) \in Paths
      /\ Product(s, keys[s].product) \in Paths
  BY <1>4, PathFacts
<1>6. CASE ClickIncomplete(s)
  <2>1. StageInv'
    BY <1>1, <1>2, <1>6 DEF StageInv, ClickIncomplete
  <2>2. Post(s)'
    BY <1>1, <1>3, <1>5, <1>6 DEF StageInv, Post, ClickIncomplete
  <2> QED BY <1>2, <1>6, <2>1, <2>2, QuietStep DEF ClickIncomplete, StageInv, PostInv
<1>7. CASE UploadFailed(s)
  <2>1. StageInv'
    BY <1>1, <1>2, <1>7 DEF StageInv, UploadFailed
  <2>2. Post(s)'
    BY <1>1, <1>3, <1>5, <1>7 DEF StageInv, Post, UploadFailed
  <2> QED BY <1>2, <1>7, <2>1, <2>2, QuietStep DEF UploadFailed, StageInv, PostInv
<1>8. CASE Success(s)
  <2>1. StageInv'
    BY <1>1, <1>2, <1>8 DEF StageInv, Success
  <2>2. Post(s)'
    BY <1>1, <1>3, <1>5, <1>8 DEF StageInv, Post, Success
  <2> QED BY <1>2, <1>8, <2>1, <2>2, QuietStep DEF Success, StageInv, PostInv
<1>9. CASE TapAlert(s)
  <2>1. StageInv'
    BY <1>1, <1>2, <1>9 DEF StageInv, TapAlert
  <2>2. Post(s)'
    BY <1>1, <1>9 DEF StageInv, Post, TapAlert
  <2> QED BY <1>2, <1>9, <2>1, <2>2, QuietStep DEF TapAlert, StageInv, PostInv
<1>10. CASE AnswerOne(s)
  <2>1. PICK p \in reads[s] :
          /\ reads' = [reads EXCEPT ![s] = IF Found(s, p) THEN @ \ {p} ELSE {}]
          /\ stage' = [stage EXCEPT ![s] = IF Found(s, p) THEN @ ELSE "stuck"]
          /\ alert' = [alert EXCEPT ![s] = IF Found(s, p) \/ stage[s] # "product" THEN @ ELSE "failed"]
    BY <1>10 DEF AnswerOne
  <2>7. Found(s, p) \/ stage[s] # "product"
    BY <1>1, <2>1 DEF Post
  <2>8. alert' = alert
    BY <1>1, <2>1, <2>7 DEF StageInv
  <2>2. StageInv' /\ alert' = alert
    BY <1>1, <1>2, <1>10, <2>1, <2>8 DEF StageInv, AnswerOne
  <2>3. /\ reads'[s] = IF Found(s, p) THEN reads[s] \ {p} ELSE {}
        /\ stage'[s] = IF Found(s, p) THEN stage[s] ELSE "stuck"
    BY <1>1, <2>1 DEF StageInv
  <2>4. stage[s] \notin {"form", "uploading", "stuck"} /\ alert[s] \notin {"incomplete", "success"}
    BY <1>1, <2>1 DEF Post
  <2>5. CASE Found(s, p)
    <3>1. stage'[s] = stage[s] /\ reads'[s] \subseteq reads[s]
      BY <2>3, <2>5
    <3>2. Post(s)'
      BY <1>1, <1>2, <1>3, <1>5, <2>2, <2>4, <3>1 DEF Post
    <3> QED BY <1>2, <2>1, <2>2, <3>2, QuietStep DEF StageInv, PostInv
  <2>6. CASE ~Found(s, p)
    <3>1. stage'[s] = "stuck" /\ reads'[s] = {}
      BY <2>3, <2>6
    <3>2. Post(s)'
      BY <2>2, <2>4, <3>1 DEF Post
    <3> QED BY <1>2, <2>1, <2>2, <3>2, QuietStep DEF StageInv, PostInv
  <2> QED BY <2>5, <2>6
<1> QED BY <1>6, <1>7, <1>8, <1>9, <1>10

(* A stage ends with writes that rely on what has been found.               *)
LEMMA Pushes ==
  ASSUME WireInv, NEW s \in Shops, NEW ws \in Seq(WritesOf(s)),
         \A k \in 1..Len(ws) : \A p \in Needs(ws[k]) : p \in Paths /\ Found(s, p),
         UNCHANGED <<server, applied>>, pend' = [pend EXCEPT ![s] = @ \o ws]
  PROVE  /\ WireInv' /\ \A x \in Shops : Kept(x)
         /\ \A k \in 1..Len(ws) : Found(s, ws[k].path)'
<1> DEFINE q == pend[s]
<1>1. /\ q \in Seq(WritesOf(s)) /\ InOrder(server, q, applied[s]) /\ server \in Database
      /\ applied[s] \in Nat /\ q \in Seq(Write)
  BY DEF WireInv
<1>2. \A k \in 1..Len(ws) : \A p \in Needs(ws[k]) : In(server, q, p)
  BY <1>1, FoundIsIn
<1>3. /\ InOrder(server, q \o ws, applied[s])
      /\ \A p : In(server, q, p) => In(server, q \o ws, p)
      /\ \A k \in 1..Len(ws) : In(server, q \o ws, ws[k].path)
  BY <1>1, <1>2, OrderAppend
<1>4. q \o ws \in Seq(WritesOf(s))
  BY <1>1, ConcatProperties
<1>5. pend' = [pend EXCEPT ![s] = q \o ws] /\ pend'[s] = q \o ws
  BY DEF WireInv
<1>6. applied' = [applied EXCEPT ![s] = applied[s]] /\ Grown(server, server)
  BY DEF WireInv, Grown
<1> HIDE DEF q
<1>7. WireInv'
  BY <1>1, <1>3, <1>4, <1>5, <1>6, WireStep
<1>8. ASSUME NEW x \in Shops PROVE Kept(x)
  <2>1. x # s => pend'[x] = pend[x]
    BY <1>5 DEF WireInv
  <2> QED BY <1>3, <1>5, <2>1 DEF Kept, Grown, q
<1>9. ASSUME NEW k \in 1..Len(ws) PROVE Found(s, ws[k].path)'
  <2>1. In(server, pend'[s], ws[k].path)
    BY <1>3, <1>5
  <2>2. DOMAIN pend'[s] = 1..Len(pend'[s])
    BY <1>7, LenProperties DEF WireInv
  <2> QED BY <2>1, <2>2 DEF In, Ahead, There, Found, Pending
<1> QED BY <1>7, <1>8, <1>9

(* One write is added.                                                      *)
LEMMA PushesOne ==
  ASSUME WireInv, NEW s \in Shops, NEW w \in WritesOf(s),
         \A p \in Needs(w) : p \in Paths /\ Found(s, p),
         UNCHANGED <<server, applied>>, pend' = [pend EXCEPT ![s] = Append(@, w)]
  PROVE  WireInv' /\ (\A x \in Shops : Kept(x)) /\ Found(s, w.path)'
<1> DEFINE ws == <<w>>
<1>1. ws \in Seq(WritesOf(s)) /\ Len(ws) = 1 /\ ws[1] = w
  OBVIOUS
<1>2. pend[s] \in Seq(WritesOf(s)) /\ DOMAIN pend = Shops
  BY DEF WireInv
<1>3. Append(pend[s], w) = pend[s] \o ws
  BY <1>2, AppendIsConcat
<1>4. pend' = [pend EXCEPT ![s] = @ \o ws]
  BY <1>3
<1> HIDE DEF ws
<1>5. 1..Len(ws) = {1}
  BY <1>1
<1>6. \A k \in 1..Len(ws) : \A p \in Needs(ws[k]) : p \in Paths /\ Found(s, p)
  BY <1>1, <1>5
<1>7. WireInv' /\ (\A x \in Shops : Kept(x)) /\ \A k \in 1..Len(ws) : Found(s, ws[k].path)'
  BY <1>1, <1>4, <1>6, Pushes
<1>8. Found(s, ws[1].path)'
  BY <1>5, <1>7
<1> QED BY <1>1, <1>7, <1>8

(* The steps that end a stage.                                              *)
LEMMA AllRead ==
  ASSUME PostInv, NEW s \in Shops, LastAnswer(s)
  PROVE  alert[s] \notin {"incomplete", "success"}
BY DEF PostInv, Post, LastAnswer

LEMMA OthersStay ==
  ASSUME PostInv, WireInv', \A x \in Shops : Kept(x), StageInv', NEW s \in Shops, Post(s)',
         \A x \in Shops \ {s} : /\ stage'[x] = stage[x] /\ reads'[x] = reads[x]
                                /\ alert'[x] = alert[x] /\ keys'[x] = keys[x]
  PROVE  PostInv'
<1>1. ASSUME NEW x \in Shops PROVE Post(x)'
  <2>1. CASE x = s
    BY <2>1
  <2>2. CASE x # s
    BY <2>2, PostStays
  <2> QED BY <2>1, <2>2
<1> QED BY <1>1 DEF PostInv

LEMMA UploadedStep ==
  ASSUME PostInv, NEW s \in Shops, Uploaded(s) PROVE PostInv'
<1>1. WireInv /\ StageInv /\ Post(s) /\ keys[s].item \in Times
  BY DEF PostInv, StageInv
<1>2. PICK w \in Simple(s) : w = [path |-> Item(keys[s].item), value |-> Written]
  BY <1>1 DEF Simple
<1>3. w \in WritesOf(s) /\ Needs(w) = {} /\ w.path = Item(keys[s].item)
  BY <1>2, SimpleFacts, WritesAreWrites
<1>4. /\ pend' = [pend EXCEPT ![s] = Append(@, w)]
      /\ UNCHANGED <<now, server, applied, keys, alert>>
      /\ stage' = [stage EXCEPT ![s] = "children"]
      /\ reads' = [reads EXCEPT ![s] = Children(s, keys[s].item)]
      /\ stage[s] = "uploading"
  BY <1>2 DEF Uploaded
<1>5. WireInv' /\ (\A x \in Shops : Kept(x)) /\ Found(s, w.path)'
  BY <1>1, <1>3, <1>4, PushesOne
<1>6. \A p \in {Start(s), Finish(s), Recipient(s)} : Found(s, p)'
  BY <1>1, <1>4, <1>5, PathFacts, FoundStays DEF Post
<1>7. StageInv'
  BY <1>1, <1>4, PathFacts DEF StageInv
<1>8. stage'[s] = "children" /\ reads'[s] = Children(s, keys[s].item)
  BY <1>1, <1>4 DEF StageInv
<1>9. Post(s)'
  BY <1>1, <1>3, <1>4, <1>5, <1>6, <1>8 DEF Post, Found, Pending
<1> QED BY <1>4, <1>5, <1>7, <1>9, OthersStay DEF StageInv, PostInv

LEMMA PushDetailStep ==
  ASSUME PostInv, NEW s \in Shops, PushDetail(s) PROVE PostInv'
<1>1. WireInv /\ StageInv /\ Post(s) /\ keys[s].item \in Times /\ keys[s].detail \in Times
  BY DEF PostInv, StageInv
<1>0. PICK w \in WritesOf(s) : w = DetailWrite(s, keys[s].detail, keys[s].item)
  BY <1>1 DEF WritesOf
<1>2. Needs(w) = Children(s, keys[s].item) /\ w.path = Detail(keys[s].detail)
  BY <1>1, <1>0, DetailFacts DEF DetailWrite
<1>3. /\ pend' = [pend EXCEPT ![s] = Append(@, w)]
      /\ UNCHANGED <<now, server, applied, keys, alert>>
      /\ stage' = [stage EXCEPT ![s] = "detail"]
      /\ reads' = [reads EXCEPT ![s] = {Detail(keys[s].detail)}]
      /\ stage[s] = "children" /\ LastAnswer(s)
  BY <1>0 DEF PushDetail, DetailWrite
<1>4. \A p \in Needs(w) : p \in Paths /\ Found(s, p)
  BY <1>1, <1>2, <1>3, PathFacts DEF Post, Children
<1>5. WireInv' /\ (\A x \in Shops : Kept(x)) /\ Found(s, w.path)'
  BY <1>1, <1>2, <1>3, <1>4, PushesOne
<1>6. StageInv'
  BY <1>1, <1>3, PathFacts DEF StageInv
<1>7. stage'[s] = "detail" /\ reads'[s] = {Detail(keys[s].detail)}
  BY <1>1, <1>3 DEF StageInv
<1>8. Post(s)'
  BY <1>2, <1>3, <1>5, <1>7, AllRead DEF Post, Found, Pending
<1> QED BY <1>3, <1>5, <1>6, <1>8, OthersStay DEF StageInv, PostInv

LEMMA PushProductStep ==
  ASSUME PostInv, NEW s \in Shops, PushProduct(s) PROVE PostInv'
<1>1. WireInv /\ StageInv /\ Post(s) /\ now \in Times /\ keys[s].detail \in Times
  BY DEF PostInv, StageInv
<1>0. PICK w \in WritesOf(s) : w = ProductWrite(s, now, keys[s].detail)
  BY <1>1 DEF WritesOf
<1>2. Needs(w) = {Detail(keys[s].detail)} /\ w.path = Product(s, now)
  BY <1>1, <1>0, ProductFacts DEF ProductWrite
<1>3. /\ pend' = [pend EXCEPT ![s] = Append(@, w)]
      /\ UNCHANGED <<now, server, applied, alert>>
      /\ keys' = [keys EXCEPT ![s].product = now]
      /\ stage' = [stage EXCEPT ![s] = "product"]
      /\ reads' = [reads EXCEPT ![s] = {Product(s, now)}]
      /\ stage[s] = "detail" /\ LastAnswer(s)
  BY <1>0 DEF PushProduct, ProductWrite
<1>4. \A p \in Needs(w) : p \in Paths /\ Found(s, p)
  BY <1>1, <1>2, <1>3, PathFacts DEF Post
<1>5. WireInv' /\ (\A x \in Shops : Kept(x)) /\ Found(s, w.path)'
  BY <1>1, <1>2, <1>3, <1>4, PushesOne
<1>6. StageInv'
  BY <1>1, <1>3, PathFacts DEF StageInv
<1>7. stage'[s] = "product" /\ reads'[s] = {Product(s, now)} /\ keys'[s].product = now
  BY <1>1, <1>3 DEF StageInv
<1>8. Post(s)'
  BY <1>2, <1>3, <1>5, <1>7, AllRead DEF Post, Found, Pending
<1>9. \A x \in Shops \ {s} : keys'[x] = keys[x]
  BY <1>1, <1>3 DEF StageInv
<1> QED BY <1>3, <1>5, <1>6, <1>8, <1>9, OthersStay DEF StageInv, PostInv

LEMMA ClickStep ==
  ASSUME PostInv, NEW s \in Shops, Click(s) PROVE PostInv'
<1> DEFINE At(p) == [path |-> p, value |-> Written]
           ws == <<At(Start(s)), At(Finish(s)), At(Recipient(s))>>
<1>1. WireInv /\ StageInv /\ Post(s) /\ now \in Times
  BY DEF PostInv, StageInv
<1>2. \A p \in {Start(s), Finish(s), Recipient(s)} : At(p) \in Simple(s) /\ At(p).path = p
  BY DEF Simple
<1>3. pend' = [pend EXCEPT ![s] = @ \o ws] /\ UNCHANGED <<server, applied, reads>>
  BY DEF Click
<1> HIDE DEF At
<1>4. /\ ws \in Seq(Simple(s)) /\ Len(ws) = 3
      /\ ws[1] = At(Start(s)) /\ ws[2] = At(Finish(s)) /\ ws[3] = At(Recipient(s))
  BY <1>2
<1>5. 1..Len(ws) = {1, 2, 3}
  BY <1>4
<1> HIDE DEF ws
<1>6. \A k \in 1..Len(ws) : Needs(ws[k]) = {}
  BY <1>2, <1>4, <1>5, SimpleFacts
<1>7. ws \in Seq(WritesOf(s))
  BY <1>4, WritesAreWrites
<1>8. /\ WireInv' /\ \A x \in Shops : Kept(x)
      /\ \A k \in 1..Len(ws) : Found(s, ws[k].path)'
  BY <1>1, <1>3, <1>6, <1>7, Pushes
<1>9. Found(s, ws[1].path)' /\ Found(s, ws[2].path)' /\ Found(s, ws[3].path)'
  BY <1>5, <1>8
<1>10. ws[1].path = Start(s) /\ ws[2].path = Finish(s) /\ ws[3].path = Recipient(s)
  BY <1>2, <1>4
<1>11. Found(s, Start(s))' /\ Found(s, Finish(s))' /\ Found(s, Recipient(s))'
  BY <1>9, <1>10
<1>12. PICK photo \in BOOLEAN, later \in Times :
         /\ keys' = [keys EXCEPT ![s] = [item |-> now, detail |-> later, product |-> 0]]
         /\ now' = later
         /\ stage' = [stage EXCEPT ![s] = IF photo THEN "uploading" ELSE "stuck"]
  BY DEF Click
<1>13. alert' = [alert EXCEPT ![s] = "waiting"] /\ stage[s] = "form"
  BY DEF Click
<1>14. 0 \in Times
  BY PostItemAssumption DEF Times
<1>15. StageInv'
  BY <1>1, <1>3, <1>12, <1>13, <1>14 DEF StageInv
<1>16. /\ stage'[s] \in {"uploading", "stuck"} /\ reads'[s] = {} /\ alert'[s] = "waiting"
  BY <1>1, <1>3, <1>12, <1>13 DEF StageInv, Post
<1>17. Post(s)'
  BY <1>11, <1>16 DEF Post
<1>18. \A x \in Shops \ {s} : /\ stage'[x] = stage[x] /\ reads'[x] = reads[x]
                              /\ alert'[x] = alert[x] /\ keys'[x] = keys[x]
  BY <1>1, <1>3, <1>12, <1>13 DEF StageInv
<1> QED BY <1>8, <1>15, <1>17, <1>18, OthersStay

(* The steps of the database's side: no post moves.                         *)
LEMMA PostsStay ==
  ASSUME PostInv, WireInv', now' \in Times, UNCHANGED <<stage, keys, reads, alert>>,
         \A x \in Shops : Kept(x)
  PROVE  PostInv'
<1>1. \A x \in Shops : Post(x)'
  BY PostStays
<1>2. StageInv'
  BY DEF PostInv, StageInv
<1> QED BY <1>1, <1>2 DEF PostInv

LEMMA ServerApplyStep ==
  ASSUME PostInv, NEW s \in Shops, ServerApply(s) PROVE PostInv'
<1>1. /\ WireInv /\ pend[s] \in Seq(WritesOf(s)) /\ InOrder(server, pend[s], applied[s])
      /\ server \in Database /\ applied[s] \in Nat /\ applied[s] < Len(pend[s])
  BY DEF PostInv, WireInv, ServerApply
<1>2. /\ server' = [server EXCEPT ![pend[s][applied[s] + 1].path] = pend[s][applied[s] + 1].value]
      /\ applied' = [applied EXCEPT ![s] = applied[s] + 1]
      /\ UNCHANGED <<now, pend, stage, keys, reads, alert>>
  BY <1>1 DEF ServerApply, WireInv
<1>3. /\ server' \in Database /\ Grown(server, server')
      /\ InOrder(server', pend[s], applied[s] + 1)
  BY <1>1, <1>2, OrderApply
<1>4. pend' = [pend EXCEPT ![s] = pend[s]]
  BY <1>1, <1>2 DEF WireInv
<1>5. WireInv'
  <2>1. applied[s] + 1 \in Nat
    BY <1>1
  <2> QED BY <1>1, <1>2, <1>3, <1>4, <2>1, WireStep
<1>6. \A x \in Shops : Kept(x)
  BY <1>2, <1>3 DEF Kept
<1> QED BY <1>2, <1>5, <1>6, PostsStay DEF PostInv, StageInv

LEMMA AckStep ==
  ASSUME PostInv, NEW s \in Shops, Ack(s) PROVE PostInv'
<1>1. /\ WireInv /\ pend[s] \in Seq(WritesOf(s)) /\ InOrder(server, pend[s], applied[s])
      /\ server \in Database /\ applied[s] \in Nat /\ applied[s] > 0
  BY DEF PostInv, WireInv, Ack
<1>2. /\ pend' = [pend EXCEPT ![s] = Tail(pend[s])]
      /\ applied' = [applied EXCEPT ![s] = applied[s] - 1]
      /\ UNCHANGED <<now, server, stage, keys, reads, alert>>
  BY <1>1 DEF Ack, WireInv
<1>3. /\ InOrder(server, Tail(pend[s]), applied[s] - 1)
      /\ \A p : In(server, pend[s], p) => In(server, Tail(pend[s]), p)
  BY <1>1, OrderTail
<1>4. pend[s] # <<>>
  BY <1>1 DEF InOrder
<1>5. Tail(pend[s]) \in Seq(WritesOf(s)) /\ applied[s] - 1 \in Nat /\ Grown(server, server)
  BY <1>1, <1>4, HeadTailProperties DEF Grown
<1>6. WireInv'
  BY <1>1, <1>2, <1>3, <1>5, WireStep
<1>7. ASSUME NEW x \in Shops PROVE Kept(x)
  BY <1>1, <1>2, <1>3 DEF Kept, Grown, WireInv
<1> QED BY <1>2, <1>6, <1>7, PostsStay DEF PostInv, StageInv

LEMMA ConnectionSteps ==
  ASSUME PostInv, NEW s \in Shops, Disconnect(s) \/ Reconnect(s) PROVE PostInv'
<1>1. /\ WireInv /\ pend[s] \in Seq(WritesOf(s)) /\ InOrder(server, pend[s], applied[s])
      /\ server \in Database /\ DOMAIN applied = Shops /\ DOMAIN pend = Shops
  BY DEF PostInv, WireInv
<1>2. UNCHANGED <<now, server, pend, stage, keys, reads, alert>>
  BY DEF Disconnect, Reconnect
<1>3. \A x \in Shops : Kept(x)
  BY <1>2 DEF Kept, Grown
<1>4. InOrder(server, pend[s], 0)
  BY <1>1, LenProperties DEF InOrder
<1>5. CASE Disconnect(s)
  <2>1. applied' = [applied EXCEPT ![s] = 0] /\ pend' = [pend EXCEPT ![s] = pend[s]]
    BY <1>1, <1>2, <1>5 DEF Disconnect, WireInv
  <2>2. WireInv'
    BY <1>1, <1>2, <1>4, <2>1, WireStep DEF Grown
  <2> QED BY <1>2, <1>3, <2>2, PostsStay DEF PostInv, StageInv
<1>6. CASE Reconnect(s)
  <2>1. WireInv'
    BY <1>1, <1>2, <1>6, WireSame DEF Reconnect
  <2> QED BY <1>2, <1>3, <2>1, PostsStay DEF PostInv, StageInv
<1> QED BY <1>5, <1>6

LEMMA TakeStep ==
  ASSUME PostInv, NEW t \in Times, NEW u \in Shippers, ShipperTakes(t, u) PROVE PostInv'
<1>1. WireInv /\ server \in Database /\ There(server, Detail(t))
  BY DEF PostInv, WireInv, ShipperTakes, There
<1>2. /\ server' = [server EXCEPT ![Detail(t)].uid = u]
      /\ UNCHANGED <<now, pend, applied, stage, keys, reads, alert>>
  BY DEF ShipperTakes
<1>3. server' \in Database /\ Grown(server, server')
  BY <1>1, <1>2, TakeKeepsWhole
<1>4. \A x \in Shops : InOrder(server', pend[x], applied[x])
  BY <1>1, <1>3, OrderGrows DEF WireInv
<1>5. WireInv'
  BY <1>1, <1>2, <1>3, <1>4 DEF WireInv
<1>6. \A x \in Shops : Kept(x)
  BY <1>2, <1>3 DEF Kept
<1> QED BY <1>2, <1>5, <1>6, PostsStay DEF PostInv, StageInv

(* A killed app forgets its writes, and waits for none of them.             *)
LEMMA KillStep ==
  ASSUME PostInv, NEW s \in Shops, Kill(s) PROVE PostInv'
<1>1. WireInv /\ StageInv /\ server \in Database
  BY DEF PostInv, WireInv
<1>2. /\ pend' = [pend EXCEPT ![s] = <<>>] /\ applied' = [applied EXCEPT ![s] = 0]
      /\ stage' = [stage EXCEPT ![s] = "form"] /\ reads' = [reads EXCEPT ![s] = {}]
      /\ alert' = [alert EXCEPT ![s] = "none"] /\ UNCHANGED <<now, server, keys>>
  BY DEF Kill
<1>3. Len(<<>>) = 0 /\ 0 \in 0..0 /\ 1..0 = {} /\ <<>> \in Seq(WritesOf(s))
  OBVIOUS
<1>4. InOrder(server, <<>>, 0)
  BY <1>3 DEF InOrder
<1>5. WireInv'
  BY <1>1, <1>2, <1>3, <1>4, WireStep DEF Grown
<1>6. StageInv'
  BY <1>1, <1>2 DEF StageInv
<1>7. Post(s)'
  BY <1>1, <1>2 DEF StageInv, Post
<1>8. ASSUME NEW x \in Shops, x # s PROVE Post(x)'
  <2>1. Kept(x)
    BY <1>1, <1>2, <1>8 DEF Kept, Grown, WireInv
  <2> QED BY <1>1, <1>2, <1>5, <1>8, <2>1, PostStays DEF StageInv
<1> QED BY <1>5, <1>6, <1>7, <1>8 DEF PostInv

LEMMA PostStep == PostInv /\ [Next]_vars => PostInv'
<1> SUFFICES ASSUME PostInv, [Next]_vars PROVE PostInv'
  OBVIOUS
<1>1. ASSUME UNCHANGED <<server, pend, applied, stage, keys, reads, alert>>, now' \in Times
      PROVE  PostInv'
  BY <1>1, WireSame, PostsStay DEF PostInv
<1>2. CASE Tick
  <2>1. now' \in Times
    BY <1>2, PostItemAssumption DEF Tick, PostInv, StageInv, Times
  <2> QED BY <1>1, <1>2, <2>1 DEF Tick
<1>3. ASSUME NEW s \in Shops,
             \/ ClickIncomplete(s) \/ UploadFailed(s) \/ AnswerOne(s) \/ Success(s) \/ TapAlert(s)
             \/ Click(s) \/ Uploaded(s) \/ PushDetail(s) \/ PushProduct(s)
      PROVE  PostInv'
  BY <1>3, FormSteps, ClickStep, UploadedStep, PushDetailStep, PushProductStep
<1>4. ASSUME NEW s \in Shops,
             ServerApply(s) \/ Ack(s) \/ Disconnect(s) \/ Reconnect(s) \/ Kill(s)
      PROVE  PostInv'
  BY <1>4, ServerApplyStep, AckStep, ConnectionSteps, KillStep
<1>5. ASSUME NEW t \in Times, NEW u \in Shippers, ShipperTakes(t, u) PROVE PostInv'
  BY <1>5, TakeStep
<1>6. CASE UNCHANGED vars
  BY <1>1, <1>6 DEF vars, PostInv, StageInv
<1> QED BY <1>2, <1>3, <1>4, <1>5, <1>6 DEF Next, Running

LEMMA PostAlways == Spec => []PostInv
BY PostInit, PostStep, PTL DEF Spec
--------------------------------------------------------------------------------
(* PostedWhole: an order on the News tab has its detail, its places, its    *)
(* receiver and its item, for any number of shops posting at once, over     *)
(* connections that drop and with apps killed between any two of the        *)
(* writes (DetailCreateNewsPresenter.swift:67-87).                          *)
THEOREM PostedWhole == Spec => []ListedIsWhole
<1>1. PostInv => ListedIsWhole
  <2> SUFFICES ASSUME PostInv, NEW t \in Times, Listed(t)
               PROVE  /\ server[Detail(t)] # Absent
                      /\ \A p \in server[Detail(t)].children : server[p] # Absent
    BY DEF ListedIsWhole
  <2>1. PICK s \in Shops, k \in Times : server[Product(s, k)] = ProductOf(t)
    BY DEF Listed
  <2>2. ProductOf(t) # Absent /\ ProductOf(t).detail = t
    BY ProductFacts
  <2>3. DetailsWhole(server) /\ ProductsWhole(server)
    BY DEF PostInv, WireInv, Database
  <2>4. There(server, Detail(t))
    BY <2>1, <2>2, <2>3 DEF ProductsWhole, There
  <2> QED BY <2>3, <2>4 DEF DetailsWhole, There
<1> QED BY <1>1, PostAlways, PTL

(* KeptForReads: whatever the pipeline waits to read, and the Product       *)
(* behind every "Thanh cong", is in the database or among the writes its    *)
(* client still holds, over any number of disconnections, repeated writes   *)
(* and acknowledgements (isSetSucessRootProduct, 177-198).                  *)
THEOREM KeptForReads == Spec => []NothingTakenBack
<1>1. PostInv => NothingTakenBack
  <2> SUFFICES ASSUME PostInv, NEW s \in Shops
               PROVE  /\ \A p \in reads[s] : Found(s, p)
                      /\ alert[s] = "success" => Found(s, Product(s, keys[s].product))
    BY DEF NothingTakenBack
  <2>1. Post(s)
    BY DEF PostInv
  <2>2. alert[s] = "success" => Found(s, Product(s, keys[s].product))
    BY <2>1 DEF Post
  <2>3. ASSUME NEW p \in reads[s] PROVE Found(s, p)
    <3>1. stage[s] \in {"children", "detail", "product"}
      BY <2>1, <2>3 DEF PostInv, StageInv, Post
    <3> QED BY <2>1, <2>3, <3>1 DEF Post, Children
  <2> QED BY <2>2, <2>3
<1> QED BY <1>1, PostAlways, PTL

--------------------------------------------------------------------------------
(* What has been applied on this connection has been applied on some.       *)
RestInv ==
  /\ conn \in [Shops -> BOOLEAN]
  /\ posts \in [Shops -> 0..MaxPosts]
  /\ reached \in [Shops -> Nat]
  /\ \A s \in Shops : applied[s] <= reached[s]

LEMMA RestStep == PostInv /\ RestInv /\ [Next]_vars => RestInv'
<1> SUFFICES ASSUME PostInv, RestInv, [Next]_vars PROVE RestInv'
  OBVIOUS
<1>1. applied \in [Shops -> Nat] /\ MaxPosts \in Nat
  BY PostItemAssumption DEF PostInv, WireInv
<1>2. CASE UNCHANGED <<conn, posts, reached, applied>>
  BY <1>2 DEF RestInv
<1>3. ASSUME NEW s \in Shops, Click(s) PROVE RestInv'
  BY <1>1, <1>3 DEF RestInv, Click
<1>4. ASSUME NEW s \in Shops, ServerApply(s) PROVE RestInv'
  BY <1>1, <1>4 DEF RestInv, ServerApply
<1>5. ASSUME NEW s \in Shops, Ack(s) PROVE RestInv'
  BY <1>1, <1>5 DEF RestInv, Ack
<1>6. ASSUME NEW s \in Shops, Disconnect(s) \/ Reconnect(s) \/ Kill(s) PROVE RestInv'
  <2>1. CASE Disconnect(s)
    BY <1>1, <2>1 DEF RestInv, Disconnect
  <2>2. CASE Reconnect(s)
    BY <1>1, <2>2 DEF RestInv, Reconnect
  <2>3. CASE Kill(s)
    BY <1>1, <2>3 DEF RestInv, Kill
  <2> QED BY <1>6, <2>1, <2>2, <2>3
<1>7. ASSUME NEW s \in Shops,
             \/ ClickIncomplete(s) \/ UploadFailed(s) \/ AnswerOne(s) \/ Success(s) \/ TapAlert(s)
             \/ Uploaded(s) \/ PushDetail(s) \/ PushProduct(s)
      PROVE  UNCHANGED <<conn, posts, reached, applied>>
  BY <1>7 DEF ClickIncomplete, UploadFailed, AnswerOne, Success, TapAlert,
              Uploaded, PushDetail, PushProduct
<1>8. Tick \/ (\E t \in Times, u \in Shippers : ShipperTakes(t, u)) \/ UNCHANGED vars
        => UNCHANGED <<conn, posts, reached, applied>>
  BY DEF Tick, ShipperTakes, vars
<1> QED BY <1>2, <1>3, <1>4, <1>5, <1>6, <1>7, <1>8 DEF Next, Running

(* PostTypes: every variable keeps its type; the count of applied writes    *)
(* never falls below zero, because what has been applied on a connection    *)
(* is applied, and acknowledged, only once on it.                           *)
THEOREM PostTypes == Spec => []TypeOK
<1>1. Init => RestInv
  BY PostItemAssumption DEF Init, RestInv
<1>2. PostInv /\ RestInv => TypeOK
  BY DEF PostInv, WireInv, StageInv, RestInv, Database, TypeOK
<1> QED BY <1>1, <1>2, RestStep, PostAlways, PTL DEF Spec
--------------------------------------------------------------------------------
(* The order a shop has in the database under t, and where among its writes *)
(* the one that put it there is.                                            *)
By(s, t)    == server[Detail(t)] # Absent /\ server[Detail(t)].by = s
Holds(s, k) == pend[s][k].path.root = "detail"

Unpushed(s) == posts[s] = 0 \/ stage[s] \in {"uploading", "children"}

(* One post writes its detail once, and an order in the database comes from *)
(* a write that has been applied, if it is still held at all.               *)
OneDetail(s) ==
  /\ posts[s] = 0 => stage[s] = "form"
  /\ Unpushed(s) => /\ \A k \in 1..Len(pend[s]) : ~Holds(s, k)
                    /\ \A t \in Times : ~By(s, t)
  /\ \A j, k \in 1..Len(pend[s]) : Holds(s, j) /\ Holds(s, k) => j = k
  /\ \A t \in Times : By(s, t) =>
       \A k \in 1..Len(pend[s]) : Holds(s, k) => k <= reached[s]

Settled(s) == reached[s] <= Len(pend[s]) /\ (posts[s] <= 1 => OneDetail(s))

RepeatInv == \A s \in Shops : Settled(s)

(* What is known of a shop whose own state a step leaves alone stays.       *)
LEMMA SettledStays ==
  ASSUME NEW s \in Shops, Settled(s),
         pend'[s] = pend[s], reached'[s] = reached[s], posts'[s] = posts[s],
         stage'[s] = stage[s], \A t \in Times : By(s, t)' => By(s, t)
  PROVE  Settled(s)'
BY DEF Settled, OneDetail, Unpushed, Holds

(* A step of the screen: the writes stay.                                   *)
LEMMA SettledScreen ==
  ASSUME NEW s \in Shops, Settled(s),
         pend'[s] = pend[s], reached'[s] = reached[s], posts'[s] = posts[s],
         \A t \in Times : By(s, t)' => By(s, t),
         posts[s] = 0 => stage'[s] = "form",
         stage'[s] \notin {"uploading", "children"}
           \/ stage[s] \in {"uploading", "children"}
  PROVE  Settled(s)'
BY DEF Settled, OneDetail, Unpushed, Holds

(* A step that adds writes, none of them a detail.                          *)
LEMMA SettledAdds ==
  ASSUME NEW s \in Shops, Settled(s), NEW W, pend[s] \in Seq(W), NEW ws \in Seq(W),
         pend'[s] = pend[s] \o ws, \A k \in 1..Len(ws) : ws[k].path.root # "detail",
         reached[s] \in Nat, reached'[s] = reached[s],
         posts[s] \in Nat, posts'[s] \in Nat, posts[s] <= posts'[s],
         UNCHANGED server,
         posts'[s] = 0 => stage'[s] = "form",
         stage'[s] \notin {"uploading", "children"} \/ Unpushed(s)
  PROVE  Settled(s)'
<1> DEFINE q == pend[s]
           r == q \o ws
<1>1. Len(q) \in Nat /\ Len(ws) \in Nat
  BY LenProperties
<1>2. /\ Len(r) = Len(q) + Len(ws)
      /\ \A k \in 1..Len(q) + Len(ws) : r[k] = IF k <= Len(q) THEN q[k] ELSE ws[k - Len(q)]
  BY ConcatProperties
<1>3. pend'[s] = r
  OBVIOUS
<1> HIDE DEF r
<1>4. ASSUME NEW k \in 1..Len(r), Holds(s, k)'
      PROVE  k \in 1..Len(q) /\ Holds(s, k)
  <2>1. r[k].path.root = "detail" /\ k \in Nat
    BY <1>3, <1>4 DEF Holds
  <2>2. CASE k <= Len(q)
    BY <1>1, <1>2, <1>4, <2>1, <2>2 DEF Holds
  <2>3. CASE ~(k <= Len(q))
    <3>1. k - Len(q) \in 1..Len(ws) /\ r[k] = ws[k - Len(q)]
      BY <1>1, <1>2, <2>3
    <3> QED BY <2>1, <3>1
  <2> QED BY <2>2, <2>3
<1>5. \A t \in Times : By(s, t)' <=> By(s, t)
  BY DEF By
<1>6. reached'[s] <= Len(pend'[s])
  BY <1>1, <1>2, <1>3 DEF Settled
<1>7. ASSUME posts'[s] <= 1 PROVE OneDetail(s)'
  <2>1. posts[s] <= 1
    BY <1>7
  <2>2. OneDetail(s)
    BY <2>1 DEF Settled
  <2>3. Unpushed(s)' => Unpushed(s)
    BY DEF Unpushed
  <2> QED BY <1>3, <1>4, <1>5, <2>2, <2>3 DEF OneDetail
<1> QED BY <1>6, <1>7 DEF Settled

(* One write more, which is no detail.                                      *)
LEMMA SettledAddsOne ==
  ASSUME NEW s \in Shops, Settled(s), NEW W, pend[s] \in Seq(W), NEW w \in W,
         pend'[s] = Append(pend[s], w), w.path.root # "detail",
         reached[s] \in Nat, reached'[s] = reached[s],
         posts[s] \in Nat, posts'[s] = posts[s],
         UNCHANGED server,
         posts'[s] = 0 => stage'[s] = "form",
         stage'[s] \notin {"uploading", "children"} \/ Unpushed(s)
  PROVE  Settled(s)'
<1> DEFINE ws == <<w>>
<1>1. ws \in Seq(W) /\ Len(ws) = 1 /\ ws[1] = w
  OBVIOUS
<1>2. pend'[s] = pend[s] \o ws
  BY AppendIsConcat
<1> HIDE DEF ws
<1>3. \A k \in 1..Len(ws) : ws[k].path.root # "detail"
  BY <1>1
<1>4. posts[s] <= posts'[s]
  OBVIOUS
<1> QED BY <1>1, <1>2, <1>3, <1>4, SettledAdds

(* The first detail of a shop.                                              *)
LEMMA SettledPushes ==
  ASSUME NEW s \in Shops, Settled(s), NEW W, pend[s] \in Seq(W), NEW w \in W,
         pend'[s] = Append(pend[s], w),
         reached[s] \in Nat, reached'[s] = reached[s],
         posts[s] \in Nat, posts'[s] = posts[s], UNCHANGED server,
         stage[s] = "children", stage'[s] = "detail"
  PROVE  Settled(s)'
<1> DEFINE q == pend[s]
<1>1. Len(q) \in Nat
  BY LenProperties
<1>2. /\ Len(pend'[s]) = Len(q) + 1
      /\ \A k \in 1..Len(q) : pend'[s][k] = q[k]
  BY AppendProperties
<1>3. reached'[s] <= Len(pend'[s])
  BY <1>1, <1>2 DEF Settled
<1>4. ASSUME posts'[s] <= 1 PROVE OneDetail(s)'
  <2>1. OneDetail(s)
    BY <1>4 DEF Settled
  <2>2. posts[s] # 0 /\ Unpushed(s)
    BY <2>1 DEF OneDetail, Unpushed
  <2>3. /\ \A k \in 1..Len(q) : ~Holds(s, k)
        /\ \A t \in Times : ~By(s, t)
    BY <2>1, <2>2 DEF OneDetail
  <2>4. \A k \in 1..Len(pend'[s]) : Holds(s, k)' => k = Len(q) + 1
    BY <1>1, <1>2, <2>3 DEF Holds
  <2>5. \A t \in Times : ~By(s, t)'
    BY <2>3 DEF By
  <2>6. ~Unpushed(s)' /\ posts'[s] # 0
    BY <2>2 DEF Unpushed
  <2>7. \A j, k \in 1..Len(pend'[s]) : Holds(s, j)' /\ Holds(s, k)' => j = k
    BY <2>4
  <2> QED BY <2>5, <2>6, <2>7 DEF OneDetail
<1> QED BY <1>3, <1>4 DEF Settled

(* Whose order is under t, when a write of s is applied.                    *)
LEMMA ByApply ==
  ASSUME PostInv, NEW s \in Shops, ServerApply(s), NEW x \in Shops, NEW t \in Times, By(x, t)'
  PROVE  \/ By(x, t) /\ server'[Detail(t)] = server[Detail(t)]
         \/ x = s /\ pend[s][applied[s] + 1].path = Detail(t)
<1>1. /\ pend[s] \in Seq(WritesOf(s)) /\ server \in [Paths -> Values]
      /\ applied[s] \in Nat /\ applied[s] < Len(pend[s])
  BY DEF PostInv, WireInv, Database, ServerApply
<1>2. applied[s] + 1 \in 1..Len(pend[s])
  BY <1>1, LenProperties
<1>3. PICK w \in WritesOf(s) : w = pend[s][applied[s] + 1]
  BY <1>1, <1>2, ElementOfSeq
<1>4. server' = [server EXCEPT ![w.path] = w.value]
  BY <1>3 DEF ServerApply
<1>5. CASE w.path = Detail(t)
  <2>1. PICK i \in Times : w.value = DetailBy(s, i)
    BY <1>5, NamesPaths
  <2>2. server'[Detail(t)] = DetailBy(s, i)
    BY <1>1, <1>4, <1>5, <2>1, PathFacts
  <2>3. DetailBy(s, i).by = s
    BY DEF DetailBy
  <2> QED BY <1>3, <1>5, <2>2, <2>3 DEF By
<1>6. CASE w.path # Detail(t)
  <2>1. server'[Detail(t)] = server[Detail(t)]
    BY <1>1, <1>4, <1>6, PathFacts
  <2> QED BY <2>1 DEF By
<1> QED BY <1>5, <1>6

LEMMA SettledApply ==
  ASSUME PostInv, RestInv, RepeatInv, NEW s \in Shops, ServerApply(s) PROVE RepeatInv'
<1>1. /\ pend[s] \in Seq(WritesOf(s)) /\ reached \in [Shops -> Nat] /\ applied[s] \in Nat
      /\ applied[s] < Len(pend[s]) /\ applied[s] <= reached[s] /\ Len(pend[s]) \in Nat
  BY LenProperties DEF PostInv, WireInv, RestInv, ServerApply
<1>2. /\ reached' = [reached EXCEPT ![s] = IF applied[s] = @ THEN @ + 1 ELSE @]
      /\ UNCHANGED <<pend, posts, stage>>
  BY DEF ServerApply
<1>3. ASSUME NEW x \in Shops, x # s PROVE Settled(x)'
  <2>1. \A t \in Times : By(x, t)' => By(x, t)
    BY <1>3, ByApply
  <2> QED BY <1>1, <1>2, <1>3, <2>1, SettledStays DEF RepeatInv
<1>4. Settled(s)'
  <2>1. Settled(s)
    BY DEF RepeatInv
  <2>2. /\ reached'[s] = IF applied[s] = reached[s] THEN reached[s] + 1 ELSE reached[s]
        /\ reached[s] \in Nat
    BY <1>1, <1>2
  <2>3. /\ reached'[s] <= Len(pend[s]) /\ reached[s] <= reached'[s]
        /\ applied[s] + 1 <= reached'[s]
    BY <1>1, <2>1, <2>2 DEF Settled
  <2>4. ASSUME posts[s] <= 1 PROVE OneDetail(s)'
    <3>1. OneDetail(s) /\ applied[s] + 1 \in 1..Len(pend[s])
      BY <1>1, <2>1, <2>4 DEF Settled
    <3>2. \A k \in 1..Len(pend[s]) : Holds(s, k)' <=> Holds(s, k)
      BY <1>2 DEF Holds
    <3>3. \A t \in Times : By(s, t)' => By(s, t) \/ Holds(s, applied[s] + 1)
      <4> SUFFICES ASSUME NEW t \in Times, By(s, t)', ~By(s, t)
                   PROVE  Holds(s, applied[s] + 1)
        OBVIOUS
      <4>1. pend[s][applied[s] + 1].path = Detail(t)
        BY ByApply
      <4> QED BY <4>1 DEF Holds, Detail
    <3>4. Unpushed(s)' <=> Unpushed(s)
      BY <1>2 DEF Unpushed
    <3>5. ASSUME NEW t \in Times, By(s, t)', NEW k \in 1..Len(pend[s]), Holds(s, k)
          PROVE  k <= reached'[s]
      <4>1. CASE By(s, t)
        <5>1. k <= reached[s]
          BY <3>1, <3>5, <4>1 DEF OneDetail
        <5> QED BY <2>2, <2>3, <5>1
      <4>2. CASE Holds(s, applied[s] + 1)
        <5>1. k = applied[s] + 1
          BY <3>1, <3>5, <4>2 DEF OneDetail
        <5> QED BY <2>3, <5>1
      <4> QED BY <3>3, <3>5, <4>1, <4>2
    <3> QED BY <1>2, <3>1, <3>2, <3>3, <3>4, <3>5 DEF OneDetail
  <2> QED BY <1>2, <2>3, <2>4 DEF Settled
<1> QED BY <1>3, <1>4 DEF RepeatInv

LEMMA SettledAck ==
  ASSUME PostInv, RestInv, RepeatInv, NEW s \in Shops, Ack(s) PROVE RepeatInv'
<1>1. /\ pend \in [Shops -> Seq(Write)] /\ applied[s] \in Nat /\ reached \in [Shops -> Nat]
      /\ InOrder(server, pend[s], applied[s])
      /\ applied[s] <= reached[s] /\ applied[s] > 0 /\ Len(pend[s]) \in Nat
  BY LenProperties DEF PostInv, WireInv, RestInv, Ack
<1>2. /\ pend' = [pend EXCEPT ![s] = Tail(@)] /\ reached' = [reached EXCEPT ![s] = @ - 1]
      /\ UNCHANGED <<server, posts, stage>>
  BY DEF Ack
<1>3. \A x \in Shops, t \in Times : By(x, t)' <=> By(x, t)
  BY <1>2 DEF By
<1>4. ASSUME NEW x \in Shops, x # s PROVE Settled(x)'
  <2>1. pend'[x] = pend[x] /\ reached'[x] = reached[x]
    BY <1>1, <1>2, <1>4
  <2> QED BY <1>2, <1>3, <2>1, SettledStays DEF RepeatInv
<1>5. Settled(s)'
  <2>1. Settled(s) /\ pend[s] \in Seq(Write) /\ reached[s] \in Nat /\ pend[s] # <<>>
    BY <1>1 DEF RepeatInv, InOrder
  <2>2. /\ pend'[s] = Tail(pend[s]) /\ reached'[s] = reached[s] - 1
        /\ posts'[s] = posts[s] /\ stage'[s] = stage[s]
    BY <1>1, <1>2
  <2>3. /\ Len(pend'[s]) = Len(pend[s]) - 1
        /\ \A k \in 1..Len(pend'[s]) : pend'[s][k] = pend[s][k + 1]
    BY <2>1, <2>2, HeadTailProperties
  <2>4. \A k \in 1..Len(pend'[s]) :
          /\ k + 1 \in 1..Len(pend[s]) /\ k \in Nat
          /\ Holds(s, k)' <=> Holds(s, k + 1)
    <3> SUFFICES ASSUME NEW k \in 1..Len(pend'[s])
                 PROVE  /\ k + 1 \in 1..Len(pend[s]) /\ k \in Nat
                        /\ Holds(s, k)' <=> Holds(s, k + 1)
      OBVIOUS
    <3>1. k + 1 \in 1..Len(pend[s]) /\ k \in Nat
      BY <1>1, <2>3
    <3>2. pend'[s][k] = pend[s][k + 1]
      BY <2>3
    <3>3. Holds(s, k)' <=> Holds(s, k + 1)
      BY <3>2 DEF Holds
    <3> QED BY <3>1, <3>3
  <2>5. reached'[s] <= Len(pend'[s])
    BY <1>1, <2>1, <2>2, <2>3 DEF Settled
  <2>6. ASSUME posts[s] <= 1 PROVE OneDetail(s)'
    <3>1. OneDetail(s)
      BY <2>1, <2>6 DEF Settled
    <3>2. Unpushed(s)' <=> Unpushed(s)
      BY <2>2 DEF Unpushed
    <3>3. ASSUME NEW j \in 1..Len(pend'[s]), NEW k \in 1..Len(pend'[s]), Holds(s, j)', Holds(s, k)'
          PROVE  j = k
      <4>1. j + 1 = k + 1
        BY <2>4, <3>1, <3>3 DEF OneDetail
      <4> QED BY <2>4, <4>1
    <3>4. ASSUME NEW t \in Times, By(s, t)', NEW k \in 1..Len(pend'[s]), Holds(s, k)'
          PROVE  k <= reached'[s]
      <4>1. k + 1 <= reached[s]
        BY <1>3, <2>4, <3>1, <3>4 DEF OneDetail
      <4> QED BY <2>1, <2>2, <2>4, <4>1
    <3> QED BY <1>3, <2>2, <2>4, <3>1, <3>2, <3>3, <3>4 DEF OneDetail
  <2> QED BY <2>2, <2>5, <2>6 DEF Settled
<1> QED BY <1>4, <1>5 DEF RepeatInv

LEMMA SettledKill ==
  ASSUME PostInv, RestInv, RepeatInv, NEW s \in Shops, Kill(s) PROVE RepeatInv'
<1>1. /\ pend \in [Shops -> Seq(Write)] /\ reached \in [Shops -> Nat]
      /\ stage \in [Shops -> {"form", "uploading", "children", "detail", "product", "stuck"}]
  BY DEF PostInv, WireInv, StageInv, RestInv
<1>2. /\ pend' = [pend EXCEPT ![s] = <<>>] /\ reached' = [reached EXCEPT ![s] = 0]
      /\ stage' = [stage EXCEPT ![s] = "form"] /\ UNCHANGED <<server, posts>>
  BY DEF Kill
<1>3. \A x \in Shops, t \in Times : By(x, t)' <=> By(x, t)
  BY <1>2 DEF By
<1>4. ASSUME NEW x \in Shops, x # s PROVE Settled(x)'
  <2>1. pend'[x] = pend[x] /\ reached'[x] = reached[x] /\ stage'[x] = stage[x]
    BY <1>1, <1>2, <1>4
  <2> QED BY <1>2, <1>3, <2>1, SettledStays DEF RepeatInv
<1>5. Settled(s)'
  <2>1. pend'[s] = <<>> /\ reached'[s] = 0 /\ stage'[s] = "form" /\ posts'[s] = posts[s]
    BY <1>1, <1>2
  <2>2. Len(<<>>) = 0 /\ 1..0 = {}
    OBVIOUS
  <2>3. Unpushed(s)' => Unpushed(s)
    BY <2>1 DEF Unpushed
  <2> QED BY <1>3, <2>1, <2>2, <2>3 DEF RepeatInv, Settled, OneDetail
<1> QED BY <1>4, <1>5 DEF RepeatInv

(* The steps that add writes.                                               *)
LEMMA SettledWrites ==
  ASSUME PostInv, RestInv, RepeatInv, NEW s \in Shops,
         Click(s) \/ Uploaded(s) \/ PushDetail(s) \/ PushProduct(s)
  PROVE  RepeatInv'
<1>1. /\ pend \in [Shops -> Seq(Write)] /\ reached \in [Shops -> Nat]
      /\ pend[s] \in Seq(WritesOf(s))
      /\ posts \in [Shops -> 0..MaxPosts] /\ posts[s] \in Nat /\ reached[s] \in Nat
      /\ keys[s].item \in Times /\ keys[s].detail \in Times /\ now \in Times
      /\ stage \in [Shops -> {"form", "uploading", "children", "detail", "product", "stuck"}]
  BY PostItemAssumption DEF PostInv, WireInv, StageInv, RestInv
<1>2. UNCHANGED <<server, reached>>
  BY DEF Click, Uploaded, PushDetail, PushProduct
<1>3. \A x \in Shops \ {s} : pend'[x] = pend[x] /\ posts'[x] = posts[x] /\ stage'[x] = stage[x]
  BY <1>1 DEF Click, Uploaded, PushDetail, PushProduct
<1>4. \A x \in Shops, t \in Times : By(x, t)' <=> By(x, t)
  BY <1>2 DEF By
<1>5. \A x \in Shops \ {s} : Settled(x)'
  BY <1>2, <1>3, <1>4, SettledStays DEF RepeatInv
<1>6. Settled(s) /\ (posts[s] <= 1 => OneDetail(s))
  BY DEF RepeatInv, Settled
<1>7. CASE Click(s)
  <2> DEFINE At(p) == [path |-> p, value |-> Written]
             ws == <<At(Start(s)), At(Finish(s)), At(Recipient(s))>>
  <2>1. \A p \in {Start(s), Finish(s), Recipient(s)} :
          At(p) \in WritesOf(s) /\ At(p).path.root # "detail"
    BY DEF Simple, WritesOf, Start, Finish, Recipient
  <2>2. pend'[s] = pend[s] \o ws
    BY <1>1, <1>7 DEF Click
  <2> HIDE DEF At
  <2>3. ws \in Seq(WritesOf(s)) /\ \A k \in 1..Len(ws) : ws[k].path.root # "detail"
    BY <2>1
  <2>4. stage[s] = "form" /\ posts'[s] = posts[s] + 1
    BY <1>1, <1>7 DEF Click
  <2>5. ASSUME posts[s] # 0 PROVE ~(posts'[s] <= 1)
    BY <1>1, <2>4, <2>5
  <2> HIDE DEF ws
  <2>6. CASE posts[s] = 0
    <3>1. Unpushed(s)
      BY <2>6 DEF Unpushed
    <3>2. posts'[s] \in Nat /\ posts[s] <= posts'[s] /\ posts'[s] # 0 /\ reached'[s] = reached[s]
      BY <1>1, <1>2, <2>4
    <3>3. Settled(s)'
      BY <1>1, <1>2, <1>6, <2>2, <2>3, <3>1, <3>2, SettledAdds
    <3> QED BY <1>5, <3>3 DEF RepeatInv
  <2>7. CASE posts[s] # 0
    <3>1. reached'[s] = reached[s] /\ reached[s] <= Len(pend[s])
      BY <1>2, <1>6 DEF Settled
    <3>2. Len(pend'[s]) = Len(pend[s]) + Len(ws) /\ Len(ws) \in Nat /\ Len(pend[s]) \in Nat
      BY <1>1, <2>2, <2>3, ConcatProperties, LenProperties
    <3>3. reached'[s] <= Len(pend'[s])
      BY <1>1, <3>1, <3>2
    <3>4. Settled(s)'
      BY <2>5, <2>7, <3>3 DEF Settled
    <3> QED BY <1>5, <3>4 DEF RepeatInv
  <2> QED BY <2>6, <2>7
<1>8. CASE Uploaded(s)
  <2>1. PICK w \in Simple(s) : w = [path |-> Item(keys[s].item), value |-> Written]
    BY <1>1 DEF Simple
  <2>2. w \in WritesOf(s) /\ w.path.root # "detail"
    BY <2>1, WritesAreWrites DEF Item
  <2>3. /\ pend'[s] = Append(pend[s], w) /\ posts'[s] = posts[s]
        /\ stage[s] = "uploading" /\ stage'[s] = "children"
    BY <1>1, <1>8, <2>1 DEF Uploaded
  <2>4. posts[s] # 0 /\ Unpushed(s)
    BY <1>6, <2>3 DEF OneDetail, Unpushed
  <2> QED BY <1>1, <1>2, <1>5, <1>6, <2>2, <2>3, <2>4, SettledAddsOne DEF RepeatInv
<1>9. CASE PushDetail(s)
  <2>1. PICK w \in WritesOf(s) : w = DetailWrite(s, keys[s].detail, keys[s].item)
    BY <1>1 DEF WritesOf
  <2>2. /\ pend'[s] = Append(pend[s], w) /\ posts'[s] = posts[s]
        /\ stage[s] = "children" /\ stage'[s] = "detail"
    BY <1>1, <1>9, <2>1 DEF PushDetail, DetailWrite
  <2> QED BY <1>1, <1>2, <1>5, <1>6, <2>2, SettledPushes DEF RepeatInv
<1>10. CASE PushProduct(s)
  <2>1. PICK w \in WritesOf(s) : w = ProductWrite(s, now, keys[s].detail)
    BY <1>1 DEF WritesOf
  <2>2. w.path.root # "detail"
    BY <2>1 DEF ProductWrite, Product
  <2>3. /\ pend'[s] = Append(pend[s], w) /\ posts'[s] = posts[s]
        /\ stage[s] = "detail" /\ stage'[s] = "product"
    BY <1>1, <1>10, <2>1 DEF PushProduct, ProductWrite
  <2>4. posts[s] # 0
    BY <1>6, <2>3 DEF OneDetail
  <2> QED BY <1>1, <1>2, <1>5, <1>6, <2>2, <2>3, <2>4, SettledAddsOne DEF RepeatInv
<1> QED BY <1>7, <1>8, <1>9, <1>10

LEMMA RepeatStep ==
  ASSUME PostInv, RestInv, RepeatInv, [Next]_vars PROVE RepeatInv'
<1>1. /\ stage \in [Shops -> {"form", "uploading", "children", "detail", "product", "stuck"}]
      /\ server \in [Paths -> Values] /\ \A s \in Shops : Post(s)
  BY DEF PostInv, WireInv, Database, StageInv
<1>2. ASSUME UNCHANGED <<server, pend, reached, posts, stage>> PROVE RepeatInv'
  BY <1>2 DEF RepeatInv, Settled, OneDetail, Unpushed, Holds, By
<1>3. ASSUME NEW s \in Shops,
             ClickIncomplete(s) \/ UploadFailed(s) \/ AnswerOne(s) \/ Success(s) \/ TapAlert(s)
      PROVE  RepeatInv'
  <2>1. UNCHANGED <<server, pend, reached, posts>>
    BY <1>3 DEF ClickIncomplete, UploadFailed, AnswerOne, Success, TapAlert
  <2>2. \A x \in Shops, t \in Times : By(x, t)' <=> By(x, t)
    BY <2>1 DEF By
  <2>3. \A x \in Shops \ {s} : stage'[x] = stage[x]
    BY <1>1, <1>3 DEF ClickIncomplete, UploadFailed, AnswerOne, Success, TapAlert
  <2>4. \A x \in Shops \ {s} : Settled(x)'
    BY <2>1, <2>2, <2>3, SettledStays DEF RepeatInv
  <2>5. stage'[s] = stage[s] \/ stage'[s] = "form" \/ (stage'[s] = "stuck" /\ stage[s] # "form")
    BY <1>1, <1>3 DEF ClickIncomplete, UploadFailed, AnswerOne, Success, TapAlert, Post
  <2>6. Settled(s) /\ (posts[s] <= 1 => (posts[s] = 0 => stage[s] = "form"))
    BY DEF RepeatInv, Settled, OneDetail
  <2>7. posts[s] = 0 => stage'[s] = "form"
    BY <2>5, <2>6
  <2>8. stage'[s] \notin {"uploading", "children"} \/ stage[s] \in {"uploading", "children"}
    BY <2>5
  <2>9. Settled(s)'
    BY <2>1, <2>2, <2>6, <2>7, <2>8, SettledScreen
  <2> QED BY <2>4, <2>9 DEF RepeatInv
<1>4. ASSUME NEW s \in Shops, Disconnect(s) \/ Reconnect(s)
      PROVE  UNCHANGED <<server, pend, reached, posts, stage>>
  BY <1>4 DEF Disconnect, Reconnect
<1>5. ASSUME NEW t \in Times, NEW u \in Shippers, ShipperTakes(t, u) PROVE RepeatInv'
  <2>1. /\ UNCHANGED <<pend, reached, posts, stage>>
        /\ server' = [server EXCEPT ![Detail(t)].uid = u] /\ server[Detail(t)] # Absent
    BY <1>5 DEF ShipperTakes
  <2>2. server[Detail(t)] \in Details
    BY <1>5, <2>1 DEF PostInv, WireInv, Database, DetailsWhole
  <2>3. server'[Detail(t)].by = server[Detail(t)].by
    BY <1>1, <2>1, <2>2, PathFacts DEF Details
  <2>4. \A k \in Times : k # t => Detail(k) # Detail(t)
    BY DEF Detail
  <2>5. \A x \in Shops, k \in Times : By(x, k)' => By(x, k)
    BY <1>1, <2>1, <2>3, <2>4, PathFacts DEF By
  <2> QED BY <2>1, <2>5, SettledStays DEF RepeatInv
<1>6. ASSUME NEW s \in Shops, Click(s) \/ Uploaded(s) \/ PushDetail(s) \/ PushProduct(s)
      PROVE  RepeatInv'
  BY <1>6, SettledWrites
<1>7. ASSUME NEW s \in Shops, ServerApply(s) \/ Ack(s) \/ Kill(s) PROVE RepeatInv'
  BY <1>7, SettledApply, SettledAck, SettledKill
<1>8. Tick \/ UNCHANGED vars => UNCHANGED <<server, pend, reached, posts, stage>>
  BY DEF Tick, vars
<1> QED BY <1>2, <1>3, <1>4, <1>5, <1>6, <1>7, <1>8 DEF Next, Running

(* OnlyRepeatsWipe: while a shop has posted once, its order loses the       *)
(* shipper who took it only to a write that was applied before and comes    *)
(* again over a new connection, or to another shop's order of the same      *)
(* second; the post itself sends its one setValue of the detail before      *)
(* anybody can see the order (DetailCreateNewsPresenter.swift:103-117).     *)
THEOREM OnlyRepeatsWipe == Spec => WipedOnlyByRepeat
<1> DEFINE ByRepeat(t) ==
      LET s == server[Detail(t)].by IN
      \/ server'[Detail(t)].by # s
      \/ applied'[s] = applied[s] + 1 /\ reached'[s] = reached[s]
      \/ posts[s] > 1
    Wipes == \A t \in Times : Taken(t) /\ ~Taken(t)' => ByRepeat(t)
<1>1. Init => RestInv
  BY PostItemAssumption DEF Init, RestInv
<1>2. Init => RepeatInv
  <2> SUFFICES ASSUME Init, NEW s \in Shops PROVE Settled(s)
    BY DEF RepeatInv
  <2>1. /\ pend[s] = <<>> /\ reached[s] = 0 /\ stage[s] = "form"
        /\ \A t \in Times : server[Detail(t)] = Absent
    BY PathFacts DEF Init
  <2>2. Len(<<>>) = 0 /\ 1..0 = {}
    OBVIOUS
  <2> QED BY <2>1, <2>2 DEF Settled, OneDetail, By
<1>3. PostInv /\ RestInv /\ RepeatInv /\ [Next]_vars => RepeatInv'
  BY RepeatStep
<1>4. ASSUME PostInv, RestInv, RepeatInv, [Next]_vars PROVE Wipes
  <2> SUFFICES ASSUME NEW t \in Times, Taken(t), ~Taken(t)' PROVE ByRepeat(t)
    OBVIOUS
  <2>1. server \in [Paths -> Values] /\ server[Detail(t)] \in Details
    BY <1>4 DEF PostInv, WireInv, Database, DetailsWhole, Taken
  <2>2. ASSUME NEW s \in Shops, ServerApply(s) PROVE ByRepeat(t)
    <3>1. CASE pend[s][applied[s] + 1].path = Detail(t)
      <4>1. /\ pend[s] \in Seq(WritesOf(s)) /\ applied \in [Shops -> Nat]
            /\ applied[s] < Len(pend[s]) /\ applied[s] <= reached[s] /\ Len(pend[s]) \in Nat
            /\ reached \in [Shops -> Nat] /\ posts[s] \in Nat
        BY <1>4, <2>2, LenProperties, PostItemAssumption DEF PostInv, WireInv, RestInv, ServerApply
      <4>2. applied[s] + 1 \in 1..Len(pend[s]) /\ Holds(s, applied[s] + 1)
        BY <3>1, <4>1 DEF Holds, Detail
      <4>3. CASE By(s, t) /\ posts[s] <= 1
        <5>1. OneDetail(s)
          BY <1>4, <4>3 DEF RepeatInv, Settled
        <5>2. applied[s] + 1 <= reached[s]
          BY <4>2, <4>3, <5>1 DEF OneDetail
        <5>3. applied[s] # reached[s]
          BY <4>1, <5>2
        <5>4. applied'[s] = applied[s] + 1 /\ reached'[s] = reached[s]
          BY <2>2, <4>1, <5>3 DEF ServerApply
        <5> QED BY <4>3, <5>4 DEF By
      <4>4. CASE By(s, t) /\ ~(posts[s] <= 1)
        <5>1. posts[s] > 1
          BY <4>1, <4>4
        <5> QED BY <4>4, <5>1 DEF By
      <4>5. CASE ~By(s, t)
        <5>1. server[Detail(t)].by # s
          BY <4>5 DEF By, Taken
        <5>2. PICK w \in WritesOf(s) : w = pend[s][applied[s] + 1]
          BY <4>1, <4>2, ElementOfSeq
        <5>3. PICK i \in Times : w.value = DetailBy(s, i)
          BY <3>1, <5>2, NamesPaths
        <5>4. server' = [server EXCEPT ![Detail(t)] = w.value]
          BY <2>2, <3>1, <5>2 DEF ServerApply
        <5>5. server'[Detail(t)] = DetailBy(s, i)
          BY <2>1, <5>3, <5>4, PathFacts
        <5>6. server'[Detail(t)].by = s
          BY <5>5 DEF DetailBy
        <5> QED BY <5>1, <5>6
      <4> QED BY <4>3, <4>4, <4>5
    <3>2. CASE pend[s][applied[s] + 1].path # Detail(t)
      <4>1. server'[Detail(t)] = server[Detail(t)]
        BY <2>1, <2>2, <3>2, PathFacts DEF ServerApply
      <4> QED BY <4>1 DEF Taken
    <3> QED BY <3>1, <3>2
  <2>3. ASSUME NEW x \in Times, NEW u \in Shippers, ShipperTakes(x, u) PROVE FALSE
    <3>1. server' = [server EXCEPT ![Detail(x)].uid = u] /\ server[Detail(x)] # Absent
      BY <2>3 DEF ShipperTakes
    <3>2. CASE x = t
      <4>1. server'[Detail(t)] = [server[Detail(t)] EXCEPT !.uid = u]
        BY <2>1, <3>1, <3>2, PathFacts
      <4>2. server'[Detail(t)] \in Details /\ server'[Detail(t)].uid = u
        BY <2>1, <4>1 DEF Details
      <4> QED BY <4>2, ChildrenArePaths, PostItemAssumption DEF Taken
    <3>3. CASE x # t
      <4>1. Detail(x) # Detail(t)
        BY <3>3 DEF Detail
      <4>2. server'[Detail(t)] = server[Detail(t)]
        BY <2>1, <3>1, <4>1, PathFacts
      <4> QED BY <4>2 DEF Taken
    <3> QED BY <3>2, <3>3
  <2>4. server' # server
    BY DEF Taken
  <2>5. ASSUME NEW s \in Shops,
               \/ ClickIncomplete(s) \/ Click(s) \/ Uploaded(s) \/ UploadFailed(s)
               \/ AnswerOne(s) \/ PushDetail(s) \/ PushProduct(s) \/ Success(s) \/ TapAlert(s)
               \/ Ack(s) \/ Disconnect(s) \/ Reconnect(s) \/ Kill(s)
        PROVE  server' = server
    BY <2>5 DEF ClickIncomplete, Click, Uploaded, UploadFailed, AnswerOne, PushDetail,
                PushProduct, Success, TapAlert, Ack, Disconnect, Reconnect, Kill
  <2>6. Tick \/ UNCHANGED vars => server' = server
    BY DEF Tick, vars
  <2> HIDE DEF ByRepeat
  <2> QED BY <1>4, <2>2, <2>3, <2>4, <2>5, <2>6 DEF Next, Running
<1>5. Wipes => [Wipes]_vars
  OBVIOUS
<1> HIDE DEF Wipes
<1>6. Spec => [][Wipes]_vars
  BY <1>1, <1>2, <1>3, <1>4, <1>5, RestStep, PostAlways, PTL DEF Spec
<1> USE DEF Wipes
<1> QED BY <1>6 DEF WipedOnlyByRepeat
===================================================================================
