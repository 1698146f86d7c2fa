--------------------------- MODULE OrderSyncProofs ---------------------------
(***************************************************************************)
(* Theorems about OrderSync, for any phones, accounts, orders and bounds.  *)
(***************************************************************************)
EXTENDS OrderSync, SequenceTheorems, FiniteSetTheorems, WellFoundedInduction, TLAPS

(* The records a tap can write, and the write that carries one.             *)
LEMMA PostFacts == /\ Released \in Post
                   /\ \A u \in Users : TakenBy(u) \in Post
                   /\ Post \subseteq Record
                   /\ \A o \in Orders, post \in Post : [order |-> o, post |-> post] \in Write
  BY DEF Post, Record, Write, TakenBy, Released

(* What a phone has not heard of is no record.                              *)
LEMMA UnknownFacts == Unknown \notin Record /\ Unknown \notin Post
<1>1. \A r \in Record : r.status # "unknown"
  BY DEF Record, Post, TakenBy, Released, Posted, Board!TakenBy, Board!Released, Board!Posted
<1>2. Unknown.status = "unknown" /\ Post \subseteq Record
  BY PostFacts DEF Unknown
<1> QED BY <1>1, <1>2
-----------------------------------------------------------------------------
(* The overlay: the last pending write to an order decides what is shown.   *)

LEMMA LastWriteExists ==
  ASSUME NEW p \in Seq(Write), NEW o, WritesTo(p, o) # {}
  PROVE  \E m \in WritesTo(p, o) : \A k \in WritesTo(p, o) : k <= m
<1> DEFINE T == {Len(p) - k : k \in WritesTo(p, o)}
<1>1. Len(p) \in Nat /\ DOMAIN p = 1..Len(p)
  BY LenProperties
<1>2. T \subseteq Nat /\ T # {}
  BY <1>1 DEF WritesTo
<1>3. PICK x \in T : \A y \in T : ~ (<<y, x>> \in OpToRel(<, Nat))
  BY <1>2, NatLessThanWellFounded, WFMin
<1>4. \A y \in T : ~ (y < x)
  BY <1>2, <1>3 DEF OpToRel
<1>5. PICK m \in WritesTo(p, o) : x = Len(p) - m
  BY <1>3
<1>6. ASSUME NEW k \in WritesTo(p, o) PROVE k <= m
  <2>1. ~ (Len(p) - k < Len(p) - m)
    BY <1>4, <1>5
  <2> QED BY <2>1, <1>1 DEF WritesTo
<1> QED BY <1>6

LEMMA OverlayAt ==
  ASSUME NEW c, NEW p \in Seq(Write), NEW o,
         NEW m \in WritesTo(p, o), \A k \in WritesTo(p, o) : k <= m
  PROVE  Overlay(c, p, o) = p[m].post
<1>1. WritesTo(p, o) \subseteq Nat
  BY LenProperties DEF WritesTo
<1>2. \A n \in WritesTo(p, o) : (\A k \in WritesTo(p, o) : k <= n) => n = m
  BY <1>1
<1>3. (CHOOSE n \in WritesTo(p, o) : \A k \in WritesTo(p, o) : k <= n) = m
  BY <1>2
<1> QED BY <1>3 DEF Overlay

LEMMA OverlayAppend ==
  ASSUME NEW c, NEW p \in Seq(Write), NEW o \in Orders, NEW post \in Post
  PROVE  Overlay(c, Append(p, [order |-> o, post |-> post]), o) = post
<1> DEFINE w == [order |-> o, post |-> post]
           q == Append(p, w)
           n == Len(p) + 1
<1>1. w \in Write
  BY PostFacts
<1>2. q \in Seq(Write) /\ Len(q) = n /\ q[n] = w
  BY <1>1, AppendProperties
<1>3. DOMAIN q = 1..n /\ n \in DOMAIN q
  BY <1>2, LenProperties
<1>4. n \in WritesTo(q, o) /\ \A k \in WritesTo(q, o) : k <= n
  BY <1>2, <1>3 DEF WritesTo
<1> HIDE DEF q, w, n
<1>5. Overlay(c, q, o) = q[n].post
  BY <1>2, <1>4, OverlayAt
<1> QED BY <1>2, <1>5 DEF w, q

LEMMA WritesAppend ==
  ASSUME NEW p \in Seq(Write), NEW w \in Write, NEW o, w.order # o,
         WritesTo(Append(p, w), o) # {}
  PROVE  WritesTo(p, o) # {}
<1>1. PICK k \in WritesTo(Append(p, w), o) : TRUE
  OBVIOUS
<1>2. /\ DOMAIN Append(p, w) = 1..(Len(p) + 1) /\ DOMAIN p = 1..Len(p) /\ Len(p) \in Nat
      /\ Append(p, w)[Len(p) + 1] = w /\ \A j \in 1..Len(p) : Append(p, w)[j] = p[j]
  BY AppendProperties, LenProperties
<1>3. k \in 1..(Len(p) + 1) /\ k # Len(p) + 1
  BY <1>1, <1>2 DEF WritesTo
<1>4. k \in DOMAIN p /\ p[k].order = o
  BY <1>1, <1>2, <1>3 DEF WritesTo
<1> QED BY <1>4 DEF WritesTo

LEMMA WritesTail ==
  ASSUME NEW p \in Seq(Write), p # <<>>, NEW o, WritesTo(Tail(p), o) # {}
  PROVE  WritesTo(p, o) # {}
<1>1. PICK k \in WritesTo(Tail(p), o) : TRUE
  OBVIOUS
<1>2. /\ DOMAIN Tail(p) = 1..Len(Tail(p)) /\ DOMAIN p = 1..Len(p) /\ Len(p) \in Nat
      /\ Len(Tail(p)) = Len(p) - 1 /\ \A j \in 1..Len(Tail(p)) : Tail(p)[j] = p[j + 1]
  BY HeadTailProperties, LenProperties
<1>3. k + 1 \in DOMAIN p /\ p[k + 1].order = o
  BY <1>1, <1>2 DEF WritesTo
<1> QED BY <1>3 DEF WritesTo

(* A write to another order, appended or acknowledged, leaves the view.     *)
LEMMA OverlayAppendOther ==
  ASSUME NEW c, NEW p \in Seq(Write), NEW w \in Write, NEW o, w.order # o
  PROVE  Overlay(c, Append(p, w), o) = Overlay(c, p, o)
<1> DEFINE q == Append(p, w)
<1>1. /\ q \in Seq(Write) /\ Len(q) = Len(p) + 1 /\ q[Len(p) + 1] = w
      /\ \A k \in 1..Len(p) : q[k] = p[k]
  BY AppendProperties
<1>2. DOMAIN q = 1..(Len(p) + 1) /\ DOMAIN p = 1..Len(p) /\ Len(p) \in Nat
  BY <1>1, LenProperties
<1> HIDE DEF q
<1>3. WritesTo(q, o) = WritesTo(p, o)
  BY <1>1, <1>2 DEF WritesTo
<1>4. CASE WritesTo(p, o) = {}
  BY <1>3, <1>4 DEF Overlay, q
<1>5. CASE WritesTo(p, o) # {}
  <2>1. PICK m \in WritesTo(p, o) : \A k \in WritesTo(p, o) : k <= m
    BY <1>5, LastWriteExists
  <2>2. q[m] = p[m]
    BY <1>1, <1>2 DEF WritesTo
  <2>3. Overlay(c, p, o) = p[m].post
    BY <2>1, OverlayAt
  <2>4. Overlay(c, q, o) = q[m].post
    BY <1>1, <1>3, <2>1, OverlayAt
  <2> QED BY <2>2, <2>3, <2>4 DEF q
<1> QED BY <1>4, <1>5

LEMMA OverlayTailOther ==
  ASSUME NEW c, NEW p \in Seq(Write), p # <<>>, NEW o, Head(p).order # o
  PROVE  Overlay(c, Tail(p), o) = Overlay(c, p, o)
<1> DEFINE q == Tail(p)
<1>1. /\ q \in Seq(Write) /\ Len(q) = Len(p) - 1
      /\ \A k \in 1..Len(q) : q[k] = p[k + 1]
  BY HeadTailProperties
<1>2. DOMAIN q = 1..Len(q) /\ DOMAIN p = 1..Len(p) /\ Len(p) \in Nat /\ Len(q) \in Nat
  BY <1>1, LenProperties
<1>3. p[1].order # o
  BY HeadTailProperties
<1> HIDE DEF q
<1>4. ASSUME NEW k \in WritesTo(p, o) PROVE k - 1 \in WritesTo(q, o)
  BY <1>1, <1>2, <1>3 DEF WritesTo
<1>5. ASSUME NEW k \in WritesTo(q, o) PROVE k + 1 \in WritesTo(p, o)
  BY <1>1, <1>2 DEF WritesTo
<1>6. CASE WritesTo(p, o) = {}
  BY <1>5, <1>6 DEF Overlay, q
<1>7. CASE WritesTo(p, o) # {}
  <2>1. PICK m \in WritesTo(p, o) : \A k \in WritesTo(p, o) : k <= m
    BY <1>7, LastWriteExists
  <2>2. m - 1 \in WritesTo(q, o) /\ m \in Nat
    BY <1>2, <1>4 DEF WritesTo
  <2>3. \A k \in WritesTo(q, o) : k <= m - 1
    BY <1>2, <1>5, <2>1, <2>2 DEF WritesTo
  <2>4. Overlay(c, p, o) = p[m].post
    BY <2>1, OverlayAt
  <2>5. Overlay(c, q, o) = q[m - 1].post
    BY <1>1, <2>2, <2>3, OverlayAt
  <2>6. q[m - 1] = p[m]
    BY <1>1, <1>2, <2>2 DEF WritesTo
  <2> QED BY <2>4, <2>5, <2>6 DEF q
<1> QED BY <1>6, <1>7
-----------------------------------------------------------------------------
(* The main queue, as the set of the events it holds.                       *)
Elems(q) == {q[k] : k \in DOMAIN q}

LEMMA ElemsConcat ==
  ASSUME NEW S, NEW q \in Seq(S), NEW r \in Seq(S)
  PROVE  q \o r \in Seq(S) /\ Elems(q \o r) = Elems(q) \cup Elems(r)
<1>1. /\ q \o r \in Seq(S) /\ Len(q \o r) = Len(q) + Len(r)
      /\ \A i \in 1..Len(q) + Len(r) :
            (q \o r)[i] = IF i <= Len(q) THEN q[i] ELSE r[i - Len(q)]
  BY ConcatProperties
<1>2. /\ DOMAIN (q \o r) = 1..Len(q) + Len(r)
      /\ DOMAIN q = 1..Len(q) /\ DOMAIN r = 1..Len(r)
      /\ Len(q) \in Nat /\ Len(r) \in Nat
  BY <1>1, LenProperties
<1> DEFINE s == q \o r
<1> HIDE DEF s
<1>3. \A k \in 1..Len(q) : k \in DOMAIN s /\ s[k] = q[k]
  BY <1>1, <1>2 DEF s
<1>4. \A k \in 1..Len(r) : k + Len(q) \in DOMAIN s /\ s[k + Len(q)] = r[k]
  BY <1>1, <1>2 DEF s
<1>5. \A k \in DOMAIN s : (k \in DOMAIN q /\ s[k] = q[k])
                       \/ (k - Len(q) \in DOMAIN r /\ s[k] = r[k - Len(q)])
  BY <1>1, <1>2 DEF s
<1>6. Elems(s) = Elems(q) \cup Elems(r)
  BY <1>2, <1>3, <1>4, <1>5 DEF Elems
<1> QED BY <1>1, <1>6 DEF s

LEMMA ElemsAppend ==
  ASSUME NEW S, NEW q \in Seq(S), NEW e \in S
  PROVE  Append(q, e) \in Seq(S) /\ Elems(Append(q, e)) = Elems(q) \cup {e}
<1> DEFINE s == Append(q, e)
<1>1. /\ s \in Seq(S) /\ Len(s) = Len(q) + 1 /\ s[Len(q) + 1] = e
      /\ \A k \in 1..Len(q) : s[k] = q[k]
  BY AppendProperties
<1>2. DOMAIN s = 1..Len(q) + 1 /\ DOMAIN q = 1..Len(q) /\ Len(q) \in Nat
  BY <1>1, LenProperties
<1> HIDE DEF s
<1>3. Elems(s) = Elems(q) \cup {e}
  BY <1>1, <1>2 DEF Elems
<1> QED BY <1>1, <1>3 DEF s

LEMMA ElemsTail ==
  ASSUME NEW S, NEW q \in Seq(S), q # <<>>
  PROVE  /\ Head(q) \in S /\ Tail(q) \in Seq(S) /\ Len(Tail(q)) = Len(q) - 1
         /\ Elems(q) = {Head(q)} \cup Elems(Tail(q))
<1> DEFINE s == Tail(q)
<1>1. /\ Head(q) \in S /\ s \in Seq(S) /\ Len(s) = Len(q) - 1
      /\ \A k \in 1..Len(s) : s[k] = q[k + 1]
  BY HeadTailProperties
<1>2. DOMAIN s = 1..Len(s) /\ DOMAIN q = 1..Len(q) /\ Len(q) \in Nat /\ Len(s) \in Nat
  BY <1>1, LenProperties
<1>3. Head(q) = q[1] /\ 1 \in DOMAIN q
  BY <1>1, <1>2
<1> HIDE DEF s
<1>4. \A k \in DOMAIN q : k = 1 \/ (k - 1 \in DOMAIN s /\ s[k - 1] = q[k])
  BY <1>1, <1>2
<1>5. \A k \in DOMAIN s : k + 1 \in DOMAIN q /\ s[k] = q[k + 1]
  BY <1>1, <1>2
<1>6. Elems(q) = {Head(q)} \cup Elems(s)
  BY <1>3, <1>4, <1>5 DEF Elems
<1> QED BY <1>1, <1>6 DEF s

(* What a change of the view adds to the queue: one event per listener.     *)
LEMMA RaisedFacts ==
  ASSUME TypeOK, NEW d \in Devices, NEW o \in Orders, NEW c, NEW p
  PROVE  /\ Raised(d, o, c, p) \in Seq(Event)
         /\ \A e \in Elems(Raised(d, o, c, p)) : e.order = o /\ e.reg \in DOMAIN regs[d][o]
         /\ Overlay(c, p, o) # View(d, o) =>
              \A i \in DOMAIN regs[d][o] :
                 [order |-> o, reg |-> i] \in Elems(Raised(d, o, c, p))
<1>1. regs[d][o] \in Seq(Post)
  BY DEF TypeOK
<1>2. Len(regs[d][o]) \in Nat /\ DOMAIN regs[d][o] = 1..Len(regs[d][o])
  BY <1>1, LenProperties
<1>3. \A i \in 1..Len(regs[d][o]) : [order |-> o, reg |-> i] \in Event
  BY <1>2 DEF Event
<1>4. /\ Events(d, o) \in Seq(Event)
      /\ DOMAIN Events(d, o) = 1..Len(regs[d][o])
  BY <1>2, <1>3 DEF Events
<1>5. ASSUME NEW e \in Elems(Events(d, o))
      PROVE  e.order = o /\ e.reg \in DOMAIN regs[d][o]
  <2>1. PICK k \in 1..Len(regs[d][o]) : e = Events(d, o)[k]
    BY <1>4 DEF Elems
  <2>2. e = [order |-> o, reg |-> k]
    BY <2>1 DEF Events
  <2> QED BY <1>2, <2>2
<1>6. ASSUME NEW i \in DOMAIN regs[d][o]
      PROVE  [order |-> o, reg |-> i] \in Elems(Events(d, o))
  <2>1. Events(d, o)[i] = [order |-> o, reg |-> i]
    BY <1>2 DEF Events
  <2> QED BY <1>2, <1>4, <2>1 DEF Elems
<1>7. <<>> \in Seq(Event) /\ Elems(<<>>) = {}
  BY DEF Elems
<1> QED BY <1>4, <1>5, <1>6, <1>7 DEF Raised
-----------------------------------------------------------------------------
(* The inductive invariant: types, events that name a listener, no more     *)
(* writes applied than are pending, and LastWord: nothing is written or     *)
(* queued for an order the phone has not heard of, and every listener on    *)
(* one it has heard of has its answer shown or queued.                      *)
EventsValid == \A d \in Devices : \A e \in Elems(mainq[d]) :
  e.reg \in DOMAIN regs[d][e.order]
AppliedBound == \A d \in Devices : applied[d] <= Len(pend[d])
NotHeard == \A d \in Devices, o \in Orders : cache[d][o] = Unknown =>
  WritesTo(pend[d], o) = {} /\ \A e \in Elems(mainq[d]) : e.order # o
Asserted == \A d \in Devices, o \in Orders : \A i \in DOMAIN regs[d][o] :
  cache[d][o] # Unknown =>
    View(d, o) = regs[d][o][i] \/ [order |-> o, reg |-> i] \in Elems(mainq[d])
IInv == TypeOK /\ EventsValid /\ AppliedBound /\ NotHeard /\ Asserted

LEMMA AssertedIsLastWord == NotHeard /\ Asserted => LastWord
<1>1. \A d \in Devices, o \in Orders : \A i \in DOMAIN regs[d][o] :
        QueuedFor(d, o, i) <=> [order |-> o, reg |-> i] \in Elems(mainq[d])
  BY DEF QueuedFor, Elems
<1>2. ASSUME NotHeard, NEW d \in Devices, NEW o \in Orders, NEW i \in DOMAIN regs[d][o],
             cache[d][o] = Unknown
      PROVE  WritesTo(pend[d], o) = {} /\ ~QueuedFor(d, o, i)
  <2>1. [order |-> o, reg |-> i].order = o
    OBVIOUS
  <2>2. [order |-> o, reg |-> i] \notin Elems(mainq[d])
    BY <1>2, <2>1 DEF NotHeard
  <2> QED BY <1>1, <1>2, <2>2 DEF NotHeard
<1>3. ASSUME Asserted, NEW d \in Devices, NEW o \in Orders, NEW i \in DOMAIN regs[d][o],
             cache[d][o] # Unknown
      PROVE  View(d, o) = regs[d][o][i] \/ QueuedFor(d, o, i)
  BY <1>1, <1>3 DEF Asserted
<1> QED BY <1>2, <1>3 DEF LastWord

LEMMA InitIInv == Init => IInv
<1> SUFFICES ASSUME Init PROVE IInv
  OBVIOUS
<1>1. /\ \A S : <<>> \in Seq(S)
      /\ Elems(<<>>) = {} /\ Len(<<>>) = 0 /\ DOMAIN <<>> = {}
  BY DEF Elems
<1>2. Posted \in Record /\ NoScreen \in Screen
  BY DEF Record, Screen
<1>3. TypeOK
  BY <1>1, <1>2 DEF Init, TypeOK
<1>4. EventsValid /\ AppliedBound /\ NotHeard /\ Asserted
  BY <1>1 DEF Init, EventsValid, AppliedBound, NotHeard, Asserted, WritesTo
<1> QED BY <1>3, <1>4 DEF IInv

(* A step of the client of d that may change the view of o, which it has    *)
(* heard of or now hears of: q is what is left of the queue once the event  *)
(* that was run, if any, is gone.                                           *)
LEMMA ClientStep ==
  ASSUME IInv, NEW d \in Devices, NEW o \in Orders, NEW q \in Seq(Event),
         \A x \in Orders \ {o} :
           /\ View(d, x)' = View(d, x) /\ cache'[d][x] = cache[d][x]
           /\ WritesTo(pend'[d], x) # {} => WritesTo(pend[d], x) # {},
         cache'[d][o] # Unknown,
         cache[d][o] = Unknown => View(d, o)' # View(d, o),
         Elems(q) \subseteq Elems(mainq[d]),
         \A e \in Elems(mainq[d]) \ Elems(q) :
           e.order = o /\ View(d, o)' = regs[d][o][e.reg],
         mainq' = [mainq EXCEPT ![d] = q \o Raised(d, o, cache'[d], pend'[d])],
         \A b \in Devices \ {d} : cache'[b] = cache[b] /\ pend'[b] = pend[b],
         regs' = regs
  PROVE  mainq' \in [Devices -> Seq(Event)] /\ EventsValid' /\ NotHeard' /\ Asserted'
<1> DEFINE r == Raised(d, o, cache'[d], pend'[d])
<1>1. /\ r \in Seq(Event)
      /\ \A e \in Elems(r) : e.order = o /\ e.reg \in DOMAIN regs[d][o]
      /\ View(d, o)' # View(d, o) =>
           \A i \in DOMAIN regs[d][o] : [order |-> o, reg |-> i] \in Elems(r)
  BY RaisedFacts DEF IInv, View
<1> HIDE DEF r
<1>2. q \o r \in Seq(Event) /\ Elems(q \o r) = Elems(q) \cup Elems(r)
  BY <1>1, ElemsConcat
<1>3. mainq' = [mainq EXCEPT ![d] = q \o r]
  BY DEF r
<1>4. mainq \in [Devices -> Seq(Event)]
  BY DEF IInv, TypeOK
<1>5. mainq' \in [Devices -> Seq(Event)]
  BY <1>2, <1>3, <1>4
<1>6. mainq'[d] = q \o r /\ \A b \in Devices \ {d} : mainq'[b] = mainq[b]
  BY <1>3, <1>4
<1>7. EventsValid'
  <2> SUFFICES ASSUME NEW b \in Devices, NEW e \in Elems(mainq'[b])
               PROVE  e.reg \in DOMAIN regs[b][e.order]
    BY DEF EventsValid
  <2>1. e \in Elems(mainq[b]) => e.reg \in DOMAIN regs[b][e.order]
    BY DEF IInv, EventsValid
  <2> QED BY <1>1, <1>2, <1>6, <2>1
<1>10. NotHeard'
  <2> SUFFICES ASSUME NEW b \in Devices, NEW x \in Orders, cache'[b][x] = Unknown
               PROVE  WritesTo(pend'[b], x) = {} /\ \A e \in Elems(mainq'[b]) : e.order # x
    BY DEF NotHeard
  <2>1. CASE b # d
    BY <1>6, <2>1 DEF IInv, NotHeard
  <2>2. CASE b = d
    <3>1. x # o /\ cache[d][x] = Unknown
      BY <2>2
    <3>2. WritesTo(pend[d], x) = {} /\ \A e \in Elems(mainq[d]) : e.order # x
      BY <3>1 DEF IInv, NotHeard
    <3> QED BY <1>1, <1>2, <1>6, <2>2, <3>1, <3>2
  <2> QED BY <2>1, <2>2
<1>8. ASSUME NEW b \in Devices, NEW x \in Orders, NEW i \in DOMAIN regs[b][x],
             cache'[b][x] # Unknown
      PROVE  View(b, x)' = regs[b][x][i] \/ [order |-> x, reg |-> i] \in Elems(mainq'[b])
  <2> DEFINE e == [order |-> x, reg |-> i]
  <2>1. cache[b][x] # Unknown => View(b, x) = regs[b][x][i] \/ e \in Elems(mainq[b])
    BY DEF IInv, Asserted
  <2>2. CASE b # d
    BY <1>6, <1>8, <2>1, <2>2 DEF View
  <2>3. CASE b = d /\ x # o
    <3>2. cache[b][x] # Unknown
      BY <1>8, <2>3
    <3>1. e \in Elems(mainq[d]) => e \in Elems(q)
      BY <2>3
    <3> QED BY <1>2, <1>6, <2>1, <2>3, <3>1, <3>2
  <2>4. CASE b = d /\ x = o
    <3>1. CASE View(d, o)' # View(d, o)
      BY <1>1, <1>2, <1>6, <2>4, <3>1
    <3>2. CASE View(d, o)' = View(d, o) /\ e \in Elems(mainq[d]) \ Elems(q)
      BY <2>4, <3>2
    <3>3. CASE View(d, o)' = View(d, o) /\ e \in Elems(q)
      BY <1>2, <1>6, <2>4, <3>3
    <3>4. CASE View(d, o)' = View(d, o) /\ e \notin Elems(mainq[d])
      BY <2>1, <2>4, <3>4
    <3> QED BY <3>1, <3>2, <3>3, <3>4
  <2> QED BY <2>2, <2>3, <2>4
<1>9. Asserted'
  <2>1. regs' = regs
    OBVIOUS
  <2> QED BY <1>8, <2>1 DEF Asserted
<1> QED BY <1>5, <1>7, <1>9, <1>10

LEMMA ClientStepNoneRun ==
  ASSUME IInv, NEW d \in Devices, NEW o \in Orders,
         \A x \in Orders \ {o} :
           /\ View(d, x)' = View(d, x) /\ cache'[d][x] = cache[d][x]
           /\ WritesTo(pend'[d], x) # {} => WritesTo(pend[d], x) # {},
         cache'[d][o] # Unknown,
         cache[d][o] = Unknown => View(d, o)' # View(d, o),
         mainq' = [mainq EXCEPT ![d] = mainq[d] \o Raised(d, o, cache'[d], pend'[d])],
         \A b \in Devices \ {d} : cache'[b] = cache[b] /\ pend'[b] = pend[b],
         regs' = regs
  PROVE  mainq' \in [Devices -> Seq(Event)] /\ EventsValid' /\ NotHeard' /\ Asserted'
<1>1. PICK q \in Seq(Event) : q = mainq[d]
  BY DEF IInv, TypeOK
<1>3. Elems(q) = Elems(mainq[d])
  BY <1>1
<1>4. mainq' = [mainq EXCEPT ![d] = q \o Raised(d, o, cache'[d], pend'[d])]
  BY <1>1
<1> QED BY <1>3, <1>4, ClientStep

(* A tap: the new listener's first event is queued with it if the phone has *)
(* heard of the order; if not, nothing is.                                  *)
LEMMA RegisterStep ==
  ASSUME IInv, NEW d \in Devices, NEW o \in Orders, NEW post \in Post,
         Register(d, o, post),
         UNCHANGED <<server, user, conn, cache, pend, applied, inbox, storage>>
  PROVE  IInv'
<1> DEFINE n == Len(regs[d][o]) + 1
           e == [order |-> o, reg |-> n]
<1>1. /\ regs \in [Devices -> [Orders -> Seq(Post)]] /\ regs[d][o] \in Seq(Post)
      /\ mainq \in [Devices -> Seq(Event)] /\ mainq[d] \in Seq(Event)
  BY DEF IInv, TypeOK
<1>2. /\ Append(regs[d][o], post) \in Seq(Post)
      /\ DOMAIN Append(regs[d][o], post) = 1..n
      /\ DOMAIN regs[d][o] = 1..Len(regs[d][o])
      /\ Len(regs[d][o]) \in Nat
      /\ \A i \in DOMAIN regs[d][o] : Append(regs[d][o], post)[i] = regs[d][o][i]
  BY <1>1, AppendProperties, LenProperties
<1>3. e \in Event
  BY <1>2 DEF Event
<1>h. PICK q \in Seq(Event) : q = IF cache[d][o] = Unknown THEN mainq[d] ELSE Append(mainq[d], e)
  BY <1>1, <1>3, ElemsAppend
<1>4. /\ Elems(mainq[d]) \subseteq Elems(q) /\ Elems(q) \subseteq Elems(mainq[d]) \cup {e}
      /\ cache[d][o] # Unknown => e \in Elems(q)
      /\ cache[d][o] = Unknown => q = mainq[d]
  BY <1>1, <1>3, <1>h, ElemsAppend
<1>5. /\ regs' = [regs EXCEPT ![d][o] = Append(regs[d][o], post)]
      /\ mainq' = [mainq EXCEPT ![d] = q]
  <2>1. regs' = [regs EXCEPT ![d][o] = Append(regs[d][o], post)]
    BY DEF Register
  <2>2. mainq' = IF cache[d][o] = Unknown THEN mainq ELSE [mainq EXCEPT ![d] = Append(mainq[d], e)]
    BY DEF Register
  <2> QED BY <1>1, <1>h, <2>1, <2>2
<1>6. /\ regs'[d][o] = Append(regs[d][o], post)
      /\ \A b \in Devices, x \in Orders : b # d \/ x # o => regs'[b][x] = regs[b][x]
      /\ mainq'[d] = q
      /\ \A b \in Devices : b # d => mainq'[b] = mainq[b]
  BY <1>1, <1>5
<1>7. TypeOK'
  <2>1. regs' \in [Devices -> [Orders -> Seq(Post)]]
    BY <1>1, <1>2, <1>5
  <2>2. mainq' \in [Devices -> Seq(Event)]
    BY <1>1, <1>5
  <2> QED BY <2>1, <2>2 DEF IInv, TypeOK
<1>8. EventsValid'
  <2> SUFFICES ASSUME NEW b \in Devices, NEW f \in Elems(mainq'[b])
               PROVE  f.reg \in DOMAIN regs'[b][f.order]
    BY DEF EventsValid
  <2>1. CASE b = d /\ f = e
    BY <1>2, <1>6, <2>1
  <2>2. CASE ~(b = d /\ f = e)
    <3>1. f \in Elems(mainq[b])
      BY <1>4, <1>6, <2>2
    <3>2. f.reg \in DOMAIN regs[b][f.order]
      BY <3>1 DEF IInv, EventsValid
    <3>3. f.order \in Orders
      <4>1. mainq[b] \in Seq(Event)
        BY <1>1
      <4>2. f \in Event
        BY <3>1, <4>1, LenProperties, ElementOfSeq DEF Elems
      <4> QED BY <4>2 DEF Event
    <3> QED BY <1>2, <1>6, <3>2, <3>3
  <2> QED BY <2>1, <2>2
<1>9. AppliedBound'
  BY DEF IInv, AppliedBound
<1>11. NotHeard'
  <2> SUFFICES ASSUME NEW b \in Devices, NEW x \in Orders, cache[b][x] = Unknown
               PROVE  WritesTo(pend[b], x) = {} /\ \A f \in Elems(mainq'[b]) : f.order # x
    BY DEF NotHeard
  <2>1. WritesTo(pend[b], x) = {} /\ \A f \in Elems(mainq[b]) : f.order # x
    BY DEF IInv, NotHeard
  <2> QED BY <1>4, <1>6, <2>1
<1>10. Asserted'
  <2> SUFFICES ASSUME NEW b \in Devices, NEW x \in Orders, NEW i \in DOMAIN regs'[b][x],
                      cache[b][x] # Unknown
               PROVE  \/ View(b, x)' = regs'[b][x][i]
                      \/ [order |-> x, reg |-> i] \in Elems(mainq'[b])
    BY DEF Asserted
  <2>1. View(b, x)' = View(b, x)
    BY DEF View
  <2>2. CASE b = d /\ x = o /\ i = n
    BY <1>4, <1>6, <2>2
  <2>3. CASE ~(b = d /\ x = o /\ i = n)
    <3>1. i \in DOMAIN regs[b][x] /\ regs'[b][x][i] = regs[b][x][i]
      <4>1. CASE b = d /\ x = o
        <5>1. regs'[b][x] = Append(regs[d][o], post) /\ i \in 1..n /\ i # n
          BY <1>2, <1>6, <2>3, <4>1
        <5>2. i \in DOMAIN regs[d][o]
          BY <1>2, <5>1
        <5> QED BY <1>2, <4>1, <5>1, <5>2
      <4>2. CASE ~(b = d /\ x = o)
        BY <1>6, <4>2
      <4> QED BY <4>1, <4>2
    <3>2. View(b, x) = regs[b][x][i] \/ [order |-> x, reg |-> i] \in Elems(mainq[b])
      BY <3>1 DEF IInv, Asserted
    <3> QED BY <1>4, <1>6, <2>1, <3>1, <3>2
  <2> QED BY <2>2, <2>3
<1> QED BY <1>7, <1>8, <1>9, <1>10, <1>11 DEF IInv

LEMMA RunCallbackStep ==
  ASSUME IInv, NEW d \in Devices, RunCallback(d)
  PROVE  IInv'
<1>1. /\ mainq[d] \in Seq(Event) /\ mainq[d] # <<>>
      /\ pend \in [Devices -> Seq(Write)] /\ pend[d] \in Seq(Write)
      /\ regs[d] \in [Orders -> Seq(Post)]
  BY DEF IInv, TypeOK, RunCallback
<1>2. PICK e \in Event, q \in Seq(Event) :
         e = Head(mainq[d]) /\ q = Tail(mainq[d]) /\ Elems(mainq[d]) = {e} \cup Elems(q)
  <2>1. /\ Head(mainq[d]) \in Event /\ Tail(mainq[d]) \in Seq(Event)
        /\ Elems(mainq[d]) = {Head(mainq[d])} \cup Elems(Tail(mainq[d]))
    BY <1>1, ElemsTail
  <2> QED BY <2>1, Zenon
<1>3. PICK o \in Orders, i \in Nat : e = [order |-> o, reg |-> i] /\ i \in DOMAIN regs[d][o]
  BY <1>2 DEF IInv, EventsValid, Event
<1>4. PICK post \in Post : post = regs[d][o][i]
  <2>1. regs[d][o] \in Seq(Post)
    BY <1>1, <1>3
  <2> QED BY <1>3, <2>1, LenProperties, ElementOfSeq
<1>5. PICK w \in Write : w = [order |-> o, post |-> post]
  BY <1>3, <1>4, PostFacts
<1>6. /\ pend' = [pend EXCEPT ![d] = Append(pend[d], w)]
      /\ cache' = cache
      /\ mainq' = [mainq EXCEPT ![d] = q \o Raised(d, o, cache'[d], pend'[d])]
      /\ storage' = [storage EXCEPT ![d] =
             IF storage[d].open /\ storage[d].order = o /\ i > storage[d].born /\ post = Released
             THEN NoScreen ELSE storage[d]]
      /\ UNCHANGED <<server, user, conn, applied, inbox, regs>>
  <2>1. Head(mainq[d]).order = o /\ Head(mainq[d]).reg = i
    BY <1>2, <1>3
  <2> QED BY <1>2, <1>4, <1>5, <2>1 DEF RunCallback
<1>7. /\ pend'[d] = Append(pend[d], w)
      /\ \A b \in Devices \ {d} : pend'[b] = pend[b]
      /\ Append(pend[d], w) \in Seq(Write) /\ Len(Append(pend[d], w)) = Len(pend[d]) + 1
  BY <1>1, <1>5, <1>6, AppendProperties
<1>8. View(d, o)' = post
  <2>1. View(d, o)' = Overlay(cache'[d], Append(pend[d], w), o)
    BY <1>7 DEF View
  <2> QED BY <1>1, <1>3, <1>4, <1>5, <2>1, OverlayAppend
<1>9. ASSUME NEW x \in Orders \ {o}
      PROVE  /\ View(d, x)' = View(d, x) /\ cache'[d][x] = cache[d][x]
             /\ WritesTo(pend'[d], x) # {} => WritesTo(pend[d], x) # {}
  <2>1. View(d, x)' = Overlay(cache[d], Append(pend[d], w), x)
    BY <1>6, <1>7 DEF View
  <2>2. w.order # x
    BY <1>5
  <2>3. WritesTo(pend'[d], x) # {} => WritesTo(pend[d], x) # {}
    BY <1>1, <1>7, <2>2, WritesAppend
  <2> QED BY <1>1, <1>5, <1>6, <2>1, <2>2, <2>3, OverlayAppendOther DEF View
<1>14. cache[d][o] # Unknown /\ cache'[d][o] # Unknown
  <2>1. e \in Elems(mainq[d]) /\ e.order = o
    BY <1>2, <1>3
  <2> QED BY <1>6, <2>1 DEF IInv, NotHeard
<1>10. \A f \in Elems(mainq[d]) \ Elems(q) : f.order = o /\ View(d, o)' = regs[d][o][f.reg]
  BY <1>2, <1>3, <1>4, <1>8
<1>11. mainq' \in [Devices -> Seq(Event)] /\ EventsValid' /\ NotHeard' /\ Asserted'
  <2>1. \A b \in Devices \ {d} : cache'[b] = cache[b] /\ pend'[b] = pend[b]
    BY <1>6, <1>7
  <2>2. Elems(q) \subseteq Elems(mainq[d])
    BY <1>2
  <2>3. regs' = regs /\ mainq' = [mainq EXCEPT ![d] = q \o Raised(d, o, cache'[d], pend'[d])]
    BY <1>6
  <2> QED BY <1>2, <1>3, <1>9, <1>10, <1>14, <2>1, <2>2, <2>3, ClientStep
<1>12. TypeOK'
  <2>1. pend' \in [Devices -> Seq(Write)]
    BY <1>1, <1>6, <1>7
  <2>2. storage' \in [Devices -> Screen]
    BY <1>6 DEF IInv, TypeOK, Screen
  <2> QED BY <1>6, <1>11, <2>1, <2>2 DEF IInv, TypeOK
<1>13. AppliedBound'
  <2> SUFFICES ASSUME NEW b \in Devices PROVE applied'[b] <= Len(pend'[b])
    BY DEF AppliedBound
  <2>1. applied[b] <= Len(pend[b]) /\ applied[b] \in Nat /\ Len(pend[b]) \in Nat
    BY <1>1, LenProperties DEF IInv, AppliedBound, TypeOK
  <2> QED BY <1>6, <1>7, <2>1
<1> QED BY <1>11, <1>12, <1>13 DEF IInv

LEMMA DeliverDataStep ==
  ASSUME IInv, NEW d \in Devices, DeliverData(d)
  PROVE  IInv'
<1> DEFINE Message == Data \cup Ack
<1>1. /\ inbox \in [Devices -> Seq(Message)] /\ inbox[d] \in Seq(Message) /\ inbox[d] # <<>>
      /\ cache \in [Devices -> [Orders -> Record \cup {Unknown}]]
      /\ mainq[d] \in Seq(Event)
  BY DEF IInv, TypeOK, DeliverData
<1>2. Head(inbox[d]) \in Message /\ Tail(inbox[d]) \in Seq(Message)
  BY <1>1, HeadTailProperties
<1>3. Head(inbox[d]) \in Data
  BY <1>2 DEF DeliverData, Ack
<1>4. PICK o \in Orders, rec \in Record : o = Head(inbox[d]).order /\ rec = Head(inbox[d]).rec
  BY <1>3 DEF Data
<1>5. /\ cache' = [cache EXCEPT ![d][o] = rec]
      /\ pend' = pend
      /\ mainq' = [mainq EXCEPT ![d] = mainq[d] \o Raised(d, o, cache'[d], pend'[d])]
      /\ inbox' = [inbox EXCEPT ![d] = Tail(inbox[d])]
      /\ UNCHANGED <<server, user, conn, applied, regs, storage>>
  BY <1>4 DEF DeliverData
<1>6. \A b \in Devices \ {d} : cache'[b] = cache[b] /\ pend'[b] = pend[b]
  BY <1>1, <1>5
<1>7. ASSUME NEW x \in Orders \ {o}
      PROVE  /\ View(d, x)' = View(d, x) /\ cache'[d][x] = cache[d][x]
             /\ WritesTo(pend'[d], x) # {} => WritesTo(pend[d], x) # {}
  <2>1. cache'[d][x] = cache[d][x]
    BY <1>1, <1>5, <1>7
  <2> QED BY <1>5, <2>1 DEF View, Overlay
<1>11. cache'[d][o] = rec /\ cache'[d][o] # Unknown
  BY <1>1, <1>5, UnknownFacts
<1>12. cache[d][o] = Unknown => View(d, o)' # View(d, o)
  <2>1. cache[d][o] = Unknown => WritesTo(pend[d], o) = {}
    BY DEF IInv, NotHeard
  <2> QED BY <1>5, <1>11, <2>1 DEF View, Overlay
<1>8. mainq' \in [Devices -> Seq(Event)] /\ EventsValid' /\ NotHeard' /\ Asserted'
  BY <1>5, <1>6, <1>7, <1>11, <1>12, ClientStepNoneRun
<1>9. TypeOK'
  <2>1. cache' \in [Devices -> [Orders -> Record \cup {Unknown}]]
    BY <1>1, <1>5
  <2>2. inbox' \in [Devices -> Seq(Message)]
    BY <1>1, <1>2, <1>5
  <2> QED BY <1>5, <1>8, <2>1, <2>2 DEF IInv, TypeOK
<1>10. AppliedBound'
  BY <1>5 DEF IInv, AppliedBound
<1> QED BY <1>8, <1>9, <1>10 DEF IInv

LEMMA DeliverAckStep ==
  ASSUME IInv, NEW d \in Devices, DeliverAck(d)
  PROVE  IInv'
<1> DEFINE Message == Data \cup Ack
<1>1. /\ inbox \in [Devices -> Seq(Message)] /\ inbox[d] \in Seq(Message) /\ inbox[d] # <<>>
      /\ pend \in [Devices -> Seq(Write)] /\ pend[d] \in Seq(Write)
      /\ mainq[d] \in Seq(Event)
      /\ applied \in [Devices -> Nat] /\ applied[d] > 0 /\ applied[d] <= Len(pend[d])
  BY DEF IInv, TypeOK, AppliedBound, DeliverAck
<1>2. Tail(inbox[d]) \in Seq(Message)
  BY <1>1, HeadTailProperties
<1>3. pend[d] # <<>>
  BY <1>1
<1>4. /\ Head(pend[d]) \in Write /\ Tail(pend[d]) \in Seq(Write)
      /\ Len(Tail(pend[d])) = Len(pend[d]) - 1
  BY <1>1, <1>3, HeadTailProperties
<1>5. PICK o \in Orders : o = Head(pend[d]).order
  BY <1>4 DEF Write
<1>6. /\ pend' = [pend EXCEPT ![d] = Tail(pend[d])]
      /\ cache' = cache
      /\ mainq' = [mainq EXCEPT ![d] = mainq[d] \o Raised(d, o, cache'[d], pend'[d])]
      /\ inbox' = [inbox EXCEPT ![d] = Tail(inbox[d])]
      /\ applied' = [applied EXCEPT ![d] = applied[d] - 1]
      /\ UNCHANGED <<server, user, conn, regs, storage>>
  BY <1>5 DEF DeliverAck
<1>7. pend'[d] = Tail(pend[d]) /\ \A b \in Devices \ {d} : cache'[b] = cache[b] /\ pend'[b] = pend[b]
  BY <1>1, <1>6
<1>8. ASSUME NEW x \in Orders \ {o}
      PROVE  /\ View(d, x)' = View(d, x) /\ cache'[d][x] = cache[d][x]
             /\ WritesTo(pend'[d], x) # {} => WritesTo(pend[d], x) # {}
  <2>1. View(d, x)' = Overlay(cache[d], Tail(pend[d]), x)
    BY <1>6, <1>7 DEF View
  <2>2. WritesTo(pend'[d], x) # {} => WritesTo(pend[d], x) # {}
    BY <1>1, <1>3, <1>7, WritesTail
  <2> QED BY <1>1, <1>3, <1>5, <1>6, <2>1, <2>2, OverlayTailOther DEF View
<1>12. cache[d][o] # Unknown /\ cache'[d][o] # Unknown
  <2>1. 1 \in DOMAIN pend[d] /\ pend[d][1].order = o
    BY <1>1, <1>3, <1>5, LenProperties, HeadTailProperties
  <2>2. WritesTo(pend[d], o) # {}
    BY <2>1 DEF WritesTo
  <2> QED BY <1>6, <2>2 DEF IInv, NotHeard
<1>9. mainq' \in [Devices -> Seq(Event)] /\ EventsValid' /\ NotHeard' /\ Asserted'
  BY <1>6, <1>7, <1>8, <1>12, ClientStepNoneRun
<1>10. TypeOK'
  <2>1. pend' \in [Devices -> Seq(Write)]
    BY <1>1, <1>4, <1>6
  <2>2. inbox' \in [Devices -> Seq(Message)]
    BY <1>1, <1>2, <1>6
  <2>3. applied' \in [Devices -> Nat]
    BY <1>1, <1>6
  <2> QED BY <1>6, <1>9, <2>1, <2>2, <2>3 DEF IInv, TypeOK
<1>11. AppliedBound'
  <2> SUFFICES ASSUME NEW b \in Devices PROVE applied'[b] <= Len(pend'[b])
    BY DEF AppliedBound
  <2>1. applied[b] <= Len(pend[b]) /\ applied[b] \in Nat /\ Len(pend[b]) \in Nat
    BY <1>1, LenProperties DEF IInv, AppliedBound, TypeOK
  <2>2. CASE b = d
    BY <1>1, <1>4, <1>6, <1>7, <2>1, <2>2
  <2>3. CASE b # d
    BY <1>1, <1>6, <1>7, <2>1, <2>3
  <2> QED BY <2>2, <2>3
<1> QED BY <1>9, <1>10, <1>11 DEF IInv

LEMMA ServerApplyStep ==
  ASSUME IInv, NEW d \in Devices, ServerApply(d)
  PROVE  IInv'
<1> DEFINE Message == Data \cup Ack
<1>1. /\ inbox \in [Devices -> Seq(Message)]
      /\ pend[d] \in Seq(Write)
      /\ applied \in [Devices -> Nat] /\ applied[d] < Len(pend[d])
      /\ server \in [Orders -> Record]
  BY DEF IInv, TypeOK, ServerApply
<1>2. applied[d] + 1 \in 1..Len(pend[d])
  BY <1>1, LenProperties
<1>3. pend[d][applied[d] + 1] \in Write
  BY <1>1, <1>2, ElementOfSeq
<1>4. PICK o \in Orders, post \in Post : pend[d][applied[d] + 1] = [order |-> o, post |-> post]
  BY <1>3 DEF Write
<1>5. PICK news \in Seq(Message), answer \in [Devices -> Seq(Message)] :
         inbox' = [e \in Devices |->
                     IF conn[e] THEN inbox[e] \o news \o answer[e] ELSE inbox[e]]
  <2> DEFINE n == IF server[o] = post THEN <<>>
                  ELSE <<[type |-> "data", order |-> o, rec |-> post]>>
             a == [e \in Devices |-> IF e = d THEN <<[type |-> "ack"]>> ELSE <<>>]
  <2>1. [type |-> "data", order |-> o, rec |-> post] \in Message /\ [type |-> "ack"] \in Message
    BY PostFacts DEF Data, Ack
  <2>2. n \in Seq(Message) /\ a \in [Devices -> Seq(Message)]
    <3> HIDE DEF Message
    <3>1. /\ <<>> \in Seq(Message)
          /\ \A m \in Message : <<m>> \in Seq(Message)
      OBVIOUS
    <3>2. n \in Seq(Message)
      BY <2>1, <3>1
    <3>3. a \in [Devices -> Seq(Message)]
      BY <2>1, <3>1
    <3> QED BY <3>2, <3>3
  <2>3. inbox' = [e \in Devices |-> IF conn[e] THEN inbox[e] \o n \o a[e] ELSE inbox[e]]
    BY <1>4 DEF ServerApply
  <2> HIDE DEF n, a
  <2> QED BY <2>2, <2>3
<1>6. /\ server' = [server EXCEPT ![o] = post]
      /\ applied' = [applied EXCEPT ![d] = applied[d] + 1]
      /\ UNCHANGED <<user, conn, cache, pend, regs, mainq, storage>>
  BY <1>4 DEF ServerApply
<1>7. TypeOK'
  <2>1. server' \in [Orders -> Record]
    BY <1>1, <1>6, PostFacts
  <2>2. applied' \in [Devices -> Nat]
    BY <1>1, <1>6
  <2>3. ASSUME NEW e \in Devices PROVE inbox[e] \o news \o answer[e] \in Seq(Message)
    <3>1. inbox[e] \in Seq(Message) /\ answer[e] \in Seq(Message)
      BY <1>1, <1>5
    <3> HIDE DEF Message
    <3>2. inbox[e] \o news \in Seq(Message)
      BY <3>1, <1>5, ConcatProperties
    <3> QED BY <3>1, <3>2, ConcatProperties
  <2>4. inbox' \in [Devices -> Seq(Message)]
    BY <1>1, <1>5, <2>3
  <2> QED BY <1>6, <2>1, <2>2, <2>4 DEF IInv, TypeOK
<1>8. AppliedBound'
  <2> SUFFICES ASSUME NEW b \in Devices PROVE applied'[b] <= Len(pend'[b])
    BY DEF AppliedBound
  <2>1. Len(pend[b]) \in Nat /\ applied[b] <= Len(pend[b])
    BY LenProperties DEF IInv, TypeOK, AppliedBound
  <2> QED BY <1>1, <1>6, <2>1
<1>9. EventsValid'
  BY <1>6 DEF IInv, EventsValid
<1>10. NotHeard' /\ Asserted'
  BY <1>6 DEF IInv, NotHeard, Asserted, View
<1> QED BY <1>7, <1>8, <1>9, <1>10 DEF IInv

(* Steps that leave the client's view, its listeners and its queue alone.   *)
LEMMA ViewKept ==
  ASSUME IInv, UNCHANGED <<cache, pend, regs, mainq>>
  PROVE  EventsValid' /\ NotHeard' /\ Asserted'
  BY DEF IInv, EventsValid, NotHeard, Asserted, View

LEMMA DisconnectStep ==
  ASSUME IInv, NEW d \in Devices, Disconnect(d)
  PROVE  IInv'
<1>1. EventsValid' /\ NotHeard' /\ Asserted'
  BY ViewKept DEF Disconnect
<1>2. TypeOK'
  BY DEF IInv, TypeOK, Disconnect
<1>3. AppliedBound'
  <2> SUFFICES ASSUME NEW b \in Devices PROVE applied'[b] <= Len(pend'[b])
    BY DEF AppliedBound
  <2>1. Len(pend[b]) \in Nat /\ applied[b] <= Len(pend[b])
    BY LenProperties DEF IInv, TypeOK, AppliedBound
  <2> QED BY <2>1 DEF Disconnect, IInv, TypeOK
<1> QED BY <1>1, <1>2, <1>3 DEF IInv

LEMMA ReconnectStep ==
  ASSUME IInv, NEW d \in Devices, Reconnect(d)
  PROVE  IInv'
<1> DEFINE n == Cardinality(Orders)
           listing(s) == [k \in DOMAIN s |-> [type |-> "data", order |-> s[k], rec |-> server[s[k]]]]
<1>1. EventsValid' /\ NotHeard' /\ Asserted'
  BY ViewKept DEF Reconnect
<1>2. n \in Nat
  BY OrderSyncAssumption, FS_CardinalityType
<1> HIDE DEF n
<1>3. PICK s \in [1..n -> Orders] : inbox' = [inbox EXCEPT ![d] = listing(s)]
  BY DEF Reconnect, Snapshots, n
<1>4. \A k \in 1..n : [type |-> "data", order |-> s[k], rec |-> server[s[k]]] \in Data \cup Ack
  BY <1>3 DEF IInv, TypeOK, Data
<1>5. listing(s) \in Seq(Data \cup Ack)
  BY <1>2, <1>3, <1>4
<1> HIDE DEF listing
<1>6. TypeOK'
  BY <1>3, <1>5 DEF IInv, TypeOK, Reconnect
<1>7. AppliedBound'
  BY DEF IInv, AppliedBound, Reconnect
<1> QED BY <1>1, <1>6, <1>7 DEF IInv

(* Killing the app forgets the listeners with everything else.              *)
LEMMA RelaunchStep ==
  ASSUME IInv, NEW d \in Devices, Relaunch(d)
  PROVE  IInv'
<1>1. /\ \A S : <<>> \in Seq(S)
      /\ Elems(<<>>) = {} /\ Len(<<>>) = 0 /\ DOMAIN <<>> = {}
  BY DEF Elems
<1>2. TypeOK'
  <2>1. NoScreen \in Screen
    BY DEF Screen
  <2> QED BY <1>1, <2>1 DEF IInv, TypeOK, Relaunch
<1>3. /\ mainq'[d] = <<>> /\ pend'[d] = <<>> /\ applied'[d] = 0
      /\ \A o \in Orders : regs'[d][o] = <<>>
      /\ \A b \in Devices \ {d} : /\ mainq'[b] = mainq[b] /\ pend'[b] = pend[b]
                                  /\ applied'[b] = applied[b] /\ regs'[b] = regs[b]
                                  /\ cache'[b] = cache[b]
  BY DEF IInv, TypeOK, Relaunch
<1>4. EventsValid'
  BY <1>1, <1>3 DEF IInv, EventsValid
<1>5. AppliedBound'
  BY <1>1, <1>3 DEF IInv, AppliedBound
<1>7. NotHeard'
  <2> SUFFICES ASSUME NEW b \in Devices, NEW o \in Orders, cache'[b][o] = Unknown
               PROVE  WritesTo(pend'[b], o) = {} /\ \A e \in Elems(mainq'[b]) : e.order # o
    BY DEF NotHeard
  <2> QED BY <1>1, <1>3 DEF IInv, NotHeard, WritesTo
<1>6. Asserted'
  <2> SUFFICES ASSUME NEW b \in Devices, NEW o \in Orders, NEW i \in DOMAIN regs'[b][o],
                      cache'[b][o] # Unknown
               PROVE  \/ View(b, o)' = regs'[b][o][i]
                      \/ [order |-> o, reg |-> i] \in Elems(mainq'[b])
    BY DEF Asserted
  <2>1. b # d
    BY <1>1, <1>3
  <2> QED BY <1>3, <2>1 DEF IInv, Asserted, View
<1> QED BY <1>2, <1>4, <1>5, <1>6, <1>7 DEF IInv

(* Screens and sessions.                                                    *)
LEMMA ScreenStep ==
  ASSUME IInv, NEW d \in Devices,
         \/ \E o \in Orders : OpenStorageDetail(d, o)
         \/ Back(d)
         \/ Logout(d)
         \/ \E u \in Users : SignIn(d, u)
  PROVE  IInv'
<1>1. UNCHANGED <<server, conn, cache, pend, applied, inbox, regs, mainq>>
  BY DEF OpenStorageDetail, Back, Logout, SignIn
<1>2. EventsValid' /\ NotHeard' /\ Asserted'
  BY <1>1, ViewKept
<1>3. AppliedBound'
  BY <1>1 DEF IInv, AppliedBound
<1>4. user' \in [Devices -> Users \cup {NoUser}]
  BY DEF IInv, TypeOK, OpenStorageDetail, Back, Logout, SignIn
<1>5. storage' \in [Devices -> Screen]
  <2>1. NoScreen \in Screen /\ storage \in [Devices -> Screen]
    BY DEF Screen, IInv, TypeOK
  <2>2. ASSUME NEW o \in Orders
        PROVE  [open |-> TRUE, order |-> o, born |-> Len(regs[d][o])] \in Screen
    <3>1. regs[d][o] \in Seq(Post)
      BY DEF IInv, TypeOK
    <3> QED BY <3>1, LenProperties DEF Screen
  <2> QED BY <2>1, <2>2 DEF OpenStorageDetail, Back, Logout, SignIn
<1>6. TypeOK'
  BY <1>1, <1>4, <1>5 DEF IInv, TypeOK
<1> QED BY <1>2, <1>3, <1>6 DEF IInv

LEMMA NextStep == IInv /\ [Next]_vars => IInv'
<1> SUFFICES ASSUME IInv, [Next]_vars PROVE IInv'
  OBVIOUS
<1>1. CASE UNCHANGED vars
  BY <1>1 DEF vars, IInv, TypeOK, EventsValid, AppliedBound, NotHeard, Asserted, View
<1>2. CASE Next
  <2>1. PICK d \in Devices :
          \/ \E o \in Orders : GetNew(d, o)
          \/ DeleteProduct(d)
          \/ RunCallback(d)
          \/ ServerApply(d)
          \/ DeliverData(d)
          \/ DeliverAck(d)
          \/ Disconnect(d)
          \/ Reconnect(d)
          \/ Relaunch(d)
          \/ \/ \E o \in Orders : OpenStorageDetail(d, o)
             \/ Back(d)
             \/ Logout(d)
             \/ \E u \in Users : SignIn(d, u)
    BY <1>2 DEF Next
  <2>2. ASSUME NEW o \in Orders, GetNew(d, o) PROVE IInv'
    <3>1. user[d] \in Users
      BY <2>2 DEF GetNew, IInv, TypeOK
    <3>2. PICK post \in Post : post = TakenBy(user[d])
      BY <3>1, PostFacts
    <3> QED BY <2>2, <3>2, RegisterStep DEF GetNew
  <2>3. ASSUME DeleteProduct(d) PROVE IInv'
    <3>1. PICK o \in Orders : o = storage[d].order
      <4>1. storage[d] \in Screen /\ storage[d].open
        BY <2>3 DEF DeleteProduct, IInv, TypeOK
      <4>2. ~NoScreen.open
        BY DEF NoScreen
      <4>3. storage[d] \in [open : {TRUE}, order : Orders, born : Nat]
        BY <4>1, <4>2 DEF Screen
      <4> QED BY <4>3
    <3> QED BY <2>3, <3>1, PostFacts, RegisterStep DEF DeleteProduct
  <2> QED BY <2>1, <2>2, <2>3, RunCallbackStep, ServerApplyStep, DeliverDataStep,
             DeliverAckStep, DisconnectStep, ReconnectStep, RelaunchStep, ScreenStep
<1> QED BY <1>1, <1>2

LEMMA Inductive == Spec => []IInv
  BY InitIInv, NextStep, PTL DEF Spec
-----------------------------------------------------------------------------
(* Types of every variable, in every reachable state.                       *)
THEOREM TypeCorrect == Spec => []TypeOK
<1>1. IInv => TypeOK
  BY DEF IInv
<1> QED BY <1>1, Inductive, PTL

(* The listener a tap leaves behind (PresenterDetailNewController.swift,    *)
(* StorageDetailControllerPresenter.swift) is never out-voted for good:     *)
(* from the moment its phone has the record, the phone shows what it writes *)
(* or is about to write it again; before that it has written nothing.       *)
THEOREM ListenerHasLastWord == Spec => []LastWord
<1>1. IInv => LastWord
  BY AssertedIsLastWord DEF IInv
<1> QED BY <1>1, Inductive, PTL

(* Two taps that write different things leave a phone that never comes to   *)
(* rest: both cannot be what is shown, so one has an event in the queue.    *)
THEOREM EchoNeverStops == Spec => []EchoNeverDrains
<1>1. ASSUME IInv, NEW d \in Devices, NEW o \in Orders,
             NEW i \in DOMAIN regs[d][o], NEW j \in DOMAIN regs[d][o],
             regs[d][o][i] # regs[d][o][j], cache[d][o] # Unknown
      PROVE  mainq[d] # <<>>
  <2>1. \/ [order |-> o, reg |-> i] \in Elems(mainq[d])
        \/ [order |-> o, reg |-> j] \in Elems(mainq[d])
    BY <1>1 DEF IInv, Asserted
  <2>2. Elems(<<>>) = {}
    BY DEF Elems
  <2> QED BY <2>1, <2>2
<1>2. IInv => EchoNeverDrains
  BY <1>1 DEF EchoNeverDrains
<1> QED BY <1>2, Inductive, PTL

(* The apps and the database together are the last-writer-wins board of     *)
(* OrderBoard: no lost connection, repeated write, relaunch or listener     *)
(* ever does to a record anything but one Take or PutBack.                  *)
THEOREM ImplementsLastWriterBoard == Spec => LastWriterBoard
<1>1. Init => Board!BoardInit
  BY DEF Init, Board!BoardInit, Posted
<1>2. ASSUME IInv, [Next]_vars PROVE [Board!BoardNext]_server
  <2>1. ASSUME NEW d \in Devices, ServerApply(d) PROVE Board!BoardNext
    <3>1. pend[d] \in Seq(Write) /\ applied[d] \in Nat /\ applied[d] < Len(pend[d])
      BY <1>2, <2>1 DEF IInv, TypeOK, ServerApply
    <3>2. pend[d][applied[d] + 1] \in Write
      BY <3>1, LenProperties, ElementOfSeq
    <3>3. PICK o \in Orders, post \in Post :
             pend[d][applied[d] + 1] = [order |-> o, post |-> post]
      BY <3>2 DEF Write
    <3>4. server' = [server EXCEPT ![o] = post]
      BY <2>1, <3>3 DEF ServerApply
    <3>5. CASE post = Released
      BY <3>4, <3>5 DEF Board!BoardNext, Board!PutBack, Released
    <3>6. CASE post # Released
      <4>1. PICK u \in Users : post = TakenBy(u)
        BY <3>6 DEF Post
      <4> QED BY <3>4, <4>1 DEF Board!BoardNext, Board!Take, TakenBy
    <3> QED BY <3>5, <3>6
  <2>2. ASSUME ~\E d \in Devices : ServerApply(d) PROVE server' = server
    BY <1>2, <2>2 DEF Next, vars, GetNew, OpenStorageDetail, Back, DeleteProduct, RunCallback,
       DeliverData, DeliverAck, Disconnect, Reconnect, Relaunch, Logout, SignIn
  <2> QED BY <2>1, <2>2
<1> QED BY <1>1, <1>2, Inductive, PTL DEF Spec, LastWriterBoard, Board!BoardSpec
-----------------------------------------------------------------------------
(* What is under way between the database and a phone, and what follows     *)
(* once nothing is.                                                         *)
Message == Data \cup Ack

(* The messages under way to one phone: news of an order, acknowledgements. *)
NewsIn(q, o) == {k \in DOMAIN q : q[k].type = "data" /\ q[k].order = o}
AcksIn(q)    == {k \in DOMAIN q : q[k].type = "ack"}

(* A phone that holds c of an order will hold v once q is delivered: the    *)
(* last news of the order in q carries v, or there is none and c is v.      *)
Carries(q, o, c, v) ==
  /\ NewsIn(q, o) = {} => c = v
  /\ \A k \in NewsIn(q, o) : (\A j \in NewsIn(q, o) : j <= k) => q[k].rec = v

(* The inductive invariant, with IInv: a connection that is down carries    *)
(* nothing, each acknowledgement under way is counted in applied, and what  *)
(* is under way to a connected phone ends with the server's record.         *)
DownIsEmpty   == \A d \in Devices : ~conn[d] => inbox[d] = <<>> /\ applied[d] = 0
AcksCounted   == \A d \in Devices : Cardinality(AcksIn(inbox[d])) = applied[d]
InboxCatchesUp == \A d \in Devices, o \in Orders :
  conn[d] => Carries(inbox[d], o, cache[d][o], server[o])
NetInv == DownIsEmpty /\ AcksCounted /\ InboxCatchesUp
-----------------------------------------------------------------------------
(* Sending a message, and delivering the oldest.                            *)

LEMMA AppendAt ==
  ASSUME NEW q \in Seq(Message), NEW m \in Message
  PROVE  /\ Append(q, m) \in Seq(Message)
         /\ Len(q) \in Nat /\ DOMAIN q = 1..Len(q)
         /\ DOMAIN Append(q, m) = 1..Len(q) + 1
         /\ Append(q, m)[Len(q) + 1] = m
         /\ \A k \in 1..Len(q) : Append(q, m)[k] = q[k]
  BY AppendProperties, LenProperties

LEMMA TailAt ==
  ASSUME NEW q \in Seq(Message), q # <<>>
  PROVE  /\ Tail(q) \in Seq(Message) /\ Head(q) \in Message /\ Head(q) = q[1]
         /\ Len(q) \in Nat \ {0} /\ DOMAIN q = 1..Len(q)
         /\ DOMAIN Tail(q) = 1..Len(q) - 1
         /\ \A k \in 1..Len(q) - 1 : Tail(q)[k] = q[k + 1]
  BY HeadTailProperties, LenProperties

LEMMA CarriesKept ==
  ASSUME NEW q \in Seq(Message), NEW m \in Message, NEW o, NEW c, NEW v,
         ~(m.type = "data" /\ m.order = o), Carries(q, o, c, v)
  PROVE  Carries(Append(q, m), o, c, v)
<1> DEFINE s == Append(q, m)
<1>1. /\ Len(q) \in Nat /\ DOMAIN q = 1..Len(q) /\ DOMAIN s = 1..Len(q) + 1
      /\ s[Len(q) + 1] = m /\ \A k \in 1..Len(q) : s[k] = q[k]
  BY AppendAt
<1> HIDE DEF s
<1>2. NewsIn(s, o) = NewsIn(q, o)
  BY <1>1 DEF NewsIn
<1>3. \A k \in NewsIn(q, o) : s[k] = q[k]
  BY <1>1 DEF NewsIn
<1>4. Carries(s, o, c, v)
  BY <1>2, <1>3 DEF Carries
<1> QED BY <1>4 DEF s

LEMMA CarriesNews ==
  ASSUME NEW q \in Seq(Message), NEW m \in Message, NEW o, NEW c,
         m.type = "data", m.order = o
  PROVE  Carries(Append(q, m), o, c, m.rec)
<1> DEFINE s == Append(q, m)
           n == Len(q) + 1
<1>1. Len(q) \in Nat /\ DOMAIN s = 1..n /\ s[n] = m
  BY AppendAt
<1> HIDE DEF s
<1>2. n \in NewsIn(s, o) /\ NewsIn(s, o) \subseteq 1..n
  BY <1>1 DEF NewsIn
<1>3. ASSUME NEW k \in NewsIn(s, o), \A j \in NewsIn(s, o) : j <= k PROVE k = n
  BY <1>1, <1>2, <1>3
<1>4. Carries(s, o, c, m.rec)
  BY <1>1, <1>2, <1>3 DEF Carries
<1> QED BY <1>4 DEF s

LEMMA CarriesTail ==
  ASSUME NEW q \in Seq(Message), q # <<>>, NEW o, NEW c, NEW v, Carries(q, o, c, v)
  PROVE  /\ Head(q).type = "data" /\ Head(q).order = o => Carries(Tail(q), o, Head(q).rec, v)
         /\ ~(Head(q).type = "data" /\ Head(q).order = o) => Carries(Tail(q), o, c, v)
<1> DEFINE s == Tail(q)
<1>1. /\ Len(q) \in Nat \ {0} /\ DOMAIN q = 1..Len(q) /\ DOMAIN s = 1..Len(q) - 1
      /\ Head(q) = q[1] /\ \A k \in 1..Len(q) - 1 : s[k] = q[k + 1]
  BY TailAt
<1> HIDE DEF s
<1>2. \A k \in NewsIn(s, o) : k \in Nat /\ k + 1 \in NewsIn(q, o) /\ s[k] = q[k + 1]
  BY <1>1 DEF NewsIn
<1>3. \A k \in NewsIn(q, o) : k \in Nat /\ (k = 1 \/ k - 1 \in NewsIn(s, o))
  BY <1>1 DEF NewsIn
<1>4. 1 \in NewsIn(q, o) <=> Head(q).type = "data" /\ Head(q).order = o
  BY <1>1 DEF NewsIn
<1>5. ASSUME NEW k \in NewsIn(s, o), \A j \in NewsIn(s, o) : j <= k
      PROVE  s[k].rec = v
  <2>1. k + 1 \in NewsIn(q, o) /\ k \in Nat
    BY <1>2
  <2>2. k >= 1
    BY <1>1, <1>5 DEF NewsIn
  <2>3. \A j \in NewsIn(q, o) : j <= k + 1
    BY <1>3, <1>5, <2>1, <2>2
  <2> QED BY <1>2, <2>1, <2>3 DEF Carries
<1>6. CASE NewsIn(s, o) # {}
  BY <1>5, <1>6 DEF Carries, s
<1>7. CASE NewsIn(s, o) = {}
  <2>1. \A k \in NewsIn(q, o) : k = 1
    BY <1>3, <1>7
  <2>2. CASE 1 \in NewsIn(q, o)
    <3>1. q[1].rec = v
      BY <2>1, <2>2 DEF Carries
    <3> QED BY <1>1, <1>4, <1>7, <2>2, <3>1 DEF Carries, s
  <2>3. CASE 1 \notin NewsIn(q, o)
    <3>1. NewsIn(q, o) = {}
      BY <2>1, <2>3
    <3> QED BY <1>4, <1>7, <2>3, <3>1 DEF Carries, s
  <2> QED BY <2>2, <2>3
<1> QED BY <1>6, <1>7

LEMMA AcksFinite ==
  ASSUME NEW q \in Seq(Message)
  PROVE  IsFiniteSet(AcksIn(q)) /\ Cardinality(AcksIn(q)) \in Nat
<1>1. Len(q) \in Nat /\ AcksIn(q) \subseteq 1..Len(q)
  BY LenProperties DEF AcksIn
<1>2. IsFiniteSet(1..Len(q))
  BY <1>1, FS_Interval
<1>3. IsFiniteSet(AcksIn(q))
  BY <1>1, <1>2, FS_Subset
<1> QED BY <1>3, FS_CardinalityType

LEMMA AcksAppend ==
  ASSUME NEW q \in Seq(Message), NEW m \in Message
  PROVE  Cardinality(AcksIn(Append(q, m))) =
           Cardinality(AcksIn(q)) + IF m.type = "ack" THEN 1 ELSE 0
<1> DEFINE s == Append(q, m)
           n == Len(q) + 1
<1>1. /\ Len(q) \in Nat /\ DOMAIN q = 1..Len(q) /\ DOMAIN s = 1..n
      /\ s[n] = m /\ \A k \in 1..Len(q) : s[k] = q[k]
  BY AppendAt
<1> HIDE DEF s
<1>2. n \notin AcksIn(q)
  BY <1>1 DEF AcksIn
<1>3. IsFiniteSet(AcksIn(q)) /\ Cardinality(AcksIn(q)) \in Nat
  BY AcksFinite
<1>4. CASE m.type = "ack"
  <2>1. AcksIn(s) = AcksIn(q) \cup {n}
    BY <1>1, <1>4 DEF AcksIn
  <2>2. Cardinality(AcksIn(q) \cup {n}) = Cardinality(AcksIn(q)) + 1
    BY <1>2, <1>3, FS_AddElement
  <2> QED BY <1>4, <2>1, <2>2 DEF s
<1>5. CASE m.type # "ack"
  <2>1. AcksIn(s) = AcksIn(q)
    BY <1>1, <1>5 DEF AcksIn
  <2> QED BY <1>3, <1>5, <2>1 DEF s
<1> QED BY <1>4, <1>5

LEMMA AcksTail ==
  ASSUME NEW q \in Seq(Message), q # <<>>
  PROVE  Cardinality(AcksIn(Tail(q))) =
           Cardinality(AcksIn(q)) - IF Head(q).type = "ack" THEN 1 ELSE 0
<1> DEFINE s == Tail(q)
           T == AcksIn(q) \ {1}
           f == [k \in AcksIn(s) |-> k + 1]
<1>1. /\ s \in Seq(Message) /\ Len(q) \in Nat \ {0} /\ DOMAIN q = 1..Len(q)
      /\ DOMAIN s = 1..Len(q) - 1
      /\ Head(q) = q[1] /\ \A k \in 1..Len(q) - 1 : s[k] = q[k + 1]
  BY TailAt
<1> HIDE DEF s
<1>2. \A k \in AcksIn(s) : k \in Nat /\ k + 1 \in T
  BY <1>1 DEF AcksIn
<1>3. \A k \in T : k \in Nat /\ k - 1 \in AcksIn(s)
  BY <1>1 DEF AcksIn
<1>4. f \in Injection(AcksIn(s), T)
  BY <1>2 DEF Injection, IsInjective
<1>5. f \in Surjection(AcksIn(s), T)
  <2>1. f \in [AcksIn(s) -> T]
    BY <1>2
  <2>2. \A t \in T : \E k \in AcksIn(s) : f[k] = t
    BY <1>3
  <2> QED BY <2>1, <2>2 DEF Surjection
<1>6. ExistsBijection(AcksIn(s), T)
  BY <1>4, <1>5 DEF ExistsBijection, Bijection
<1>7. IsFiniteSet(AcksIn(s)) /\ Cardinality(AcksIn(s)) \in Nat
  BY <1>1, AcksFinite
<1>8. Cardinality(T) = Cardinality(AcksIn(s))
  BY <1>6, <1>7, FS_Bijection
<1>9. IsFiniteSet(AcksIn(q)) /\ Cardinality(AcksIn(q)) \in Nat
  BY AcksFinite
<1>10. Cardinality(T) = IF 1 \in AcksIn(q) THEN Cardinality(AcksIn(q)) - 1 ELSE Cardinality(AcksIn(q))
  BY <1>9, FS_RemoveElement
<1>11. 1 \in AcksIn(q) <=> Head(q).type = "ack"
  BY <1>1 DEF AcksIn
<1> HIDE DEF T
<1>12. Cardinality(AcksIn(s)) = Cardinality(AcksIn(q)) - IF Head(q).type = "ack" THEN 1 ELSE 0
  BY <1>8, <1>9, <1>10, <1>11
<1> QED BY <1>12 DEF s
-----------------------------------------------------------------------------
(* Each operation preserves the invariant.                                  *)

LEMMA InitNetInv == Init => NetInv
<1> SUFFICES ASSUME Init PROVE NetInv
  OBVIOUS
<1>1. AcksIn(<<>>) = {} /\ Cardinality({}) = 0
  BY FS_EmptySet DEF AcksIn
<1> QED BY <1>1 DEF Init, NetInv, DownIsEmpty, AcksCounted, InboxCatchesUp

(* Steps that send nothing and deliver nothing.                             *)
LEMMA NetKept ==
  ASSUME NetInv, UNCHANGED <<server, conn, cache, applied, inbox>>
  PROVE  NetInv'
  BY DEF NetInv, DownIsEmpty, AcksCounted, InboxCatchesUp

(* A step of d alone: the other phones' connections are as they were.       *)
LEMMA NetStepOf ==
  ASSUME NetInv, NEW d \in Devices, server' = server,
         \A b \in Devices \ {d} : /\ conn'[b] = conn[b] /\ inbox'[b] = inbox[b]
                                  /\ applied'[b] = applied[b] /\ cache'[b] = cache[b],
         ~conn'[d] => inbox'[d] = <<>> /\ applied'[d] = 0,
         Cardinality(AcksIn(inbox'[d])) = applied'[d],
         \A o \in Orders : conn'[d] => Carries(inbox'[d], o, cache'[d][o], server[o])
  PROVE  NetInv'
<1>1. ASSUME NEW b \in Devices
      PROVE  /\ ~conn'[b] => inbox'[b] = <<>> /\ applied'[b] = 0
             /\ Cardinality(AcksIn(inbox'[b])) = applied'[b]
             /\ \A o \in Orders : conn'[b] => Carries(inbox'[b], o, cache'[b][o], server[o])
  <2>1. CASE b = d
    BY <2>1
  <2>2. CASE b # d
    <3>1. b \in Devices \ {d}
      BY <2>2
    <3> QED BY <3>1 DEF NetInv, DownIsEmpty, AcksCounted, InboxCatchesUp
  <2> QED BY <2>1, <2>2
<1>2. DownIsEmpty' /\ AcksCounted'
  BY <1>1 DEF DownIsEmpty, AcksCounted
<1>3. InboxCatchesUp'
  BY <1>1 DEF InboxCatchesUp
<1> QED BY <1>2, <1>3 DEF NetInv

LEMMA NetDeliverData ==
  ASSUME IInv, NetInv, NEW d \in Devices, DeliverData(d)
  PROVE  NetInv'
<1>1. /\ inbox \in [Devices -> Seq(Message)] /\ inbox[d] # <<>> /\ Head(inbox[d]).type = "data"
      /\ cache \in [Devices -> [Orders -> Record \cup {Unknown}]]
  BY DEF IInv, TypeOK, DeliverData, Message
<1>2. PICK q \in Seq(Message) : q = inbox[d]
  BY <1>1
<1>3. PICK m \in Message : m = Head(q) /\ m.type = "data"
  BY <1>1, <1>2, TailAt
<1>4. m \in Data
  BY <1>3 DEF Message, Ack
<1>5. m.order \in Orders
  BY <1>4 DEF Data
<1>6. /\ cache' = [cache EXCEPT ![d][m.order] = m.rec]
      /\ inbox' = [inbox EXCEPT ![d] = Tail(q)]
      /\ UNCHANGED <<server, conn, applied>>
  BY <1>2, <1>3 DEF DeliverData
<1>7. /\ inbox'[d] = Tail(q) /\ \A b \in Devices \ {d} : inbox'[b] = inbox[b] /\ cache'[b] = cache[b]
      /\ cache'[d][m.order] = m.rec /\ \A o \in Orders \ {m.order} : cache'[d][o] = cache[d][o]
  BY <1>1, <1>5, <1>6
<1>8. conn[d] /\ Cardinality(AcksIn(q)) = applied[d] /\ q # <<>>
  BY <1>1, <1>2 DEF NetInv, DownIsEmpty, AcksCounted
<1>9. Cardinality(AcksIn(Tail(q))) = applied[d]
  <2>1. Cardinality(AcksIn(q)) \in Nat
    BY AcksFinite
  <2> QED BY <1>3, <1>8, <2>1, AcksTail
<1>10. ASSUME NEW o \in Orders PROVE Carries(Tail(q), o, cache'[d][o], server[o])
  <2>1. Carries(q, o, cache[d][o], server[o])
    BY <1>2, <1>8 DEF NetInv, InboxCatchesUp
  <2>2. CASE m.order = o
    BY <1>3, <1>7, <1>8, <2>1, <2>2, CarriesTail
  <2>3. CASE m.order # o
    BY <1>3, <1>7, <1>8, <2>1, <2>3, CarriesTail
  <2> QED BY <2>2, <2>3
<1> QED BY <1>6, <1>7, <1>8, <1>9, <1>10, NetStepOf

LEMMA NetDeliverAck ==
  ASSUME IInv, NetInv, NEW d \in Devices, DeliverAck(d)
  PROVE  NetInv'
<1>1. /\ inbox \in [Devices -> Seq(Message)] /\ inbox[d] # <<>> /\ Head(inbox[d]).type = "ack"
      /\ applied \in [Devices -> Nat]
  BY DEF IInv, TypeOK, DeliverAck, Message
<1>2. PICK q \in Seq(Message) : q = inbox[d]
  BY <1>1
<1>3. /\ inbox' = [inbox EXCEPT ![d] = Tail(q)]
      /\ applied' = [applied EXCEPT ![d] = applied[d] - 1]
      /\ UNCHANGED <<server, conn, cache>>
  BY <1>2 DEF DeliverAck
<1>4. /\ inbox'[d] = Tail(q) /\ applied'[d] = applied[d] - 1
      /\ \A b \in Devices \ {d} : inbox'[b] = inbox[b] /\ applied'[b] = applied[b]
  BY <1>1, <1>3
<1>5. conn[d] /\ Cardinality(AcksIn(q)) = applied[d] /\ q # <<>>
  BY <1>1, <1>2 DEF NetInv, DownIsEmpty, AcksCounted
<1>6. Cardinality(AcksIn(Tail(q))) = applied[d] - 1
  BY <1>1, <1>2, <1>5, AcksTail
<1>7. ASSUME NEW o \in Orders PROVE Carries(Tail(q), o, cache[d][o], server[o])
  <2>1. Carries(q, o, cache[d][o], server[o])
    BY <1>2, <1>5 DEF NetInv, InboxCatchesUp
  <2> QED BY <1>1, <1>2, <1>5, <2>1, CarriesTail
<1> QED BY <1>3, <1>4, <1>5, <1>6, <1>7, NetStepOf

(* The server tells every connected phone of a change, then acknowledges.   *)
LEMMA NetServerApply ==
  ASSUME IInv, NetInv, NEW d \in Devices, ServerApply(d)
  PROVE  NetInv'
<1>1. /\ inbox \in [Devices -> Seq(Message)]
      /\ conn \in [Devices -> BOOLEAN]
      /\ pend[d] \in Seq(Write) /\ applied \in [Devices -> Nat] /\ applied[d] < Len(pend[d])
      /\ server \in [Orders -> Record] /\ conn[d]
  BY DEF IInv, TypeOK, ServerApply, Message
<1>2. pend[d][applied[d] + 1] \in Write
  BY <1>1, LenProperties, ElementOfSeq
<1>3. PICK x \in Orders, post \in Post : pend[d][applied[d] + 1] = [order |-> x, post |-> post]
  BY <1>2 DEF Write
<1>4. PICK m \in Message, a \in Message :
         m = [type |-> "data", order |-> x, rec |-> post] /\ a = [type |-> "ack"]
  BY PostFacts DEF Message, Data, Ack
<1>5. PICK news \in {<<>>, <<m>>} :
         /\ news = IF server[x] = post THEN <<>> ELSE <<m>>
         /\ inbox' = [e \in Devices |->
              IF conn[e] THEN inbox[e] \o news \o (IF e = d THEN <<a>> ELSE <<>>) ELSE inbox[e]]
  <2> DEFINE n == IF server[x] = post THEN <<>> ELSE <<m>>
  <2>1. inbox' = [e \in Devices |->
              IF conn[e] THEN inbox[e] \o n \o (IF e = d THEN <<a>> ELSE <<>>) ELSE inbox[e]]
    BY <1>3, <1>4 DEF ServerApply
  <2>2. n \in {<<>>, <<m>>} /\ n = IF server[x] = post THEN <<>> ELSE <<m>>
    OBVIOUS
  <2> HIDE DEF n
  <2> QED BY <2>1, <2>2
<1>6. /\ server' = [server EXCEPT ![x] = post]
      /\ applied' = [applied EXCEPT ![d] = applied[d] + 1]
      /\ UNCHANGED <<conn, cache>>
  BY <1>3 DEF ServerApply
<1>7. /\ server'[x] = post /\ \A o \in Orders \ {x} : server'[o] = server[o]
      /\ applied'[d] = applied[d] + 1 /\ \A b \in Devices \ {d} : applied'[b] = applied[b]
  BY <1>1, <1>6
<1>8. ASSUME NEW e \in Devices, conn[e]
      PROVE  /\ Cardinality(AcksIn(inbox'[e])) = applied'[e]
             /\ \A o \in Orders : Carries(inbox'[e], o, cache[e][o], server'[o])
  <2>1. PICK q \in Seq(Message) : q = inbox[e]
    BY <1>1
  <2>2. PICK r \in Seq(Message) : r = IF server[x] = post THEN q ELSE Append(q, m)
    BY AppendAt
  <2>3. q \o news = r
    BY <1>5, <2>2, ConcatEmptySeq, AppendIsConcat
  <2>4. PICK s \in Seq(Message) : s = IF e = d THEN Append(r, a) ELSE r
    BY AppendAt
  <2>5. inbox'[e] = s
    <3>1. inbox'[e] = r \o (IF e = d THEN <<a>> ELSE <<>>)
      BY <1>5, <1>8, <2>1, <2>3
    <3> QED BY <2>4, <3>1, ConcatEmptySeq, AppendIsConcat
  <2>6. Cardinality(AcksIn(s)) = applied'[e]
    <3>1. Cardinality(AcksIn(q)) = applied[e] /\ applied[e] \in Nat
      BY <1>1, <2>1 DEF NetInv, AcksCounted
    <3>2. Cardinality(AcksIn(r)) = applied[e]
      BY <1>4, <2>2, <3>1, AcksAppend
    <3>3. CASE e = d
      BY <1>4, <1>7, <2>4, <3>1, <3>2, <3>3, AcksAppend
    <3>4. CASE e # d
      BY <1>7, <2>4, <3>2, <3>4
    <3> QED BY <3>3, <3>4
  <2>7. ASSUME NEW o \in Orders PROVE Carries(s, o, cache[e][o], server'[o])
    <3>1. Carries(q, o, cache[e][o], server[o])
      BY <1>8, <2>1 DEF NetInv, InboxCatchesUp
    <3>2. Carries(r, o, cache[e][o], server'[o])
      <4>1. CASE server[x] = post
        BY <1>7, <2>2, <3>1, <4>1
      <4>2. CASE server[x] # post /\ o = x
        <5>1. Carries(Append(q, m), o, cache[e][o], m.rec)
          BY <1>4, <4>2, CarriesNews
        <5> QED BY <1>4, <1>7, <2>2, <4>2, <5>1
      <4>3. CASE server[x] # post /\ o # x
        <5>1. Carries(Append(q, m), o, cache[e][o], server[o])
          BY <1>4, <3>1, <4>3, CarriesKept
        <5> QED BY <1>7, <2>2, <4>3, <5>1
      <4> QED BY <4>1, <4>2, <4>3
    <3>3. ~(a.type = "data" /\ a.order = o)
      BY <1>4
    <3> QED BY <2>4, <3>2, <3>3, CarriesKept
  <2> QED BY <2>5, <2>6, <2>7
<1>9. ASSUME NEW e \in Devices, ~conn[e]
      PROVE  inbox'[e] = <<>> /\ applied'[e] = 0 /\ Cardinality(AcksIn(inbox'[e])) = applied'[e]
  <2>1. e # d /\ inbox'[e] = inbox[e]
    BY <1>1, <1>5, <1>9
  <2> QED BY <1>7, <1>9, <2>1 DEF NetInv, DownIsEmpty, AcksCounted
<1>10. DownIsEmpty'
  BY <1>6, <1>9 DEF DownIsEmpty
<1>11. AcksCounted'
  BY <1>8, <1>9 DEF AcksCounted
<1>12. InboxCatchesUp'
  BY <1>6, <1>8 DEF InboxCatchesUp
<1> QED BY <1>10, <1>11, <1>12 DEF NetInv

(* A connection that closes, or an app that is killed, leaves nothing.      *)
LEMMA NetDown ==
  ASSUME IInv, NetInv, NEW d \in Devices, Disconnect(d) \/ Relaunch(d)
  PROVE  NetInv'
<1>1. AcksIn(<<>>) = {} /\ Cardinality({}) = 0
  BY FS_EmptySet DEF AcksIn
<1>2. /\ server' = server /\ ~conn'[d] /\ inbox'[d] = <<>> /\ applied'[d] = 0
      /\ \A b \in Devices \ {d} : /\ conn'[b] = conn[b] /\ inbox'[b] = inbox[b]
                                   /\ applied'[b] = applied[b] /\ cache'[b] = cache[b]
  BY DEF IInv, TypeOK, Disconnect, Relaunch
<1> QED BY <1>1, <1>2, NetStepOf

(* Listening again is answered with every record as it is now.              *)
LEMMA NetReconnect ==
  ASSUME IInv, NetInv, NEW d \in Devices, Reconnect(d)
  PROVE  NetInv'
<1>1. PICK s \in Snapshots :
         inbox' = [inbox EXCEPT ![d] =
           [k \in DOMAIN s |-> [type |-> "data", order |-> s[k], rec |-> server[s[k]]]]]
  BY DEF Reconnect
<1> DEFINE q == [k \in DOMAIN s |-> [type |-> "data", order |-> s[k], rec |-> server[s[k]]]]
<1>2. /\ DOMAIN q = DOMAIN s /\ \A o \in Orders : \E k \in DOMAIN s : s[k] = o
      /\ \A k \in DOMAIN s : q[k].type = "data" /\ q[k].order = s[k] /\ q[k].rec = server[s[k]]
  BY DEF Snapshots
<1> HIDE DEF q
<1>3. /\ server' = server /\ conn'[d] /\ inbox'[d] = q /\ applied'[d] = applied[d] /\ applied[d] = 0
      /\ cache' = cache
      /\ \A b \in Devices \ {d} : /\ conn'[b] = conn[b] /\ inbox'[b] = inbox[b]
                                   /\ applied'[b] = applied[b] /\ cache'[b] = cache[b]
  BY <1>1 DEF IInv, TypeOK, NetInv, DownIsEmpty, Reconnect, q
<1>4. Cardinality(AcksIn(q)) = 0
  <2>1. AcksIn(q) = {}
    BY <1>2 DEF AcksIn
  <2> QED BY <2>1, FS_EmptySet
<1>5. ASSUME NEW o \in Orders PROVE Carries(q, o, cache[d][o], server[o])
  BY <1>2 DEF Carries, NewsIn
<1> QED BY <1>3, <1>4, <1>5, NetStepOf

LEMMA NetNextStep == IInv /\ NetInv /\ [Next]_vars => NetInv'
<1> SUFFICES ASSUME IInv, NetInv, [Next]_vars PROVE NetInv'
  OBVIOUS
<1>1. CASE UNCHANGED vars
  BY <1>1, NetKept DEF vars
<1>2. CASE Next
  <2>1. PICK d \in Devices :
          \/ \/ \E o \in Orders : GetNew(d, o)
             \/ \E o \in Orders : OpenStorageDetail(d, o)
             \/ Back(d) \/ DeleteProduct(d) \/ RunCallback(d) \/ Logout(d)
             \/ \E u \in Users : SignIn(d, u)
          \/ ServerApply(d)
          \/ DeliverData(d)
          \/ DeliverAck(d)
          \/ Disconnect(d) \/ Relaunch(d)
          \/ Reconnect(d)
    BY <1>2 DEF Next
  <2>2. ASSUME \/ \E o \in Orders : GetNew(d, o)
               \/ \E o \in Orders : OpenStorageDetail(d, o)
               \/ Back(d) \/ DeleteProduct(d) \/ RunCallback(d) \/ Logout(d)
               \/ \E u \in Users : SignIn(d, u)
        PROVE  NetInv'
    <3>1. UNCHANGED <<server, conn, cache, applied, inbox>>
      BY <2>2 DEF GetNew, OpenStorageDetail, Back, DeleteProduct, RunCallback, Logout, SignIn
    <3> QED BY <3>1, NetKept
  <2> QED BY <2>1, <2>2, NetServerApply, NetDeliverData, NetDeliverAck, NetDown, NetReconnect
<1> QED BY <1>1, <1>2

LEMMA NetInductive == Spec => [](IInv /\ NetInv)
<1>1. IInv /\ NetInv /\ [Next]_vars => (IInv /\ NetInv)'
  BY NextStep, NetNextStep
<1> QED BY <1>1, InitIInv, InitNetInv, PTL DEF Spec
-----------------------------------------------------------------------------
(* A connected phone with no news of an order under way holds the record    *)
(* the database has, whatever was lost, repeated or restarted before        *)
(* (FPersistentConnection.m restoreState).                                  *)
THEOREM CacheHoldsRecord == Spec => []CacheCatchesUp
<1>1. \A d \in Devices, o \in Orders : News(d, o) = NewsIn(inbox[d], o)
  BY DEF News, NewsIn
<1>2. NetInv => CacheCatchesUp
  BY <1>1 DEF NetInv, InboxCatchesUp, Carries, CacheCatchesUp
<1> QED BY <1>2, NetInductive, PTL

(* Every acknowledgement under way is for a write the phone still holds:    *)
(* the client can take it for the oldest one it sent.                       *)
THEOREM AcksAreForWrites == Spec => []AcksAnswerWrites
<1>1. \A d \in Devices : Acks(d) = AcksIn(inbox[d])
  BY DEF Acks, AcksIn
<1>2. IInv /\ NetInv => AcksAnswerWrites
  BY <1>1 DEF IInv, AppliedBound, NetInv, AcksCounted, AcksAnswerWrites
<1> QED BY <1>2, NetInductive, PTL

(* When every phone has come to rest the record is what every listener      *)
(* writes: of two shippers who took one order, neither being told that the  *)
(* other has it, at least one phone keeps writing.                          *)
THEOREM RestMeansAgreement == Spec => []QuietMeansAgreed
<1>1. ASSUME IInv, NetInv, \A d \in Devices : Idle(d),
             NEW d \in Devices, NEW o \in Orders, NEW i \in DOMAIN regs[d][o]
      PROVE  server[o] = regs[d][o][i]
  <2>1. conn[d] /\ pend[d] = <<>> /\ inbox[d] = <<>> /\ mainq[d] = <<>>
    BY <1>1 DEF Idle
  <2>2. View(d, o) = regs[d][o][i]
    <3>1. Elems(<<>>) = {}
      BY DEF Elems
    <3>2. cache[d][o] # Unknown
      <4>1. cache[d][o] = server[o]
        BY <1>1, <2>1 DEF NetInv, InboxCatchesUp, Carries, NewsIn
      <4> QED BY <1>1, <4>1, UnknownFacts DEF IInv, TypeOK
    <3> QED BY <1>1, <2>1, <3>1, <3>2 DEF IInv, Asserted
  <2>3. View(d, o) = cache[d][o]
    BY <2>1 DEF View, Overlay, WritesTo
  <2>4. cache[d][o] = server[o]
    BY <1>1, <2>1 DEF NetInv, InboxCatchesUp, Carries, NewsIn
  <2> QED BY <2>2, <2>3, <2>4
<1>2. IInv /\ NetInv => QuietMeansAgreed
  BY <1>1 DEF QuietMeansAgreed
<1> QED BY <1>2, NetInductive, PTL
=============================================================================
