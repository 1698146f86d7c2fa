------------------------------ MODULE SessionsProofs ------------------------------
(***************************************************************************)
(* Proofs about the sessions of the two apps: a person is registered once, *)
(* only members are inside, and the account that is inside is the latest   *)
(* to sign in, now and at the next launch, for any number of persons.      *)
(***************************************************************************)
EXTENDS Sessions, SelectionProofs

(* Who has a Login record, somewhere, or had one that went down with a      *)
(* phone.  It only grows.                                                   *)
Members == logins \cup outbox \cup lost

(* What may be queued for the main thread when M are the members.           *)
Honest(M) == [type : {"value"}, who : Persons, members : SUBSET M]
             \cup [type : {"enter", "open"}, who : M]

--------------------------------------------------------------------------------
(* RegisteredOnce alone is not inductive: what keeps an app from            *)
(* registering a person again is that whoever is being registered, or has   *)
(* been, has an account already.                                            *)
OnceInv ==
  /\ RegisteredOnce
  /\ logins \cup outbox \cup unsent \cup uploading \subseteq auth

LEMMA OnceInit == Init => OnceInv
BY DEF Init, ShipperInit, ShopInit, OnceInv, RegisteredOnce

(* Every action of either app, or none.                                     *)
LEMMA OnceStep == OnceInv /\ [Next]_vars => OnceInv'
<1> SUFFICES ASSUME OnceInv, [Next]_vars PROVE OnceInv'
  OBVIOUS
<1> USE DEF OnceInv, RegisteredOnce, service, shop
<1>1. CASE UNCHANGED vars
  BY <1>1 DEF vars, shipper
<1>2. CASE ShipperNext /\ UNCHANGED shop
  <2>1. CASE \E p \in Persons : TapGoogle(p) \/ DidSignIn(p) \/ TapSignUp(p)
    BY <1>2, <2>1 DEF TapGoogle, DidSignIn, TapSignUp
  <2>2. CASE \E p \in Persons : GoogleAnswered(p)
    BY <1>2, <2>2 DEF GoogleAnswered, SignInWithGoogle
  <2>3. CASE \E p \in Persons : SignUpAnswered(p)
    BY <1>2, <2>3 DEF SignUpAnswered, CreateUser
  <2>4. CASE \E p \in Persons : ShipperRecorded(p)
    BY <1>2, <2>4 DEF ShipperRecorded, RecordLogin
  <2>5. CASE Refused \/ HearLogins \/ LoginValue \/ Enter \/ Logout
    BY <1>2, <2>5 DEF Refused, HearLogins, LoginValue, Enter, Logout
  <2>6. CASE Relaunch
    BY <1>2, <2>6 DEF Relaunch
  <2> QED BY <1>2, <2>1, <2>2, <2>3, <2>4, <2>5, <2>6 DEF ShipperNext
<1>3. CASE ShopNext /\ UNCHANGED shipper
  <2>1. CASE \E p \in Persons : Register(p)
    BY <1>3, <2>1 DEF Register, CreateUser, shipper
  <2>2. CASE \E p \in Persons : PhotoUploaded(p)
    BY <1>3, <2>2 DEF PhotoUploaded, shipper
  <2>3. CASE \E p \in Persons : PhotoFailed(p)
    BY <1>3, <2>3 DEF PhotoFailed, shipper
  <2>4. CASE \E p \in Persons : ShopRecorded(p)
    BY <1>3, <2>4 DEF ShopRecorded, RecordLogin, shipper
  <2>5. CASE (\E p \in Persons : ClickLogin(p)) \/ LoginSuccess \/ LoginError \/ RecordHeard
    BY <1>3, <2>5 DEF ClickLogin, LoginSuccess, LoginError, RecordHeard, shipper
  <2>6. CASE LogoutShop \/ KillShop \/ LaunchShop
    BY <1>3, <2>6 DEF LogoutShop, KillShop, LaunchShop, shipper
  <2> QED BY <1>3, <2>1, <2>2, <2>3, <2>4, <2>5, <2>6 DEF ShopNext
<1> QED BY <1>1, <1>2, <1>3 DEF Next

(* Once: no person's Login record is written by both apps, or twice by one  *)
(* of them, whoever registers where, and whatever is killed in between.     *)
THEOREM Once == Spec => []RegisteredOnce
<1>1. OnceInv => RegisteredOnce
  BY DEF OnceInv
<1> QED BY <1>1, OnceInit, OnceStep, PTL DEF Spec
--------------------------------------------------------------------------------
(* Queues of honest events and blocks: what is put in them, and that they   *)
(* stay honest when there are more members.                                 *)
LEMMA HonestGrows ==
  ASSUME NEW M, NEW N, M \subseteq N
  PROVE  Seq(Honest(M)) \subseteq Seq(Honest(N))
<1>1. Honest(M) \subseteq Honest(N)
  BY DEF Honest
<1> HIDE DEF Honest
<1> QED BY <1>1

LEMMA ValuesHonest ==
  ASSUME NEW M, NEW whose \in Seq(Persons), NEW members, members \subseteq M
  PROVE  Values(whose, members) \in Seq(Honest(M))
<1>1. Len(whose) \in Nat /\ DOMAIN whose = 1..Len(whose) /\ \A k \in 1..Len(whose) : whose[k] \in Persons
  BY LenProperties, ElementOfSeq
<1>2. \A k \in 1..Len(whose) :
        [type |-> "value", who |-> whose[k], members |-> members] \in Honest(M)
  BY <1>1 DEF Honest
<1> DEFINE H == Honest(M)
<1>3. Values(whose, members) \in [1..Len(whose) -> H]
  BY <1>1, <1>2 DEF Values
<1> HIDE DEF H
<1>4. Values(whose, members) \in Seq(H)
  BY <1>1, <1>3, SeqDef
<1> QED BY <1>4 DEF H

(* OnlyMembersInside is kept by what the main thread still has to do being  *)
(* honest, and by what is stored being a member's uid.                      *)
InsideInv ==
  /\ auth \subseteq Persons /\ logins \subseteq Persons
  /\ stored \in Persons \cup {Nobody, Flag}
  /\ screen \in {"signin", "tabs"} /\ account \in Persons \cup {Nobody}
  /\ asked \subseteq Calls
  /\ listening \in Seq(Persons)
  /\ seen \in {Unheard} \cup SUBSET Persons
  /\ outbox \subseteq Persons /\ joined \subseteq Persons /\ lost \subseteq Persons
  /\ cut \in BOOLEAN
  /\ ShopTypeOK
  /\ seen # Unheard => seen \subseteq logins
  /\ mainq \in Seq(Honest(Members))
  /\ stored \in Persons => stored \in Members
  /\ screen = "tabs" => account \in Members

(* Nobody is inside, and nothing is queued.                                 *)
LEMMA InsideInit == Init => InsideInv
<1> SUFFICES ASSUME Init PROVE InsideInv
  OBVIOUS
<1>1. <<>> \in Seq(Honest(Members)) /\ <<>> \in Seq(Persons)
  OBVIOUS
<1> QED BY <1>1, AccountsAssumption
     DEF Init, ShipperInit, ShopInit, InsideInv, ShopTypeOK, Calls

(* Putting m at the end of the queue, or taking its head off.               *)
LEMMA QueueFacts ==
  ASSUME NEW S, NEW q \in Seq(S)
  PROVE  /\ \A r \in Seq(S) : q \o r \in Seq(S)
         /\ \A m \in S : Append(q, m) \in Seq(S) /\ <<m>> \in Seq(S)
         /\ q # <<>> => Head(q) \in S /\ Tail(q) \in Seq(S)
BY ConcatProperties, HeadTailProperties

(* Every action of either app, or none: a lost Login record keeps its member.*)
LEMMA InsideStep == InsideInv /\ [Next]_vars => InsideInv'
<1> SUFFICES ASSUME InsideInv, [Next]_vars PROVE InsideInv'
  OBVIOUS
<1> DEFINE H == Honest(Members)
<1>q. mainq \in Seq(H)
  BY DEF InsideInv
<1>k. (Members \subseteq Members') => Seq(H) \subseteq Seq(Honest(Members'))
  BY HonestGrows
<1>1. CASE UNCHANGED vars
  BY <1>1 DEF vars, service, shipper, shop, InsideInv, ShopTypeOK, Members
<1>2. CASE ShipperNext /\ UNCHANGED shop
  <2>s. ShopTypeOK'
    BY <1>2 DEF InsideInv, ShopTypeOK, shop
  <2>1. ASSUME NEW p \in Persons, TapGoogle(p) PROVE InsideInv'
    <3>1. Members' = Members
      BY <2>1 DEF TapGoogle, service, Members
    <3> QED BY <2>1, <2>s, <3>1 DEF TapGoogle, service, InsideInv, Calls
  <2>11. ASSUME NEW p \in Persons, DidSignIn(p) PROVE InsideInv'
    <3>1. Members' = Members
      BY <2>11 DEF DidSignIn, service, Members
    <3> QED BY <2>11, <2>s, <3>1, AccountsAssumption DEF DidSignIn, service, InsideInv, Calls
  <2>2. ASSUME NEW p \in Persons, TapSignUp(p) PROVE InsideInv'
    <3>1. Members' = Members
      BY <2>2 DEF TapSignUp, service, Members
    <3> QED BY <2>2, <2>s, <3>1 DEF TapSignUp, service, InsideInv, Calls
  <2>3. ASSUME NEW p \in Persons, GoogleAnswered(p) PROVE InsideInv'
    <3>1. Members' = Members
      BY <2>3 DEF GoogleAnswered, Members
    <3>2. <<p>> \in Seq(Persons) /\ listening' \in Seq(Persons)
      BY <2>3, QueueFacts DEF GoogleAnswered, InsideInv
    <3>3. seen # Unheard => Values(<<p>>, View(seen, outbox)) \in Seq(H)
      BY <3>2, ValuesHonest DEF InsideInv, View, Members
    <3>4. mainq' \in Seq(H)
      BY <2>3, <3>3, <1>q, QueueFacts DEF GoogleAnswered
    <3> QED BY <2>3, <2>s, <3>1, <3>2, <3>4 DEF GoogleAnswered, SignInWithGoogle, InsideInv
  <2>4. ASSUME NEW p \in Persons, SignUpAnswered(p) PROVE InsideInv'
    <3>1. outbox' = outbox \cup {p} /\ Members \subseteq Members' /\ p \in Members'
      BY <2>4 DEF SignUpAnswered, Members
    <3> DEFINE G == Honest(Members')
    <3>2. [type |-> "open", who |-> p] \in G
      BY <3>1 DEF Honest
    <3>3. seen # Unheard => Values(listening, View(seen, outbox')) \in Seq(G)
      BY <2>4, <3>1, ValuesHonest DEF InsideInv, SignUpAnswered, View, Members
    <3>4. mainq \in Seq(G)
      BY <1>k, <1>q, <3>1
    <3> HIDE DEF G
    <3>5. mainq' \in Seq(G)
      <4>1. <<[type |-> "open", who |-> p]>> \in Seq(G) /\ <<>> \in Seq(G)
        BY <3>2, <3>4, QueueFacts
      <4> DEFINE R == IF seen = Unheard THEN <<>> ELSE Values(listening, View(seen, outbox'))
      <4>2. R \in Seq(G)
        BY <3>3, <4>1
      <4>3. mainq' = (mainq \o <<[type |-> "open", who |-> p]>>) \o R
        BY <2>4 DEF SignUpAnswered
      <4> HIDE DEF R
      <4> QED BY <3>4, <4>1, <4>2, <4>3, ConcatProperties
    <3> QED BY <2>4, <2>s, <3>1, <3>5, ShipperAssumption
         DEF SignUpAnswered, CreateUser, InsideInv, G
  <2>5. ASSUME NEW p \in Persons, ShipperRecorded(p) PROVE InsideInv'
    <3>1. Members' = Members
      BY <2>5 DEF ShipperRecorded, RecordLogin, Members
    <3> QED BY <2>5, <2>s, <3>1 DEF ShipperRecorded, RecordLogin, InsideInv
  <2>6. CASE Refused \/ Logout
    <3>1. Members' = Members
      BY <2>6 DEF Refused, Logout, service, Members
    <3> QED BY <2>6, <2>s, <3>1, AccountsAssumption DEF Refused, Logout, service, InsideInv
  <2>7. CASE HearLogins
    <3>1. Members' = Members
      BY <2>7 DEF HearLogins, service, Members
    <3>2. Values(listening, View(logins, outbox)) \in Seq(H)
      BY ValuesHonest DEF InsideInv, View, Members
    <3>3. mainq' \in Seq(H)
      BY <2>7, <3>2, <1>q, QueueFacts DEF HearLogins
    <3> QED BY <2>7, <2>s, <3>1, <3>3 DEF HearLogins, service, InsideInv
  <2>8. CASE LoginValue
    <3>1. Members' = Members
      BY <2>8 DEF LoginValue, service, Members
    <3>2. Head(mainq) \in H /\ Tail(mainq) \in Seq(H)
      BY <2>8, <1>q, QueueFacts DEF LoginValue
    <3>3. Head(mainq).who \in Head(mainq).members =>
            [type |-> "enter", who |-> Head(mainq).who] \in H
      BY <2>8, <3>2 DEF LoginValue, Honest
    <3>4. mainq' \in Seq(H)
      BY <2>8, <3>2, <3>3, QueueFacts DEF LoginValue
    <3> QED BY <2>8, <2>s, <3>1, <3>4 DEF LoginValue, service, InsideInv
  <2>9. CASE Enter
    <3>1. Members' = Members /\ Members \subseteq Persons
      BY <2>9 DEF Enter, service, Members, InsideInv
    <3>2. Head(mainq) \in H /\ Tail(mainq) \in Seq(H)
      BY <2>9, <1>q, QueueFacts DEF Enter
    <3>3. Head(mainq).who \in Members
      BY <2>9, <3>2 DEF Enter, Honest
    <3> QED BY <2>9, <2>s, <3>1, <3>2, <3>3 DEF Enter, service, InsideInv
  <2>10. CASE Relaunch
    <3>1. Members' = Members
      BY <2>10 DEF Relaunch, service, Members
    <3>2. <<>> \in Seq(H) /\ <<>> \in Seq(Persons)
      OBVIOUS
    <3> QED BY <2>10, <2>s, <3>1, <3>2 DEF Relaunch, service, InsideInv
  <2> QED BY <1>2, <2>1, <2>2, <2>3, <2>4, <2>5, <2>6, <2>7, <2>8, <2>9, <2>10, <2>11 DEF ShipperNext
<1>3. CASE ShopNext /\ UNCHANGED shipper
  <2>1. ShopTypeOK' /\ auth' \subseteq Persons /\ logins' \subseteq Persons /\ logins \subseteq logins'
    BY <1>3 DEF ShopNext, InsideInv, ShopTypeOK, service, Register, CreateUser, PhotoUploaded,
       PhotoFailed, ShopRecorded, RecordLogin, ClickLogin, LoginSuccess, LoginError, RecordHeard,
       LogoutShop, KillShop, LaunchShop
  <2>2. Members \subseteq Members'
    BY <1>3, <2>1 DEF Members, shipper
  <2> QED BY <1>3, <1>k, <1>q, <2>1, <2>2 DEF shipper, InsideInv
<1> QED BY <1>1, <1>2, <1>3 DEF Next

(* InsideInv is an invariant.                                               *)
LEMMA InsideAlways == Spec => []InsideInv
BY InsideInit, InsideStep, PTL DEF Spec

(* TypesHold: every variable of the two sessions keeps its type.            *)
THEOREM TypesHold == Spec => []TypeOK
<1>1. InsideInv => TypeOK
  <2> SUFFICES ASSUME InsideInv PROVE TypeOK
    OBVIOUS
  <2> DEFINE H == Honest(Members)
             Q == Events \cup Blocks
  <2>1. Members \subseteq Persons
    BY DEF InsideInv, Members
  <2>2. H \subseteq Q
    BY <2>1 DEF Honest, Events, Blocks
  <2>3. mainq \in Seq(H)
    BY DEF InsideInv
  <2> HIDE DEF H, Q
  <2>4. mainq \in Seq(Q)
    BY <2>2, <2>3
  <2> QED BY <2>4 DEF InsideInv, TypeOK, ShipperTypeOK, Q
<1> QED BY <1>1, InsideAlways, PTL

(* MembersOnly: whoever's tabs are open on the shipper's phone is a member, *)
(* whichever listener, sign-up or launch opened them.                       *)
THEOREM MembersOnly == Spec => []OnlyMembersInside
<1>1. InsideInv => OnlyMembersInside
  BY DEF InsideInv, OnlyMembersInside, Inside, Members
<1> QED BY <1>1, InsideAlways, PTL
--------------------------------------------------------------------------------
(* What is queued for the main thread: values that will open tabs, blocks   *)
(* that open those of a Google sign-in, blocks that open those of a         *)
(* sign-up.                                                                 *)
Moves     == Events \cup Blocks
Effective == {e \in Events : e.who \in e.members}
Enters    == [type : {"enter"}, who : Persons]
Opens     == [type : {"open"}, who : Persons]
For(c)    == {e \in Moves : e.who = c}

(* c is the last claimant.                                                  *)
Wins(c) == \E m \in 1..Len(listening) :
  /\ listening[m] = c /\ c \in View(seen, outbox)
  /\ \A k \in 1..Len(listening) : listening[k] \in View(seen, outbox) => k <= m

(* With q still to be run, the tabs will be those of c if there are any:    *)
(* a value is turned into a block behind all that are queued, so the last   *)
(* value decides, then the last block, then the tabs that are there.        *)
Ends(c, q, tabs, whose) ==
  /\ LastIn(q, Effective, For(c))
  /\ ToSet(q) \cap Effective = {} => LastIn(q, Enters, For(c))
  /\ ToSet(q) \cap (Effective \cup Enters) = {} /\ tabs => whose = c

(* In a launch without a sign-up, what is stored is whose tabs are open,    *)
(* or nothing if Google's callback came over them, and the main thread is   *)
(* on its way to the tabs of the last claimant.                             *)
Settling ==
  /\ ToSet(mainq) \cap Opens = {}
  /\ screen = "tabs" => stored = (IF cut THEN Nobody ELSE account)
  /\ seen # Unheard => \A c \in Persons : Wins(c) => Ends(c, mainq, screen = "tabs", account)

SignInInv == TypeOK /\ (joined = {} => Settling)

LEMMA MovesFacts ==
  /\ Effective \subseteq Moves /\ Enters \subseteq Moves /\ Opens \subseteq Moves
  /\ Effective \cap Enters = {} /\ Effective \cap Opens = {} /\ Enters \cap Opens = {}
  /\ \A e \in Moves : e.type = "value" \/ e \in Enters \/ e \in Opens
  /\ \A e \in Moves : e.type = "value" => e \in Events
BY DEF Effective, Enters, Opens, Moves, Events, Blocks

(* A queue without sign-ups' blocks, put together or shortened.             *)
LEMMA EndsAppended ==
  ASSUME NEW c, NEW q \in Seq(Moves), NEW r \in Seq(Moves), NEW tabs, NEW whose,
         Ends(c, q, tabs, whose), ToSet(r) \cap (Effective \cup Enters) = {}
  PROVE  Ends(c, q \o r, tabs, whose)
<1>1. ToSet(q \o r) = ToSet(q) \cup ToSet(r)
  BY ConcatFacts
<1>2. ToSet(r) \cap Effective = {} /\ ToSet(r) \cap Enters = {}
  OBVIOUS
<1>3. LastIn(q \o r, Effective, For(c))
  BY <1>2, LastInConcat DEF Ends
<1>4. ToSet(q) \cap Effective = {} => LastIn(q \o r, Enters, For(c))
  BY <1>2, LastInConcat DEF Ends
<1> QED BY <1>1, <1>3, <1>4 DEF Ends

(* Values for those who listen, the last of them for c.                     *)
LEMMA EndsWithValues ==
  ASSUME NEW c, NEW q \in Seq(Moves), NEW r \in Seq(Moves), NEW tabs, NEW whose,
         ToSet(r) \cap Effective # {}, LastIn(r, Effective, For(c))
  PROVE  Ends(c, q \o r, tabs, whose)
<1>1. ToSet(q \o r) = ToSet(q) \cup ToSet(r)
  BY ConcatFacts
<1>2. LastIn(q \o r, Effective, For(c))
  BY LastInConcat
<1> QED BY <1>1, <1>2 DEF Ends

(* The values of one change of the tree.                                    *)
LEMMA ValuesFacts ==
  ASSUME NEW whose \in Seq(Persons), NEW members \in SUBSET Persons
  PROVE  /\ Values(whose, members) \in Seq(Moves)
         /\ Len(Values(whose, members)) = Len(whose) /\ Len(whose) \in Nat
         /\ \A k \in 1..Len(whose) :
              /\ Values(whose, members)[k] = [type |-> "value", who |-> whose[k], members |-> members]
              /\ Values(whose, members)[k] \in Effective <=> whose[k] \in members
              /\ Values(whose, members)[k] \in For(whose[k])
         /\ ToSet(Values(whose, members)) \cap (Enters \cup Opens) = {}
<1> DEFINE v == Values(whose, members)
<1>1. Len(whose) \in Nat /\ DOMAIN whose = 1..Len(whose) /\ \A k \in 1..Len(whose) : whose[k] \in Persons
  BY LenProperties, ElementOfSeq
<1>2. /\ DOMAIN v = 1..Len(whose)
      /\ v = [k \in 1..Len(whose) |-> v[k]]
      /\ \A k \in 1..Len(whose) :
           v[k] = [type |-> "value", who |-> whose[k], members |-> members]
  BY <1>1 DEF Values
<1>3. \A k \in 1..Len(whose) : v[k] \in Events
  BY <1>1, <1>2 DEF Events
<1>4. \A k \in 1..Len(whose) :
        v[k] \in Moves /\ v[k].who = whose[k] /\ v[k].members = members /\ v[k].type = "value"
  BY <1>2, <1>3 DEF Moves
<1> HIDE DEF v
<1>5. v \in [1..Len(whose) -> Moves]
  BY <1>2, <1>4
<1>6. v \in Seq(Moves) /\ Len(v) = Len(whose)
  BY <1>1, <1>5, FunctionFacts
<1>7. ToSet(v) = {v[k] : k \in 1..Len(whose)}
  BY <1>6, ElementFacts
<1>8. \A e \in Enters \cup Opens : e.type # "value"
  BY DEF Enters, Opens
<1>9. ToSet(v) \cap (Enters \cup Opens) = {}
  BY <1>4, <1>7, <1>8
<1>10. \A k \in 1..Len(whose) : v[k] \in Effective <=> whose[k] \in members
  BY <1>3, <1>4 DEF Effective
<1>11. \A k \in 1..Len(whose) : v[k] \in For(whose[k])
  BY <1>4 DEF For
<1> QED BY <1>1, <1>2, <1>6, <1>9, <1>10, <1>11 DEF v

LEMMA LastValue ==
  ASSUME NEW whose \in Seq(Persons), NEW members \in SUBSET Persons,
         NEW m \in 1..Len(whose), whose[m] \in members,
         \A k \in 1..Len(whose) : whose[k] \in members => k <= m
  PROVE  /\ ToSet(Values(whose, members)) \cap Effective # {}
         /\ LastIn(Values(whose, members), Effective, For(whose[m]))
<1>1. PICK v : v = Values(whose, members)
  OBVIOUS
<1>2. /\ v \in Seq(Moves) /\ Len(v) = Len(whose) /\ Len(whose) \in Nat
      /\ \A k \in 1..Len(whose) : v[k] \in Effective <=> whose[k] \in members
      /\ \A k \in 1..Len(whose) : v[k] \in For(whose[k])
  BY <1>1, ValuesFacts
<1>3. ToSet(v) = {v[k] : k \in 1..Len(whose)}
  BY <1>2, ElementFacts
<1>4. v[m] \in Effective /\ v[m] \in ToSet(v)
  BY <1>2, <1>3
<1>5. ASSUME NEW i \in 1..Len(whose), v[i] \in Effective,
             \A j \in 1..Len(whose) : i < j => v[j] \notin Effective
      PROVE  v[i] \in For(whose[m])
  <2>1. i <= m
    BY <1>2, <1>5
  <2>2. ~(i < m)
    BY <1>4, <1>5
  <2>3. i = m
    BY <1>2, <2>1, <2>2
  <2> QED BY <1>2, <2>3
<1> QED BY <1>1, <1>2, <1>4, <1>5 DEF LastIn

LEMMA EmptyQueue == ToSet(<<>>) = {} /\ Len(<<>>) = 0 /\ <<>> \in Seq(Moves)
<1>1. <<>> \in Seq(Moves)
  OBVIOUS
<1> QED BY <1>1, ElementFacts, EmptySeq

LEMMA SignInInit == Init => SignInInv
<1> SUFFICES ASSUME Init PROVE SignInInv
  OBVIOUS
<1>1. TypeOK
  <2>1. <<>> \in Seq(Persons) /\ <<>> \in Seq(Events \cup Blocks)
    OBVIOUS
  <2> QED BY <2>1, AccountsAssumption
       DEF Init, ShipperInit, ShopInit, TypeOK, ShipperTypeOK, ShopTypeOK
<1>2. ToSet(<<>>) = {}
  BY EmptyQueue
<1>3. \A c : ~Wins(c)
  <2>1. Len(<<>>) = 0
    BY EmptySeq
  <2> QED BY <2>1 DEF Init, ShipperInit, Wins
<1> QED BY <1>1, <1>2, <1>3 DEF Init, ShipperInit, SignInInv, Settling

(* Every action of either app, in a launch without a sign-up.               *)
LEMMA SettlingStep ==
  ASSUME TypeOK, joined = {}, Settling, [Next]_vars, joined' = {}
  PROVE  Settling'
<1>q. /\ mainq \in Seq(Moves) /\ listening \in Seq(Persons)
      /\ seen # Unheard => View(seen, outbox) \in SUBSET Persons
      /\ View(logins, outbox) \in SUBSET Persons
  BY DEF TypeOK, ShipperTypeOK, Moves, View
<1>1. CASE UNCHANGED shipper
  BY <1>1 DEF shipper, Settling, Wins, View
<1>2. CASE ShipperNext
  <2>1. ASSUME NEW p \in Persons, TapGoogle(p) PROVE Settling'
    BY <2>1 DEF TapGoogle, Settling, Wins
  <2>12. ASSUME NEW p \in Persons, DidSignIn(p) PROVE Settling'
    BY <2>12 DEF DidSignIn, Settling, Wins
  <2>2. ASSUME NEW p \in Persons, TapSignUp(p) PROVE Settling'
    BY <2>2 DEF TapSignUp, Settling, Wins
  <2>3. ASSUME NEW p \in Persons, GoogleAnswered(p) PROVE Settling'
    <3>1. PICK r \in Seq(Moves) : r = IF seen = Unheard THEN <<>> ELSE Values(<<p>>, View(seen, outbox))
      <4>1. <<p>> \in Seq(Persons)
        OBVIOUS
      <4>2. seen # Unheard => Values(<<p>>, View(seen, outbox)) \in Seq(Moves)
        BY <1>q, <4>1, ValuesFacts
      <4> QED BY <4>2, EmptyQueue
    <3>2. mainq' = mainq \o r
      BY <2>3, <3>1, <1>q, ConcatProperties DEF GoogleAnswered
    <3>3. /\ listening' \in Seq(Persons) /\ Len(listening') = Len(listening) + 1 /\ Len(listening) \in Nat
          /\ listening'[Len(listening) + 1] = p
          /\ \A k \in 1..Len(listening) : listening'[k] = listening[k]
      BY <2>3, <1>q, AppendFacts DEF GoogleAnswered
    <3>4. ToSet(r) \cap (Enters \cup Opens) = {}
      BY <3>1, <1>q, Singleton, ValuesFacts, EmptyQueue
    <3>5. ASSUME seen # Unheard, NEW c \in Persons, Wins(c)'
          PROVE  Ends(c, mainq \o r, screen = "tabs", account)
      <4>1. PICK m \in 1..Len(listening') :
              /\ listening'[m] = c /\ c \in View(seen, outbox)
              /\ \A k \in 1..Len(listening') : listening'[k] \in View(seen, outbox) => k <= m
        BY <2>3, <3>5 DEF Wins, GoogleAnswered
      <4>2. CASE p \in View(seen, outbox)
        <5>1. Len(listening) + 1 \in 1..Len(listening')
          BY <3>3
        <5>2. Len(listening) + 1 <= m
          BY <3>3, <4>1, <4>2, <5>1
        <5>3. m = Len(listening) + 1
          BY <3>3, <5>2
        <5>4. c = p
          BY <3>3, <4>1, <5>3
        <5>5. <<p>> \in Seq(Persons) /\ Len(<<p>>) = 1 /\ <<p>>[1] = p
          OBVIOUS
        <5>6. 1 \in 1..Len(<<p>>) /\ \A k \in 1..Len(<<p>>) : k <= 1
          BY <5>5
        <5>7. ToSet(r) \cap Effective # {} /\ LastIn(r, Effective, For(c))
          BY <1>q, <3>1, <3>5, <4>2, <5>4, <5>5, <5>6, LastValue
        <5> QED BY <1>q, <5>7, EndsWithValues
      <4>3. CASE p \notin View(seen, outbox)
        <5>1. m \in 1..Len(listening)
          <6>1. m # Len(listening) + 1
            BY <3>3, <4>1, <4>3
          <6> QED BY <3>3, <6>1
        <5>2. Wins(c)
          <6>1. \A k \in 1..Len(listening) : k \in 1..Len(listening')
            BY <3>3
          <6> QED BY <3>3, <4>1, <5>1, <6>1 DEF Wins
        <5>3. Ends(c, mainq, screen = "tabs", account)
          BY <3>5, <5>2 DEF Settling
        <5>4. ToSet(r) \cap Effective = {}
          <6>1. <<p>> \in Seq(Persons) /\ Len(<<p>>) = 1 /\ <<p>>[1] = p
            OBVIOUS
          <6>2. Len(r) = 1 /\ (r[1] \in Effective <=> p \in View(seen, outbox))
            <7>1. PICK w \in Seq(Persons) : w = <<p>>
              BY <6>1
            <7>2. 1 \in 1..Len(w) /\ w[1] = p /\ Len(w) = 1
              BY <6>1, <7>1
            <7>3. r = Values(w, View(seen, outbox))
              BY <3>1, <3>5, <7>1
            <7>4. Len(r) = Len(w) /\ (r[1] \in Effective <=> w[1] \in View(seen, outbox))
              <8>1. \A members \in SUBSET Persons :
                      /\ Len(Values(w, members)) = Len(w)
                      /\ \A k \in 1..Len(w) : Values(w, members)[k] \in Effective <=> w[k] \in members
                BY ValuesFacts
              <8> QED BY <1>q, <3>5, <7>2, <7>3, <8>1
            <7> QED BY <7>2, <7>4
          <6>3. ToSet(r) = {r[k] : k \in 1..1}
            BY <6>2, ElementFacts
          <6> QED BY <4>3, <6>2, <6>3
        <5> QED BY <1>q, <3>4, <5>3, <5>4, EndsAppended
      <4> QED BY <4>2, <4>3
    <3>6. ToSet(mainq \o r) \cap Opens = {}
      BY <1>q, <3>4, ConcatFacts DEF Settling
    <3> QED BY <2>3, <3>2, <3>5, <3>6 DEF GoogleAnswered, Settling
  <2>4. ASSUME NEW p \in Persons, SignUpAnswered(p) PROVE Settling'
    BY <2>4 DEF SignUpAnswered
  <2>5. ASSUME NEW p \in Persons, ShipperRecorded(p) PROVE Settling'
    <3>1. seen # Unheard => View(seen', outbox') = View(seen, outbox)
      BY <2>5 DEF ShipperRecorded, View
    <3> QED BY <2>5, <3>1 DEF ShipperRecorded, Settling, Wins
  <2>6. CASE Refused
    BY <2>6 DEF Refused, Settling, Wins
  <2>7. CASE Logout
    BY <2>7 DEF Logout, Settling, Wins, Ends
  <2>8. CASE HearLogins
    <3>1. CASE seen # Unheard /\ View(seen, outbox) = View(logins, outbox)
      <4>1. mainq' = mainq /\ View(seen', outbox') = View(seen, outbox)
        BY <2>8, <3>1 DEF HearLogins
      <4> QED BY <2>8, <3>1, <4>1 DEF HearLogins, Settling, Wins
    <3>2. CASE ~(seen # Unheard /\ View(seen, outbox) = View(logins, outbox))
      <4>1. PICK r \in Seq(Moves) : r = Values(listening, View(logins, outbox))
        BY <1>q, ValuesFacts
      <4>2. mainq' = mainq \o r
        BY <2>8, <3>2, <4>1 DEF HearLogins
      <4>3. ASSUME NEW c \in Persons, Wins(c)'
            PROVE  Ends(c, mainq \o r, screen = "tabs", account)
        <5>1. PICK m \in 1..Len(listening) :
                /\ listening[m] = c /\ c \in View(logins, outbox)
                /\ \A k \in 1..Len(listening) : listening[k] \in View(logins, outbox) => k <= m
          BY <2>8, <4>3 DEF Wins, HearLogins
        <5>2. ToSet(r) \cap Effective # {} /\ LastIn(r, Effective, For(c))
          BY <1>q, <4>1, <5>1, LastValue
        <5> QED BY <1>q, <5>2, EndsWithValues
      <4>4. ToSet(mainq \o r) \cap Opens = {}
        <5>1. ToSet(r) \cap (Enters \cup Opens) = {}
          BY <1>q, <4>1, ValuesFacts
        <5> QED BY <1>q, <5>1, ConcatFacts DEF Settling
      <4> QED BY <2>8, <4>2, <4>3, <4>4 DEF HearLogins, Settling
    <3> QED BY <3>1, <3>2
  <2>9. CASE LoginValue
    <3>1. PICK e \in Events : e = Head(mainq)
      BY <2>9, <1>q, TailFacts, MovesFacts DEF LoginValue
    <3>2. PICK t \in Seq(Moves) : t = Tail(mainq)
      BY <2>9, <1>q, TailFacts DEF LoginValue
    <3>3. mainq # <<>> /\ ToSet(mainq) = {e} \cup ToSet(t) /\ e.who \in Persons
      BY <2>9, <1>q, <3>1, <3>2, TailFacts DEF LoginValue, Events
    <3>4. CASE e \in Effective
      <4>1. PICK b \in Enters : b = [type |-> "enter", who |-> e.who]
        BY <3>3 DEF Enters
      <4>2. mainq' = Append(t, b)
        BY <2>9, <3>1, <3>2, <3>4, <4>1 DEF LoginValue, Effective
      <4>3. /\ <<b>> \in Seq(Moves) /\ ToSet(<<b>>) = {b} /\ Append(t, b) = t \o <<b>>
            /\ ToSet(t \o <<b>>) = ToSet(t) \cup {b}
        <5>1. <<b>> \in Seq(Moves) /\ ToSet(<<b>>) = {b}
          BY MovesFacts, Singleton
        <5>2. Append(t, b) = t \o <<b>>
          BY MovesFacts, AppendIsConcat
        <5> QED BY <5>1, <5>2, ConcatFacts
      <4>4. ASSUME seen # Unheard, NEW c \in Persons, Wins(c)
            PROVE  Ends(c, t \o <<b>>, screen = "tabs", account)
        <5>1. Ends(c, mainq, screen = "tabs", account)
          BY <4>4 DEF Settling
        <5>2. /\ LastIn(t, Effective, For(c))
              /\ ToSet(t) \cap Effective = {} => e \in For(c)
          BY <1>q, <3>1, <3>2, <3>3, <3>4, <5>1, LastInTail DEF Ends
        <5>3. LastIn(t \o <<b>>, Effective, For(c))
          BY <4>3, <5>2, MovesFacts, LastInConcat
        <5>4. ASSUME ToSet(t \o <<b>>) \cap Effective = {} PROVE LastIn(t \o <<b>>, Enters, For(c))
          <6>1. e.who = c
            BY <4>3, <5>2, <5>4 DEF For
          <6>2. b \in For(c)
            BY <4>1, <6>1, MovesFacts DEF For
          <6>3. LastIn(<<b>>, Enters, For(c))
            BY <4>3, <6>2, LastInAll
          <6> QED BY <4>3, <6>3, LastInConcat
        <5>5. ToSet(t \o <<b>>) \cap (Effective \cup Enters) # {}
          BY <4>3
        <5> QED BY <5>3, <5>4, <5>5 DEF Ends
      <4>5. ToSet(t \o <<b>>) \cap Opens = {}
        BY <3>3, <4>3, MovesFacts DEF Settling
      <4> QED BY <2>9, <4>2, <4>3, <4>4, <4>5 DEF LoginValue, Settling, Wins
    <3>5. CASE e \notin Effective
      <4>1. mainq' = t
        BY <2>9, <3>1, <3>2, <3>5 DEF LoginValue, Effective
      <4>2. e \notin Enters
        BY <2>9, <3>1 DEF Enters, LoginValue
      <4>3. ASSUME seen # Unheard, NEW c \in Persons, Wins(c)
            PROVE  Ends(c, t, screen = "tabs", account)
        <5>1. Ends(c, mainq, screen = "tabs", account)
          BY <4>3 DEF Settling
        <5>2. LastIn(t, Effective, For(c))
          BY <1>q, <3>2, <3>3, <5>1, LastInTail DEF Ends
        <5>3. ToSet(t) \cap Effective = {} => LastIn(t, Enters, For(c))
          BY <1>q, <3>2, <3>3, <3>5, <5>1, LastInTail DEF Ends
        <5> QED BY <3>3, <3>5, <4>2, <5>1, <5>2, <5>3 DEF Ends
      <4> QED BY <2>9, <3>3, <4>1, <4>3 DEF LoginValue, Settling, Wins
    <3> QED BY <3>4, <3>5
  <2>10. CASE Enter
    <3>1. PICK e \in Moves : e = Head(mainq)
      BY <2>10, <1>q, TailFacts DEF Enter
    <3>2. PICK t \in Seq(Moves) : t = Tail(mainq)
      BY <2>10, <1>q, TailFacts DEF Enter
    <3>3. mainq # <<>> /\ ToSet(mainq) = {e} \cup ToSet(t)
      BY <2>10, <1>q, <3>1, <3>2, TailFacts DEF Enter
    <3>4. e \in Enters /\ e.type = "enter"
      <4>1. e \notin Opens
        BY <3>3 DEF Settling
      <4>2. e \in Enters
        BY <2>10, <3>1, <4>1, MovesFacts DEF Enter
      <4> QED BY <4>2 DEF Enters
    <3>5. e \notin Effective
      BY <3>4, MovesFacts
    <3>6. mainq' = t /\ screen' = "tabs" /\ account' = e.who /\ stored' = e.who /\ cut' = FALSE
      BY <2>10, <3>1, <3>2, <3>4 DEF Enter
    <3>7. ASSUME seen # Unheard, NEW c \in Persons, Wins(c)
          PROVE  Ends(c, t, TRUE, e.who)
      <4>1. Ends(c, mainq, screen = "tabs", account)
        BY <3>7 DEF Settling
      <4>2. LastIn(t, Effective, For(c))
        BY <1>q, <3>2, <3>3, <4>1, LastInTail DEF Ends
      <4>3. ToSet(t) \cap Effective = {} => LastIn(mainq, Enters, For(c))
        BY <3>3, <3>5, <4>1 DEF Ends
      <4>4. ToSet(t) \cap Effective = {} => LastIn(t, Enters, For(c))
        BY <1>q, <3>2, <3>3, <4>3, LastInTail
      <4>5. ToSet(t) \cap (Effective \cup Enters) = {} => e \in For(c)
        BY <1>q, <3>1, <3>2, <3>3, <3>4, <4>3, LastInTail
      <4> QED BY <4>2, <4>4, <4>5 DEF Ends, For
    <3> QED BY <2>10, <3>3, <3>6, <3>7 DEF Enter, Settling, Wins
  <2>11. CASE Relaunch
    <3>1. ToSet(<<>>) = {} /\ Len(<<>>) = 0
      BY EmptyQueue
    <3>2. \A c : ~Wins(c)'
      BY <2>11, <3>1 DEF Relaunch, Wins
    <3> QED BY <2>11, <3>1, <3>2 DEF Relaunch, Settling
  <2> QED BY <1>2, <2>1, <2>2, <2>3, <2>4, <2>5, <2>6, <2>7, <2>8, <2>9, <2>10, <2>11, <2>12 DEF ShipperNext
<1> QED BY <1>1, <1>2 DEF Next, vars

LEMMA SignInAlways == Spec => []SignInInv
<1>1. SignInInv /\ TypeOK' /\ [Next]_vars => SignInInv'
  <2> SUFFICES ASSUME SignInInv, TypeOK', [Next]_vars, joined' = {} PROVE Settling'
    BY DEF SignInInv
  <2>1. CASE joined = {}
    BY <2>1, SettlingStep DEF SignInInv
  <2>2. CASE joined # {}
    <3>1. Relaunch
      BY <2>2 DEF Next, vars, shipper, ShipperNext, TapGoogle, DidSignIn, TapSignUp, GoogleAnswered, SignUpAnswered,
         ShipperRecorded, Refused, HearLogins, LoginValue, Enter, Logout
    <3>2. ToSet(<<>>) = {} /\ Len(<<>>) = 0
      BY EmptyQueue
    <3>3. \A c : ~Wins(c)'
      BY <3>1, <3>2 DEF Relaunch, Wins
    <3> QED BY <3>1, <3>2, <3>3 DEF Relaunch, Settling
  <2> QED BY <2>1, <2>2
<1> QED BY <1>1, SignInInit, TypesHold, PTL DEF Spec

(* SameAccount: the account on screen is the one the next launch opens, or  *)
(* none if Google's callback signed it out over its tabs, as long as nobody *)
(* has signed up, in whatever order the listeners of earlier sign-ins       *)
(* answer and whoever logs out in between.                                  *)
THEOREM SameAccount == Spec => []SameAccountNextLaunch
<1>1. SignInInv => SameAccountNextLaunch
  BY DEF SignInInv, Settling, SameAccountNextLaunch, Inside
<1> QED BY <1>1, SignInAlways, PTL

(* LatestSignIn: once nothing is queued, the tabs are those of the latest   *)
(* Google sign-in of a member, for any number of listeners: each change of  *)
(* the tree is answered by all of them, the latest sign-in last.            *)
THEOREM LatestSignIn == Spec => []LastSignInWins
<1>1. SignInInv => LastSignInWins
  <2> SUFFICES ASSUME SignInInv, screen = "tabs", mainq = <<>>, joined = {}, seen # Unheard,
                      Claimants # <<>>
               PROVE  account = Claimants[Len(Claimants)]
    BY DEF LastSignInWins
  <2> DEFINE V == View(seen, outbox)
  <2>1. listening \in Seq(Persons)
    BY DEF SignInInv, TypeOK, ShipperTypeOK
  <2>2. Claimants \in Seq(Persons) /\ \E e : TakenFrom(e, Claimants, listening, V, Len(listening))
    BY <2>1, SelectedPlaces DEF Claimants
  <2>3. PICK e : TakenFrom(e, Claimants, listening, V, Len(listening))
    BY <2>2
  <2>4. PICK n : n = Len(Claimants)
    OBVIOUS
  <2>5. n \in Nat \ {0}
    BY <2>2, <2>4, EmptySeq, LenProperties
  <2>6. PICK m \in 1..Len(listening) : m = e[n]
    BY <2>3, <2>4, <2>5 DEF TakenFrom
  <2>7. Claimants[n] = listening[m] /\ listening[m] \in V
    BY <2>3, <2>4, <2>5, <2>6 DEF TakenFrom
  <2>8. ASSUME NEW k \in 1..Len(listening), listening[k] \in V PROVE k <= m
    <3>1. PICK j \in 1..n : e[j] = k
      BY <2>3, <2>4, <2>8 DEF TakenFrom
    <3>2. j < n => e[j] < e[n]
      BY <2>3, <2>4, <2>5 DEF TakenFrom
    <3>3. k \in Nat /\ m \in Nat /\ (j = n \/ j < n)
      BY <2>1, <2>5, ElementFacts
    <3> QED BY <2>6, <3>1, <3>2, <3>3
  <2>9. Wins(listening[m]) /\ listening[m] \in Persons
    BY <2>1, <2>6, <2>7, <2>8, ElementOfSeq, LenProperties DEF Wins
  <2>10. Ends(listening[m], mainq, TRUE, account)
    BY <2>9 DEF SignInInv, Settling
  <2>11. account = listening[m]
    BY <2>10, EmptyQueue DEF Ends
  <2> QED BY <2>4, <2>7, <2>11
<1> QED BY <1>1, SignInAlways, PTL
===================================================================================
