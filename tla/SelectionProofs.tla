----------------------------- MODULE SelectionProofs -----------------------------
(***************************************************************************)
(* Facts about Selected, and about sequences, that the theorems about the  *)
(* lists and listeners of the two apps rest on.                            *)
(***************************************************************************)
EXTENDS Selection, Integers, SequencesExt, FiniteSets, SequenceTheorems, FiniteSetTheorems,
        WellFoundedInduction, TLAPS

(* Those among the first i elements, for every i up to n.                   *)
Selects(f, s, T, n) ==
  /\ f = [i \in 0..n |-> f[i]]
  /\ f[0] = <<>>
  /\ \A i \in 1..n : f[i] = IF s[i] \in T THEN Append(f[i - 1], s[i]) ELSE f[i - 1]

(* A set of numbers that has n + 1 whenever it has n, and has 0.            *)
LEMMA Induction ==
  ASSUME NEW n \in Nat, NEW P \in SUBSET (0..n), 0 \in P,
         \A i \in 1..n : i - 1 \in P => i \in P
  PROVE  P = 0..n
<1> DEFINE Q == (0..n) \ P
<1>1. SUFFICES ASSUME Q # {} PROVE FALSE
  OBVIOUS
<1>2. Q \subseteq Nat
  OBVIOUS
<1>3. PICK x \in Q : \A y \in Q : ~(<<y, x>> \in OpToRel(<, Nat))
  BY <1>1, <1>2, NatLessThanWellFounded, WFMin
<1>4. x \in 1..n /\ x - 1 \in 0..n /\ x - 1 < x
  OBVIOUS
<1>5. x - 1 \in P
  BY <1>2, <1>3, <1>4 DEF OpToRel
<1> QED BY <1>4, <1>5

LEMMA SelectsExists ==
  ASSUME NEW s, NEW T, NEW n \in Nat
  PROVE  \E f : Selects(f, s, T, n)
<1> DEFINE P == {m \in 0..n : \E f : Selects(f, s, T, m)}
<1>1. 0 \in P
  <2> DEFINE g == [i \in 0..0 |-> <<>>]
  <2>1. Selects(g, s, T, 0)
    BY DEF Selects
  <2> QED BY <2>1
<1>2. ASSUME NEW m \in 1..n, m - 1 \in P PROVE m \in P
  <2>1. PICK f : Selects(f, s, T, m - 1)
    BY <1>2
  <2> DEFINE g == [i \in 0..m |-> IF i < m THEN f[i]
                    ELSE IF s[m] \in T THEN Append(f[m - 1], s[m]) ELSE f[m - 1]]
  <2>2. g[0] = <<>>
    BY <2>1 DEF Selects
  <2>3. ASSUME NEW i \in 1..m
        PROVE  g[i] = IF s[i] \in T THEN Append(g[i - 1], s[i]) ELSE g[i - 1]
    <3>1. g[i - 1] = f[i - 1]
      OBVIOUS
    <3>2. CASE i = m
      BY <3>1, <3>2
    <3>3. CASE i # m
      <4>1. i \in 1..m - 1 /\ i < m
        BY <3>3
      <4>2. f[i] = IF s[i] \in T THEN Append(f[i - 1], s[i]) ELSE f[i - 1]
        BY <2>1, <4>1 DEF Selects
      <4> QED BY <3>1, <4>1, <4>2
    <3> QED BY <3>2, <3>3
  <2>4. Selects(g, s, T, m)
    BY <2>2, <2>3 DEF Selects
  <2> QED BY <2>4
<1>3. n \in P
  <2> HIDE DEF P
  <2>1. P \in SUBSET (0..n)
    BY DEF P
  <2> QED BY <1>1, <1>2, <2>1, Induction
<1> QED BY <1>3

LEMMA SelectedBySelects ==
  ASSUME NEW S, NEW s \in Seq(S), NEW T
  PROVE  \E f : Selects(f, s, T, Len(s)) /\ Selected(s, T) = f[Len(s)]
<1> DEFINE n == Len(s)
           Sel(g) == [i \in 0..n |-> IF i = 0 THEN <<>>
                        ELSE IF s[i] \in T THEN Append(g[i - 1], s[i]) ELSE g[i - 1]]
           f == CHOOSE g : g = Sel(g)
<1>1. n \in Nat
  BY LenProperties
<1>2. PICK g : Selects(g, s, T, n)
  BY <1>1, SelectsExists
<1>3. g = Sel(g)
  BY <1>1, <1>2 DEF Selects
<1>4. f = Sel(f)
  BY <1>3
<1>5. Selected(s, T) = f[n]
  BY DEF Selected
<1> HIDE DEF f
<1>6. Selects(f, s, T, n)
  <2>1. f = [i \in 0..n |-> f[i]]
    BY <1>4
  <2>2. f[0] = <<>>
    BY <1>1, <1>4
  <2>3. ASSUME NEW i \in 1..n
        PROVE  f[i] = IF s[i] \in T THEN Append(f[i - 1], s[i]) ELSE f[i - 1]
    <3>1. f[i] = Sel(f)[i]
      BY <1>4
    <3>2. i \in 0..n /\ i # 0
      BY <1>1
    <3>3. Sel(f)[i] = IF s[i] \in T THEN Append(f[i - 1], s[i]) ELSE f[i - 1]
      BY <3>2
    <3> QED BY <3>1, <3>3
  <2> QED BY <2>1, <2>2, <2>3 DEF Selects
<1> QED BY <1>5, <1>6
--------------------------------------------------------------------------------
(* r is a selection: e tells the place in s of each element of r.           *)
TakenFrom(e, r, s, T, i) ==
  /\ e \in [1..Len(r) -> 1..i]
  /\ \A j, k \in 1..Len(r) : j < k => e[j] < e[k]
  /\ \A k \in 1..Len(r) : r[k] = s[e[k]] /\ r[k] \in T
  /\ \A m \in 1..i : s[m] \in T => \E k \in 1..Len(r) : e[k] = m

LEMMA SelectedPlaces ==
  ASSUME NEW S, NEW s \in Seq(S), NEW T
  PROVE  Selected(s, T) \in Seq(S) /\ \E e : TakenFrom(e, Selected(s, T), s, T, Len(s))
<1> DEFINE n == Len(s)
<1>1. n \in Nat /\ DOMAIN s = 1..n /\ \A i \in 1..n : s[i] \in S
  BY LenProperties, ElementOfSeq
<1>2. PICK f : Selects(f, s, T, n) /\ Selected(s, T) = f[n]
  BY SelectedBySelects
<1> DEFINE P == {i \in 0..n : f[i] \in Seq(S) /\ \E e : TakenFrom(e, f[i], s, T, i)}
<1>3. 0 \in P
  <2>1. f[0] = <<>> /\ <<>> \in Seq(S) /\ Len(<<>>) = 0
    BY <1>2 DEF Selects
  <2>2. 1..0 = {} /\ 1..Len(<<>>) = {}
    BY <2>1
  <2> DEFINE none == [k \in {} |-> 0]
  <2>3. none \in [{} -> {}]
    OBVIOUS
  <2> HIDE DEF none
  <2>4. PICK r, I : r = <<>> /\ I = {} /\ 1..Len(r) = I /\ 1..0 = I
    BY <2>2
  <2>5. none \in [I -> I]
    BY <2>3, <2>4
  <2>6. \A k \in I : FALSE
    BY <2>4
  <2>7. TakenFrom(none, r, s, T, 0)
    <3>1. none \in [1..Len(r) -> 1..0]
      BY <2>4, <2>5
    <3>2. \A k \in 1..Len(r) : FALSE
      BY <2>4, <2>6
    <3>3. \A k \in 1..0 : FALSE
      OBVIOUS
    <3> QED BY ONLY <3>1, <3>2, <3>3 DEF TakenFrom
  <2>8. f[0] \in Seq(S) /\ TakenFrom(none, f[0], s, T, 0)
    BY <2>1, <2>4, <2>7
  <2> QED BY <1>1, <2>8
<1>4. ASSUME NEW i \in 1..n, i - 1 \in P PROVE i \in P
  <2>1. PICK r, e : r = f[i - 1] /\ r \in Seq(S) /\ TakenFrom(e, r, s, T, i - 1)
    BY <1>4
  <2>2. Len(r) \in Nat
    BY <2>1, LenProperties
  <2>3. i \in Nat /\ i >= 1
    BY <1>1
  <2>4. f[i] = IF s[i] \in T THEN Append(r, s[i]) ELSE r
    BY <1>2, <2>1 DEF Selects
  <2>5. CASE s[i] \notin T
    <3>1. TakenFrom(e, r, s, T, i)
      <4>1. e \in [1..Len(r) -> 1..i]
        BY <2>1, <2>3 DEF TakenFrom
      <4>2. \A m \in 1..i : s[m] \in T => m \in 1..i - 1
        BY <2>3, <2>5
      <4> QED BY <2>1, <4>1, <4>2 DEF TakenFrom
    <3> QED BY <2>1, <2>4, <2>5, <3>1
  <2>6. CASE s[i] \in T
    <3> DEFINE q == Append(r, s[i])
               m == Len(r) + 1
               g == [k \in 1..m |-> IF k = m THEN i ELSE e[k]]
    <3>1. /\ q \in Seq(S) /\ Len(q) = m /\ q[m] = s[i]
          /\ \A k \in 1..Len(r) : q[k] = r[k]
      BY <1>1, <2>1, AppendProperties
    <3>2. m \in Nat /\ 1..m = (1..Len(r)) \cup {m} /\ \A k \in 1..Len(r) : k < m
      BY <2>2
    <3> HIDE DEF q, m
    <3>3. g[m] = i /\ \A k \in 1..Len(r) : g[k] = e[k] /\ g[k] \in 1..i - 1
      <4>1. g[m] = i
        BY <3>2
      <4>2. ASSUME NEW k \in 1..Len(r) PROVE g[k] = e[k] /\ e[k] \in 1..i - 1
        <5>1. k \in 1..m /\ k # m
          BY <3>2
        <5>2. e \in [1..Len(r) -> 1..i - 1]
          BY <2>1 DEF TakenFrom
        <5> QED BY <5>1, <5>2
      <4> QED BY <4>1, <4>2
    <3>4. g \in [1..m -> 1..i]
      <4>1. ASSUME NEW k \in 1..m PROVE g[k] \in 1..i
        <5>1. CASE k = m
          BY <2>3, <3>3, <5>1
        <5>2. CASE k # m
          <6>1. g[k] \in 1..i - 1
            BY <3>2, <3>3, <5>2
          <6> QED BY <2>3, <6>1
        <5> QED BY <5>1, <5>2
      <4>2. g = [k \in 1..m |-> g[k]]
        OBVIOUS
      <4> HIDE DEF g
      <4> QED BY <4>1, <4>2
    <3> HIDE DEF g
    <3>5. ASSUME NEW j \in 1..m, NEW k \in 1..m, j < k PROVE g[j] < g[k]
      <4>1. j \in 1..Len(r)
        BY <3>2, <3>5
      <4>2. CASE k \in 1..Len(r)
        BY <2>1, <3>3, <3>5, <4>1, <4>2 DEF TakenFrom
      <4>3. CASE k = m
        BY <2>3, <3>3, <4>1, <4>3
      <4> QED BY <3>2, <4>2, <4>3
    <3>6. ASSUME NEW k \in 1..m PROVE q[k] = s[g[k]] /\ q[k] \in T
      <4>1. CASE k \in 1..Len(r)
        BY <2>1, <3>1, <3>3, <4>1 DEF TakenFrom
      <4>2. CASE k = m
        BY <2>6, <3>1, <3>3, <4>2
      <4> QED BY <3>2, <4>1, <4>2
    <3>7. ASSUME NEW x \in 1..i, s[x] \in T PROVE \E k \in 1..m : g[k] = x
      <4>1. CASE x = i
        BY <3>2, <3>3, <4>1
      <4>2. CASE x # i
        <5>1. x \in 1..i - 1
          BY <2>3, <4>2
        <5>2. PICK k \in 1..Len(r) : e[k] = x
          BY <2>1, <3>7, <5>1 DEF TakenFrom
        <5> QED BY <3>2, <3>3, <5>2
      <4> QED BY <4>1, <4>2
    <3>8. TakenFrom(g, q, s, T, i)
      BY <3>1, <3>4, <3>5, <3>6, <3>7 DEF TakenFrom
    <3>9. f[i] = q /\ i \in 0..n
      BY <2>3, <2>4, <2>6 DEF q
    <3> QED BY <3>1, <3>8, <3>9
  <2> QED BY <2>5, <2>6
<1> HIDE DEF P
<1>5. P \in SUBSET (0..n)
  BY DEF P
<1>6. n \in P
  BY <1>1, <1>3, <1>4, <1>5, Induction
<1> QED BY <1>2, <1>6 DEF P

(* What is selected: the elements that are in T ...                         *)
LEMMA SelectedElements ==
  ASSUME NEW S, NEW s \in Seq(S), NEW T
  PROVE  /\ Selected(s, T) \in Seq(S)
         /\ DOMAIN Selected(s, T) = 1..Len(Selected(s, T))
         /\ {Selected(s, T)[k] : k \in DOMAIN Selected(s, T)} = {s[k] : k \in DOMAIN s} \cap T
<1> DEFINE r == Selected(s, T)
<1>1. r \in Seq(S)
  BY SelectedPlaces
<1>2. PICK e : TakenFrom(e, r, s, T, Len(s))
  BY SelectedPlaces
<1> HIDE DEF r
<1>3. DOMAIN r = 1..Len(r) /\ DOMAIN s = 1..Len(s)
  BY <1>1, LenProperties
<1>4. {r[k] : k \in DOMAIN r} = {s[k] : k \in DOMAIN s} \cap T
  BY <1>2, <1>3 DEF TakenFrom
<1> QED BY <1>1, <1>3, <1>4 DEF r

(* ... each once if it is once in s ...                                     *)
LEMMA SelectedInjective ==
  ASSUME NEW S, NEW s \in Seq(S), NEW T,
         \A i, j \in 1..Len(s) : s[i] = s[j] => i = j
  PROVE  \A i, j \in 1..Len(Selected(s, T)) : Selected(s, T)[i] = Selected(s, T)[j] => i = j
<1> DEFINE r == Selected(s, T)
<1>1. r \in Seq(S)
  BY SelectedPlaces
<1>2. PICK e : TakenFrom(e, r, s, T, Len(s))
  BY SelectedPlaces
<1> HIDE DEF r
<1>3. Len(r) \in Nat /\ Len(s) \in Nat
  BY <1>1, LenProperties
<1>4. ASSUME NEW i \in 1..Len(r), NEW j \in 1..Len(r), r[i] = r[j] PROVE i = j
  <2>1. e[i] \in 1..Len(s) /\ e[j] \in 1..Len(s) /\ e[i] = e[j]
    BY <1>2, <1>4 DEF TakenFrom
  <2>2. ~(i < j) /\ ~(j < i)
    BY <1>2, <1>3, <2>1 DEF TakenFrom
  <2> QED BY <1>3, <2>2
<1> QED BY <1>4 DEF r

(* ... and the last of them last.                                           *)
LEMMA SelectedLast ==
  ASSUME NEW S, NEW s \in Seq(S), NEW T, NEW m \in 1..Len(s), s[m] \in T,
         \A k \in 1..Len(s) : s[k] \in T => k <= m
  PROVE  Selected(s, T) # <<>> /\ Selected(s, T)[Len(Selected(s, T))] = s[m]
<1> DEFINE r == Selected(s, T)
<1>1. r \in Seq(S)
  BY SelectedPlaces
<1>2. PICK e : TakenFrom(e, r, s, T, Len(s))
  BY SelectedPlaces
<1> HIDE DEF r
<1>3. Len(r) \in Nat /\ Len(s) \in Nat
  BY <1>1, LenProperties
<1>4. PICK k \in 1..Len(r) : e[k] = m
  BY <1>2 DEF TakenFrom
<1>5. Len(r) \in 1..Len(r) /\ k <= Len(r)
  BY <1>3
<1>6. e[Len(r)] \in 1..Len(s) /\ s[e[Len(r)]] \in T /\ r[Len(r)] = s[e[Len(r)]]
  BY <1>2, <1>5 DEF TakenFrom
<1>7. k = Len(r)
  <2>1. e[Len(r)] <= m
    BY <1>6
  <2>2. k < Len(r) => e[k] < e[Len(r)]
    BY <1>2, <1>5 DEF TakenFrom
  <2> QED BY <1>3, <1>4, <1>5, <1>6, <2>1, <2>2
<1>8. r # <<>>
  BY <1>3, <1>4, EmptySeq
<1> QED BY <1>4, <1>6, <1>7, <1>8 DEF r
--------------------------------------------------------------------------------
(* An answer that has come is taken out of those that are awaited.          *)
LEMMA RemoveAtFacts ==
  ASSUME NEW S, NEW q \in Seq(S), NEW k \in DOMAIN q
  PROVE  /\ RemoveAt(q, k) \in Seq(S) /\ Len(q) \in Nat /\ DOMAIN q = 1..Len(q)
         /\ Len(RemoveAt(q, k)) = Len(q) - 1 /\ DOMAIN RemoveAt(q, k) = 1..Len(q) - 1
         /\ \A j \in 1..Len(q) - 1 : RemoveAt(q, k)[j] = IF j < k THEN q[j] ELSE q[j + 1]
<1> DEFINE front == SubSeq(q, 1, k - 1)
           back == SubSeq(q, k + 1, Len(q))
<1>1. Len(q) \in Nat /\ DOMAIN q = 1..Len(q) /\ k \in 1..Len(q)
  BY LenProperties
<1>2. /\ front \in Seq(S) /\ Len(front) = k - 1
      /\ \A j \in 1..k - 1 : front[j] = q[j]
  BY <1>1, SubSeqProperties
<1>3. /\ back \in Seq(S) /\ Len(back) = Len(q) - k
      /\ \A j \in 1..Len(q) - k : back[j] = q[k + j]
  BY <1>1, SubSeqProperties
<1> HIDE DEF front, back
<1>4. /\ front \o back \in Seq(S) /\ Len(front \o back) = Len(q) - 1
      /\ \A j \in 1..Len(q) - 1 :
           (front \o back)[j] = IF j <= k - 1 THEN front[j] ELSE back[j - (k - 1)]
  <2>1. /\ front \o back \in Seq(S) /\ Len(front \o back) = Len(front) + Len(back)
        /\ \A j \in 1..Len(front) + Len(back) :
             (front \o back)[j] = IF j <= Len(front) THEN front[j] ELSE back[j - Len(front)]
    BY <1>2, <1>3, ConcatProperties
  <2>2. Len(front) + Len(back) = Len(q) - 1
    BY <1>1, <1>2, <1>3
  <2> QED BY <1>2, <2>1, <2>2
<1>5. RemoveAt(q, k) = front \o back
  BY DEF RemoveAt, front, back
<1>6. DOMAIN (front \o back) = 1..Len(q) - 1
  BY <1>1, <1>4, LenProperties
<1>7. ASSUME NEW j \in 1..Len(q) - 1
      PROVE  (front \o back)[j] = IF j < k THEN q[j] ELSE q[j + 1]
  <2>1. CASE j < k
    BY <1>1, <1>2, <1>4, <2>1
  <2>2. CASE ~(j < k)
    <3>1. PICK i \in 1..Len(q) - k : i = j - (k - 1)
      BY <1>1, <2>2
    <3>2. (front \o back)[j] = back[i]
      BY <1>1, <1>4, <2>2, <3>1
    <3>3. back[i] = q[j + 1]
      <4>1. k + i = j + 1
        BY <1>1, <3>1
      <4>2. back[i] = q[k + i]
        BY <1>3
      <4> QED BY <4>1, <4>2
    <3> QED BY <2>2, <3>2, <3>3
  <2> QED BY <2>1, <2>2
<1> QED BY <1>1, <1>4, <1>5, <1>6, <1>7

LEMMA FrontFacts ==
  ASSUME NEW S, NEW q \in Seq(S), q # <<>>
  PROVE  /\ Front(q) \in Seq(S) /\ Len(q) \in Nat \ {0} /\ DOMAIN q = 1..Len(q)
         /\ DOMAIN Front(q) = 1..Len(q) - 1
         /\ \A j \in 1..Len(q) - 1 : Front(q)[j] = q[j]
<1>1. Len(q) \in Nat \ {0} /\ DOMAIN q = 1..Len(q)
  BY LenProperties, EmptySeq
<1>2. /\ SubSeq(q, 1, Len(q) - 1) \in Seq(S) /\ Len(SubSeq(q, 1, Len(q) - 1)) = Len(q) - 1
      /\ \A j \in 1..Len(q) - 1 : SubSeq(q, 1, Len(q) - 1)[j] = q[j]
  BY <1>1, SubSeqProperties
<1>3. DOMAIN SubSeq(q, 1, Len(q) - 1) = 1..Len(q) - 1
  BY <1>1, <1>2, LenProperties
<1> QED BY <1>1, <1>2, <1>3 DEF Front

LEMMA AppendFacts ==
  ASSUME NEW S, NEW q \in Seq(S), NEW e \in S
  PROVE  /\ Append(q, e) \in Seq(S) /\ Len(q) \in Nat /\ DOMAIN q = 1..Len(q)
         /\ Len(Append(q, e)) = Len(q) + 1 /\ DOMAIN Append(q, e) = 1..Len(q) + 1
         /\ Append(q, e)[Len(q) + 1] = e
         /\ \A j \in 1..Len(q) : Append(q, e)[j] = q[j]
  BY AppendProperties, LenProperties

(* The elements of a queue.                                                 *)
LEMMA ElementFacts ==
  ASSUME NEW S, NEW q \in Seq(S)
  PROVE  /\ Len(q) \in Nat /\ DOMAIN q = 1..Len(q)
         /\ ToSet(q) \subseteq S /\ ToSet(q) = {q[k] : k \in 1..Len(q)}
         /\ q = <<>> <=> ToSet(q) = {}
<1>1. Len(q) \in Nat /\ DOMAIN q = 1..Len(q) /\ \A k \in 1..Len(q) : q[k] \in S
  BY LenProperties, ElementOfSeq
<1>2. q = <<>> <=> Len(q) = 0
  BY EmptySeq
<1>3. ToSet(q) = {q[k] : k \in 1..Len(q)}
  BY <1>1 DEF ToSet
<1>4. Len(q) = 0 <=> {q[k] : k \in 1..Len(q)} = {}
  <2>1. Len(q) = 0 => 1..Len(q) = {}
    BY <1>1
  <2>2. Len(q) # 0 => 1 \in 1..Len(q)
    BY <1>1
  <2> QED BY <2>1, <2>2
<1> QED BY <1>1, <1>2, <1>3, <1>4

LEMMA FunctionFacts ==
  ASSUME NEW S, NEW n \in Nat, NEW f \in [1..n -> S]
  PROVE  f \in Seq(S) /\ Len(f) = n /\ DOMAIN f = 1..n
  BY LenProperties

LEMMA ConcatFacts ==
  ASSUME NEW S, NEW q \in Seq(S), NEW r \in Seq(S)
  PROVE  /\ q \o r \in Seq(S) /\ Len(q \o r) = Len(q) + Len(r)
         /\ \A k \in 1..Len(q) : (q \o r)[k] = q[k]
         /\ \A k \in 1..Len(r) : (q \o r)[Len(q) + k] = r[k]
         /\ \A k \in 1..Len(q) + Len(r) :
              \/ k \in 1..Len(q)
              \/ k - Len(q) \in 1..Len(r) /\ k = Len(q) + (k - Len(q))
         /\ ToSet(q \o r) = ToSet(q) \cup ToSet(r)
<1> DEFINE m == Len(q)
           n == Len(r)
           c == q \o r
<1>1. /\ m \in Nat /\ n \in Nat /\ c \in Seq(S) /\ Len(c) = m + n
      /\ \A k \in 1..m + n : c[k] = IF k <= m THEN q[k] ELSE r[k - m]
  BY ConcatProperties, LenProperties
<1>2. ToSet(q) = {q[k] : k \in 1..m} /\ ToSet(r) = {r[k] : k \in 1..n}
  BY ElementFacts
<1>3. ToSet(c) = {c[k] : k \in 1..m + n}
  <2>1. \A s \in Seq(S) : ToSet(s) = {s[k] : k \in 1..Len(s)}
    BY ElementFacts
  <2>2. ToSet(c) = {c[k] : k \in 1..Len(c)}
    BY <1>1, <2>1
  <2> HIDE DEF m, n, c
  <2> QED BY <1>1, <2>2
<1> HIDE DEF m, n, c
<1>4. \A k \in 1..m : k \in 1..m + n /\ c[k] = q[k]
  BY <1>1
<1>5. ASSUME NEW k \in 1..n PROVE m + k \in 1..m + n /\ c[m + k] = r[k]
  <2>1. m + k \in 1..m + n /\ ~(m + k <= m) /\ (m + k) - m = k
    BY <1>1
  <2> QED BY <1>1, <2>1
<1>6. \A k \in 1..m + n : k \in 1..m \/ (k - m \in 1..n /\ k = m + (k - m))
  BY <1>1
<1>7. ToSet(c) = ToSet(q) \cup ToSet(r)
  <2>1. ToSet(c) \subseteq ToSet(q) \cup ToSet(r)
    BY <1>2, <1>3, <1>4, <1>5, <1>6
  <2>2. ToSet(q) \subseteq ToSet(c) /\ ToSet(r) \subseteq ToSet(c)
    BY <1>2, <1>3, <1>4, <1>5
  <2> QED BY <2>1, <2>2
<1> QED BY <1>1, <1>4, <1>5, <1>6, <1>7 DEF m, n, c

LEMMA AppendElements ==
  ASSUME NEW S, NEW q \in Seq(S), NEW e \in S
  PROVE  /\ Append(q, e) \in Seq(S)
         /\ ToSet(Append(q, e)) = ToSet(q) \cup {e}
<1>1. /\ Append(q, e) \in Seq(S) /\ Len(q) \in Nat /\ DOMAIN q = 1..Len(q)
      /\ DOMAIN Append(q, e) = 1..Len(q) + 1
      /\ Append(q, e)[Len(q) + 1] = e
      /\ \A j \in 1..Len(q) : Append(q, e)[j] = q[j]
  BY AppendFacts
<1>2. 1..Len(q) + 1 = (1..Len(q)) \cup {Len(q) + 1}
  BY <1>1
<1>3. ToSet(Append(q, e)) = ToSet(q) \cup {e}
  BY <1>1, <1>2 DEF ToSet
<1> QED BY <1>1, <1>3

LEMMA Singleton ==
  ASSUME NEW S, NEW e \in S
  PROVE  <<e>> \in Seq(S) /\ Len(<<e>>) = 1 /\ <<e>>[1] = e /\ ToSet(<<e>>) = {e}
<1>1. <<e>> \in Seq(S) /\ Len(<<e>>) = 1 /\ <<e>>[1] = e
  OBVIOUS
<1>2. ToSet(<<e>>) = {<<e>>[k] : k \in 1..Len(<<e>>)}
  BY <1>1, ElementFacts
<1>3. 1..Len(<<e>>) = {1}
  BY <1>1
<1> QED BY <1>1, <1>2, <1>3

LEMMA TwoElements ==
  ASSUME NEW S, NEW d \in S, NEW e \in S
  PROVE  <<d, e>> \in Seq(S) /\ Len(<<d, e>>) = 2 /\ ToSet(<<d, e>>) = {d, e}
<1> DEFINE p == <<d, e>>
<1>1. p \in Seq(S) /\ Len(p) = 2 /\ p[1] = d /\ p[2] = e
  OBVIOUS
<1> HIDE DEF p
<1>2. ToSet(p) = {p[k] : k \in 1..Len(p)}
  BY <1>1, ElementFacts
<1>3. 1..Len(p) = {1, 2}
  BY <1>1
<1> QED BY <1>1, <1>2, <1>3 DEF p

LEMMA TailFacts ==
  ASSUME NEW S, NEW q \in Seq(S), q # <<>>
  PROVE  /\ Head(q) \in S /\ Head(q) = q[1] /\ Tail(q) \in Seq(S)
         /\ Len(q) \in Nat \ {0} /\ Len(Tail(q)) = Len(q) - 1
         /\ \A k \in 1..Len(Tail(q)) : Tail(q)[k] = q[k + 1] /\ k + 1 \in 1..Len(q)
         /\ ToSet(q) = {Head(q)} \cup ToSet(Tail(q))
<1>1. /\ Head(q) \in S /\ Head(q) = q[1] /\ Tail(q) \in Seq(S)
      /\ Len(Tail(q)) = Len(q) - 1
      /\ \A k \in 1..Len(Tail(q)) : Tail(q)[k] = q[k + 1]
  BY HeadTailProperties
<1>2. Len(q) \in Nat \ {0}
  BY EmptySeq, LenProperties
<1>3. ToSet(q) = {q[k] : k \in 1..Len(q)} /\ ToSet(Tail(q)) = {Tail(q)[k] : k \in 1..Len(q) - 1}
  <2>1. \A s \in Seq(S) : ToSet(s) = {s[k] : k \in 1..Len(s)}
    BY ElementFacts
  <2>2. ToSet(Tail(q)) = {Tail(q)[k] : k \in 1..Len(Tail(q))}
    BY <1>1, <2>1
  <2> QED BY <1>1, <2>1, <2>2
<1>4. \A k \in 1..Len(q) : k = 1 \/ (k - 1 \in 1..Len(q) - 1 /\ (k - 1) + 1 = k)
  BY <1>2
<1>5. \A k \in 1..Len(q) - 1 : k + 1 \in 1..Len(q)
  BY <1>2
<1>6. 1 \in 1..Len(q)
  BY <1>2
<1>7. ToSet(q) \subseteq {Head(q)} \cup ToSet(Tail(q))
  BY <1>1, <1>3, <1>4
<1>8. {Head(q)} \cup ToSet(Tail(q)) \subseteq ToSet(q)
  BY <1>1, <1>3, <1>5, <1>6
<1> QED BY <1>1, <1>2, <1>5, <1>7, <1>8

LEMMA SelectedSet ==
  ASSUME NEW S, NEW q \in Seq(S), NEW T
  PROVE  Selected(q, T) \in Seq(S) /\ ToSet(Selected(q, T)) = ToSet(q) \cap T
  BY SelectedElements DEF ToSet
--------------------------------------------------------------------------------
(* Every two elements of q, in their order, are related.                    *)
Ordered(q, R) == \A i, j \in 1..Len(q) : i < j => <<q[i], q[j]>> \in R

LEMMA OrderedConcat ==
  ASSUME NEW S, NEW q \in Seq(S), NEW r \in Seq(S), NEW R,
         Ordered(q, R), Ordered(r, R),
         \A x \in ToSet(q), y \in ToSet(r) : <<x, y>> \in R
  PROVE  Ordered(q \o r, R)
<1> DEFINE m == Len(q)
           n == Len(r)
           c == q \o r
<1>1. /\ Len(c) = m + n
      /\ \A k \in 1..m : c[k] = q[k]
      /\ \A k \in 1..n : c[m + k] = r[k]
      /\ \A k \in 1..m + n : k \in 1..m \/ (k - m \in 1..n /\ k = m + (k - m))
  BY ConcatFacts
<1>2. m \in Nat /\ n \in Nat /\ \A k \in 1..m : q[k] \in ToSet(q)
  BY ElementFacts
<1>3. \A k \in 1..n : r[k] \in ToSet(r)
  BY ElementFacts
<1>4. \A i, j \in 1..m : i < j => <<q[i], q[j]>> \in R
  BY DEF Ordered
<1>5. \A i, j \in 1..n : i < j => <<r[i], r[j]>> \in R
  BY DEF Ordered
<1> HIDE DEF m, n, c
<1>6. ASSUME NEW i \in 1..m + n, NEW j \in 1..m + n, i < j PROVE <<c[i], c[j]>> \in R
  <2>1. CASE j \in 1..m
    <3>1. i \in 1..m
      BY <1>2, <1>6, <2>1
    <3> QED BY <1>1, <1>4, <1>6, <2>1, <3>1
  <2>2. CASE i \in 1..m /\ j \notin 1..m
    <3>1. PICK b \in 1..n : b = j - m /\ j = m + b
      BY <1>1, <2>2
    <3> QED BY <1>1, <1>2, <1>3, <2>2, <3>1
  <2>3. CASE i \notin 1..m /\ j \notin 1..m
    <3>1. PICK a \in 1..n : a = i - m /\ i = m + a
      BY <1>1, <2>3
    <3>2. PICK b \in 1..n : b = j - m /\ j = m + b
      BY <1>1, <2>3
    <3>3. a < b
      BY <1>2, <1>6, <3>1, <3>2
    <3> QED BY <1>1, <1>5, <3>1, <3>2, <3>3
  <2>4. i \notin 1..m => j \notin 1..m
    BY <1>2, <1>6
  <2> QED BY <2>1, <2>2, <2>3, <2>4
<1> QED BY <1>1, <1>6 DEF Ordered, c

LEMMA OrderedTail ==
  ASSUME NEW S, NEW q \in Seq(S), q # <<>>, NEW R, Ordered(q, R)
  PROVE  /\ Ordered(Tail(q), R)
         /\ \A y \in ToSet(Tail(q)) : <<Head(q), y>> \in R
<1> DEFINE t == Tail(q)
<1>1. /\ t \in Seq(S) /\ Head(q) = q[1] /\ Len(q) \in Nat \ {0} /\ Len(t) = Len(q) - 1
      /\ \A k \in 1..Len(t) : t[k] = q[k + 1] /\ k + 1 \in 1..Len(q)
  BY TailFacts
<1>2. ToSet(t) = {t[k] : k \in 1..Len(t)}
  BY <1>1, ElementFacts
<1>3. \A i, j \in 1..Len(q) : i < j => <<q[i], q[j]>> \in R
  BY DEF Ordered
<1> HIDE DEF t
<1>4. ASSUME NEW i \in 1..Len(t), NEW j \in 1..Len(t), i < j PROVE <<t[i], t[j]>> \in R
  <2>1. i + 1 < j + 1
    BY <1>4
  <2> QED BY <1>1, <1>3, <2>1
<1>5. ASSUME NEW j \in 1..Len(t) PROVE <<q[1], t[j]>> \in R
  <2>1. 1 \in 1..Len(q) /\ 1 < j + 1
    BY <1>1
  <2> QED BY <1>1, <1>3, <2>1
<1> QED BY <1>1, <1>2, <1>4, <1>5 DEF Ordered, t
--------------------------------------------------------------------------------
(* The last element of q that is in X, if there is one, is in Y.            *)
LastIn(q, X, Y) ==
  \A i \in 1..Len(q) :
    q[i] \in X /\ (\A j \in 1..Len(q) : i < j => q[j] \notin X) => q[i] \in Y

LEMMA LastInConcat ==
  ASSUME NEW S, NEW q \in Seq(S), NEW r \in Seq(S), NEW X, NEW Y,
         \/ LastIn(q, X, Y) /\ ToSet(r) \cap X = {}
         \/ LastIn(r, X, Y) /\ ToSet(r) \cap X # {}
         \/ LastIn(q, X, Y) /\ LastIn(r, X, Y)
  PROVE  LastIn(q \o r, X, Y)
<1> DEFINE m == Len(q)
           n == Len(r)
           c == q \o r
<1>1. /\ Len(c) = m + n
      /\ \A k \in 1..m : c[k] = q[k]
      /\ \A k \in 1..n : c[m + k] = r[k]
      /\ \A k \in 1..m + n : k \in 1..m \/ (k - m \in 1..n /\ k = m + (k - m))
  BY ConcatFacts
<1>2. m \in Nat /\ n \in Nat
  BY ElementFacts
<1>3. ToSet(r) = {r[k] : k \in 1..n}
  BY ElementFacts
<1>4. SUFFICES ASSUME NEW i \in 1..m + n, c[i] \in X,
                      \A j \in 1..m + n : i < j => c[j] \notin X
               PROVE  c[i] \in Y
  BY <1>1 DEF LastIn
<1>5. \A j \in 1..n : m + j \in 1..m + n
  BY <1>2
<1>6. CASE i \in 1..m
  <2>1. ToSet(r) \cap X = {}
    <3>1. \A j \in 1..n : i < m + j
      BY <1>2, <1>6
    <3> HIDE DEF m, n, c
    <3> QED BY <1>1, <1>3, <1>4, <1>5, <3>1
  <2>2. LastIn(q, X, Y)
    BY <2>1
  <2>3. \A j \in 1..m : i < j => q[j] \notin X
    <3>1. \A j \in 1..m : j \in 1..m + n
      BY <1>2
    <3> HIDE DEF m, n, c
    <3> QED BY <1>1, <1>4, <3>1
  <2>4. q[i] \in X /\ c[i] = q[i]
    BY <1>1, <1>4, <1>6
  <2> QED BY <1>6, <2>2, <2>3, <2>4 DEF LastIn
<1>7. CASE i \notin 1..m
  <2>1. PICK k \in 1..n : i = m + k
    BY <1>1, <1>7
  <2>2. c[i] = r[k]
    BY <1>1, <2>1
  <2>3. r[k] \in X /\ ToSet(r) \cap X # {}
    BY <1>3, <1>4, <2>2
  <2>4. LastIn(r, X, Y)
    BY <2>3
  <2>5. \A j \in 1..n : k < j => r[j] \notin X
    <3>1. \A j \in 1..n : k < j => i < m + j
      BY <1>2, <2>1
    <3> HIDE DEF m, n, c
    <3> QED BY <1>1, <1>4, <1>5, <3>1
  <2> QED BY <2>2, <2>3, <2>4, <2>5 DEF LastIn
<1> QED BY <1>6, <1>7

LEMMA LastInAll ==
  ASSUME NEW S, NEW q \in Seq(S), NEW X, NEW Y, ToSet(q) \cap X \subseteq Y
  PROVE  LastIn(q, X, Y)
  BY ElementFacts DEF LastIn

LEMMA LastInTail ==
  ASSUME NEW S, NEW q \in Seq(S), q # <<>>, NEW X, NEW Y, LastIn(q, X, Y)
  PROVE  /\ LastIn(Tail(q), X, Y)
         /\ Head(q) \in X /\ ToSet(Tail(q)) \cap X = {} => Head(q) \in Y
<1> DEFINE t == Tail(q)
<1>1. /\ t \in Seq(S) /\ Head(q) = q[1] /\ Len(q) \in Nat \ {0} /\ Len(t) = Len(q) - 1
      /\ \A k \in 1..Len(t) : t[k] = q[k + 1] /\ k + 1 \in 1..Len(q)
  BY TailFacts
<1>2. ToSet(t) = {t[k] : k \in 1..Len(t)}
  BY <1>1, ElementFacts
<1>3. \A j \in 1..Len(q) : j = 1 \/ (j - 1 \in 1..Len(t) /\ (j - 1) + 1 = j /\ q[j] = t[j - 1])
  BY <1>1
<1> HIDE DEF t
<1>4. LastIn(t, X, Y)
  <2>1. SUFFICES ASSUME NEW i \in 1..Len(t), t[i] \in X,
                        \A j \in 1..Len(t) : i < j => t[j] \notin X
                 PROVE  t[i] \in Y
    BY DEF LastIn
  <2>2. ASSUME NEW j \in 1..Len(q), i + 1 < j PROVE q[j] \notin X
    <3>1. j # 1 /\ i < j - 1
      BY <2>2
    <3> QED BY <1>3, <2>1, <3>1
  <2> QED BY <1>1, <2>1, <2>2 DEF LastIn
<1>5. ASSUME q[1] \in X, ToSet(t) \cap X = {} PROVE q[1] \in Y
  <2>1. 1 \in 1..Len(q)
    BY <1>1
  <2>2. ASSUME NEW j \in 1..Len(q), 1 < j PROVE q[j] \notin X
    BY <1>2, <1>3, <1>5, <2>2
  <2> QED BY <1>5, <2>1, <2>2 DEF LastIn
<1> QED BY <1>1, <1>4, <1>5 DEF t

(* An empty queue has no last element.                                      *)
LEMMA LastInEmpty ==
  ASSUME NEW X, NEW Y
  PROVE  LastIn(<<>>, X, Y)
<1>1. Len(<<>>) = 0
  BY EmptySeq
<1> QED BY <1>1 DEF LastIn
--------------------------------------------------------------------------------
(* The list of a set, each element once.                                    *)
LEMMA Enumeration ==
  ASSUME NEW S, IsFiniteSet(S), NEW l \in [1..Cardinality(S) -> S],
         \A i, j \in 1..Cardinality(S) : l[i] = l[j] => i = j
  PROVE  /\ l \in Seq(S) /\ Len(l) = Cardinality(S) /\ Len(l) \in Nat
         /\ DOMAIN l = 1..Cardinality(S) /\ ToSet(l) = S
<1> DEFINE n == Cardinality(S)
<1>1. n \in Nat
  BY FS_CardinalityType
<1>2. l \in Seq(S) /\ Len(l) = n
  BY <1>1, LenProperties
<1>3. IsFiniteSet(1..n) /\ Cardinality(1..n) = n
  BY <1>1, FS_Interval
<1>4. l \in Injection(1..n, S)
  BY DEF Injection, IsInjective
<1>5. l \in Surjection(1..n, S)
  BY <1>3, <1>4, FS_Injection
<1>6. \A x \in S : \E k \in 1..n : l[k] = x
  BY <1>5 DEF Surjection
<1>7. ToSet(l) = {l[k] : k \in 1..n}
  BY DEF ToSet
<1>8. ToSet(l) = S
  BY <1>6, <1>7
<1> QED BY <1>1, <1>2, <1>8
--------------------------------------------------------------------------------
(* Selecting what contains all of X keeps the last of X.                    *)
LEMMA LastInSelected ==
  ASSUME NEW S, NEW q \in Seq(S), NEW T, NEW X, NEW Y, LastIn(q, X, Y), ToSet(q) \cap X \subseteq T
  PROVE  LastIn(Selected(q, T), X, Y)
<1> DEFINE r == Selected(q, T)
<1>1. r \in Seq(S)
  BY SelectedPlaces
<1>2. PICK e : TakenFrom(e, r, q, T, Len(q))
  BY SelectedPlaces
<1> HIDE DEF r
<1>3. Len(r) \in Nat /\ Len(q) \in Nat /\ ToSet(q) = {q[k] : k \in 1..Len(q)}
  BY <1>1, ElementFacts
<1>4. ASSUME NEW i \in 1..Len(r), r[i] \in X, \A j \in 1..Len(r) : i < j => r[j] \notin X
      PROVE  r[i] \in Y
  <2>1. e[i] \in 1..Len(q) /\ q[e[i]] = r[i]
    BY <1>2 DEF TakenFrom
  <2>2. ASSUME NEW m \in 1..Len(q), e[i] < m, q[m] \in X PROVE FALSE
    <3>1. q[m] \in T
      BY <1>3, <2>2
    <3>2. PICK k \in 1..Len(r) : e[k] = m
      BY <1>2, <3>1 DEF TakenFrom
    <3>3. r[k] \in X
      BY <1>2, <2>2, <3>2 DEF TakenFrom
    <3>4. ~(i < k)
      BY <1>4, <3>3
    <3>5. k = i \/ k < i
      BY <1>3, <3>4
    <3>6. k < i => e[k] < e[i]
      BY <1>2 DEF TakenFrom
    <3>7. e[i] \in Nat /\ m \in Nat
      BY <1>3, <2>1
    <3> QED BY <2>2, <3>2, <3>5, <3>6, <3>7
  <2> QED BY <1>4, <2>1, <2>2 DEF LastIn
<1> QED BY <1>4 DEF LastIn, r

(* What is in X is the same in r as in q, and so is its last.               *)
SameIn(q, r, X) ==
  /\ ToSet(r) \cap X = ToSet(q) \cap X
  /\ \A Y : LastIn(q, X, Y) => LastIn(r, X, Y)

LEMMA Untouched ==
  ASSUME NEW S, NEW q \in Seq(S), NEW new \in Seq(S), NEW X, ToSet(new) \cap X = {}
  PROVE  /\ q \o new \in Seq(S) /\ SameIn(q, q \o new, X)
         /\ q # <<>> /\ Head(q) \notin X =>
              Tail(q) \o new \in Seq(S) /\ SameIn(q, Tail(q) \o new, X)
<1>1. ASSUME NEW t \in Seq(S)
      PROVE  /\ t \o new \in Seq(S) /\ ToSet(t \o new) \cap X = ToSet(t) \cap X
             /\ \A Y : LastIn(t, X, Y) => LastIn(t \o new, X, Y)
  <2>1. t \o new \in Seq(S) /\ ToSet(t \o new) = ToSet(t) \cup ToSet(new)
    BY ConcatFacts
  <2>2. \A Y : LastIn(t, X, Y) => LastIn(t \o new, X, Y)
    BY LastInConcat
  <2> QED BY <2>1, <2>2
<1>2. ASSUME q # <<>>, Head(q) \notin X
      PROVE  Tail(q) \o new \in Seq(S) /\ SameIn(q, Tail(q) \o new, X)
  <2>1. Tail(q) \in Seq(S) /\ ToSet(q) = {Head(q)} \cup ToSet(Tail(q))
    BY <1>2, TailFacts
  <2>2. \A Y : LastIn(q, X, Y) => LastIn(Tail(q), X, Y)
    BY <1>2, LastInTail
  <2>3. PICK t \in Seq(S) : t = Tail(q)
    BY <2>1
  <2>4. /\ t \o new \in Seq(S) /\ ToSet(t \o new) \cap X = ToSet(q) \cap X
        /\ \A Y : LastIn(q, X, Y) => LastIn(t \o new, X, Y)
    <3>1. t \o new \in Seq(S) /\ ToSet(t \o new) \cap X = ToSet(t) \cap X
      BY <1>1
    <3>2. \A Y : LastIn(t, X, Y) => LastIn(t \o new, X, Y)
      BY <1>1
    <3>3. ToSet(t) \cap X = ToSet(q) \cap X
      BY <1>2, <2>1, <2>3
    <3> QED BY <2>2, <2>3, <3>1, <3>2, <3>3
  <2> QED BY <2>3, <2>4 DEF SameIn
<1> QED BY <1>1, <1>2 DEF SameIn

LEMMA SelectedSameIn ==
  ASSUME NEW S, NEW q \in Seq(S), NEW T, NEW X, ToSet(q) \cap X \subseteq T
  PROVE  Selected(q, T) \in Seq(S) /\ SameIn(q, Selected(q, T), X)
<1>1. Selected(q, T) \in Seq(S) /\ ToSet(Selected(q, T)) = ToSet(q) \cap T
  BY SelectedSet
<1>2. \A Y : LastIn(q, X, Y) => LastIn(Selected(q, T), X, Y)
  BY LastInSelected
<1> QED BY <1>1, <1>2 DEF SameIn

(* A list without repetition is as long as the set of its elements.         *)
LEMMA LengthOfSet ==
  ASSUME NEW S, NEW q \in Seq(S), \A i, j \in 1..Len(q) : q[i] = q[j] => i = j
  PROVE  IsFiniteSet(ToSet(q)) /\ Len(q) = Cardinality(ToSet(q))
<1>1. Len(q) \in Nat /\ DOMAIN q = 1..Len(q) /\ ToSet(q) = {q[k] : k \in 1..Len(q)}
  BY ElementFacts
<1>2. IsFiniteSet(1..Len(q)) /\ Cardinality(1..Len(q)) = Len(q)
  BY <1>1, FS_Interval
<1>3. q \in [1..Len(q) -> ToSet(q)]
  BY <1>1
<1>4. q \in Bijection(1..Len(q), ToSet(q))
  BY <1>1, <1>3 DEF Bijection, Injection, Surjection, IsInjective
<1>5. ExistsBijection(1..Len(q), ToSet(q))
  BY <1>4 DEF ExistsBijection
<1> QED BY <1>2, <1>5, FS_Bijection
================================================================================
