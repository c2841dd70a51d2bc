---------------------------- MODULE SequenceLemmas ----------------------------
(***************************************************************************)
(* Lemmas about the operators of Values on sets and sequences, for the     *)
(* modules with proofs: what sorting a set by an order gives, what is left *)
(* of a sequence, that two sequences of the same elements in the same      *)
(* order are equal, and the least and the largest of some numbers.         *)
(***************************************************************************)
EXTENDS Values, SequencesExt, FiniteSetTheorems, SequenceTheorems, WellFoundedInduction, TLAPS

------------------------------------------------------------------------------
(* The least and the largest of some numbers. *)

\* The order of the numbers, as a relation.
LEMMA OrderWellFounded ==
  \E R : (\A a, b \in Nat : <<a, b>> \in R <=> a < b) /\ IsWellFoundedOn(R, Nat)
<1>1. \A a, b \in Nat : <<a, b>> \in OpToRel(<, Nat) <=> a < b
  BY DEF OpToRel
<1>2. QED
  BY <1>1, NatLessThanWellFounded, Zenon

\* A set of numbers that is not empty has a least member in that order.
LEMMA HasMinimum ==
  ASSUME NEW R, IsWellFoundedOn(R, Nat), NEW keys \in SUBSET Nat, keys # {}
  PROVE  \E k \in keys : \A j \in keys : ~ (<<j, k>> \in R)
<1>1. keys \subseteq Nat
  OBVIOUS
<1>2. QED
  BY <1>1, WFMin, Zenon

\* The same with <=, the form the proofs use.
LEMMA LeastNumber ==
  ASSUME NEW S \in SUBSET Nat, S # {}
  PROVE  \E k \in S : (\A j \in S : k <= j) /\ \A j \in Nat : j < k => j \notin S
<1>1. PICK R : (\A a, b \in Nat : <<a, b>> \in R <=> a < b) /\ IsWellFoundedOn(R, Nat)
  BY OrderWellFounded
<1>2. PICK k \in S : \A j \in S : ~ (<<j, k>> \in R)
  BY <1>1, HasMinimum
<1>3. \A j \in S : ~ (j < k)
  BY <1>1, <1>2
<1>4. QED
  BY <1>3

\* Of finitely many numbers one is the largest: the bounds of them have a least one.
LEMMA LargestIs ==
  ASSUME NEW S \in SUBSET Nat, IsFiniteSet(S)
  PROVE  /\ Largest(S) \in S \cup {0} /\ Largest(S) \in Nat
         /\ \A n \in S : n <= Largest(S)
<1> DEFINE bounds == {b \in Nat : \A n \in S : n <= b}
           top == S \cup {0}
<1>0. \A n \in S : n \in Nat
  OBVIOUS
<1>1. bounds # {}
  <2>1. PICK f \in Bijection(1..Cardinality(S), S) : TRUE
    BY FS_CardinalityType DEF ExistsBijection
  <2> DEFINE n == Cardinality(S)
             bad == {k \in 0..n : \A b \in Nat : \E i \in 1..k : ~ (f[i] <= b)}
  <2>2. n \in Nat /\ f \in [1..n -> S] /\ \A x \in S : \E i \in 1..n : f[i] = x
    BY <2>1, FS_CardinalityType DEF Bijection, Injection, Surjection
  <2> HIDE DEF n
  <2>3. bad = {}
    <3>1. SUFFICES ASSUME bad # {} PROVE FALSE
      OBVIOUS
    <3>2. PICK k \in bad : \A j \in Nat : j < k => j \notin bad
      <4>1. bad \in SUBSET Nat
        BY <2>2
      <4> HIDE DEF bad
      <4>2. QED
        BY <3>1, <4>1, LeastNumber
    <3>3. k # 0
      <4>1. 0 \in Nat /\ 1..0 = {}
        OBVIOUS
      <4>2. 0 \notin bad
        BY <4>1
      <4> HIDE DEF bad
      <4>3. QED
        BY <4>2
    <3>4. k \in 1..n /\ k - 1 \in 0..n /\ k - 1 < k /\ k - 1 \in Nat
      BY <2>2, <3>3
    <3>5. PICK b \in Nat : \A i \in 1..(k - 1) : f[i] <= b
      BY <3>2, <3>4
    <3>6. f[k] \in Nat
      BY <2>2, <3>4
    <3> DEFINE last == f[k]
               c == IF b <= last THEN last ELSE b
    <3>7. c \in Nat /\ b <= c /\ last <= c
      <4>1. last \in Nat
        BY <3>6
      <4> HIDE DEF last
      <4>2. QED
        BY <4>1
    <3> HIDE DEF c
    <3>8. \A i \in 1..k : f[i] <= c
      <4>1. TAKE i \in 1..k
      <4>2. CASE i = k
        BY <3>7, <4>2
      <4>3. CASE i # k
        <5>1. i \in 1..(k - 1) /\ i \in 1..n
          BY <2>2, <3>4, <4>3
        <5>2. f[i] \in Nat /\ f[i] <= b
          BY <2>2, <3>5, <5>1
        <5> DEFINE x == f[i]
        <5>3. x \in Nat /\ x <= b /\ b \in Nat /\ c \in Nat /\ b <= c
          BY <3>7, <5>2
        <5> HIDE DEF x
        <5>4. x <= c
          BY <5>3
        <5>5. QED
          BY <5>4 DEF x
      <4>4. QED
        BY <4>2, <4>3
    <3>9. QED
      BY <3>2, <3>7, <3>8
  <2>4. n \notin bad
    BY <2>3
  <2>5. PICK b \in Nat : \A i \in 1..n : f[i] <= b
    BY <2>2, <2>4
  <2>6. \A x \in S : x <= b
    BY <2>2, <2>5
  <2>7. QED
    BY <2>6
<1>2. PICK b \in bounds : \A j \in Nat : j < b => j \notin bounds
  <2>1. bounds \in SUBSET Nat
    OBVIOUS
  <2> HIDE DEF bounds
  <2>2. QED
    BY <1>1, <2>1, LeastNumber
<1>3. b \in top
  <2>1. CASE b = 0
    BY <2>1
  <2>2. CASE b # 0
    <3>1. b - 1 \in Nat /\ b - 1 < b
      BY <2>2
    <3>2. PICK n \in S : ~ (n <= b - 1)
      BY <1>2, <3>1
    <3>3. n \in Nat /\ n <= b
      OBVIOUS
    <3>4. n = b
      BY <3>1, <3>2, <3>3
    <3>5. QED
      BY <3>4
  <2>3. QED
    BY <2>1, <2>2
<1>4. \E m \in top : \A n \in S : n <= m
  BY <1>3
<1>5. Largest(S) \in top /\ \A n \in S : n <= Largest(S)
  BY <1>4 DEF Largest
<1>6. Largest(S) \in Nat
  <2>1. Largest(S) \in S \/ Largest(S) = 0
    BY <1>5
  <2>2. Largest(S) = 0 => Largest(S) \in Nat
    OBVIOUS
  <2>3. QED
    BY <1>0, <2>1, <2>2, Zenon
<1>7. QED
  BY <1>5, <1>6

------------------------------------------------------------------------------
(* A set by an order. *)

IsOrder(D, order) ==
  /\ \A i \in D : ~ (<<i, i>> \in order)
  /\ \A i, j, k \in D : <<i, j>> \in order /\ <<j, k>> \in order => <<i, k>> \in order
  /\ \A i, j \in D : i # j => <<i, j>> \in order \/ <<j, i>> \in order

\* Each member has a number of its own, which follows the order: what comes before the one
\* that comes first is part of what comes before the other.
LEMMA RankFollows ==
  ASSUME NEW D, IsFiniteSet(D), NEW order, IsOrder(D, order),
         NEW rank, rank = [i \in D |-> 1 + Cardinality({j \in D : <<j, i>> \in order})]
  PROVE  /\ \A i \in D : rank[i] \in 1..Cardinality(D)
         /\ \A i, j \in D : <<i, j>> \in order => rank[i] < rank[j]
         /\ \A k \in 1..Cardinality(D) : \E i \in D : rank[i] = k
<1> DEFINE before(i) == {j \in D : <<j, i>> \in order}
           n == Cardinality(D)
<1>1. n \in Nat
  BY FS_CardinalityType
<1>2. ASSUME NEW i \in D
      PROVE  /\ IsFiniteSet(before(i)) /\ Cardinality(before(i)) \in Nat /\ rank[i] = 1 + Cardinality(before(i))
             /\ Cardinality(before(i)) <= n - 1
  <2>1. before(i) \in SUBSET (D \ {i})
    BY DEF IsOrder
  <2>2. IsFiniteSet(D \ {i}) /\ Cardinality(D \ {i}) = n - 1
    BY FS_RemoveElement
  <2>3. rank[i] = 1 + Cardinality(before(i))
    OBVIOUS
  <2> HIDE DEF before, n
  <2>4. IsFiniteSet(before(i)) /\ Cardinality(before(i)) <= Cardinality(D \ {i})
    BY <2>1, <2>2, FS_Subset
  <2>5. QED
    BY <2>2, <2>3, <2>4, FS_CardinalityType
<1>3. ASSUME NEW i \in D PROVE rank[i] \in 1..n
  <2> DEFINE c == Cardinality(before(i))
  <2>1. c \in Nat /\ c <= n - 1 /\ rank[i] = 1 + c
    BY <1>2
  <2> HIDE DEF c, before, n
  <2>2. QED
    BY <1>1, <2>1
<1>4. ASSUME NEW i \in D, NEW j \in D, <<i, j>> \in order PROVE rank[i] < rank[j]
  <2>1. before(i) \cup {i} \in SUBSET before(j) /\ ~ (i \in before(i))
    BY <1>4 DEF IsOrder
  <2> HIDE DEF before, n
  <2>2. /\ IsFiniteSet(before(i) \cup {i})
        /\ Cardinality(before(i) \cup {i}) = Cardinality(before(i)) + 1
    BY <1>2, <2>1, FS_AddElement
  <2>3. Cardinality(before(i) \cup {i}) <= Cardinality(before(j))
    BY <1>2, <2>1, FS_Subset
  <2>4. QED
    BY <1>2, <2>2, <2>3
<1> HIDE DEF before
<1>5. rank \in Injection(D, 1..n)
  <2>1. rank \in [D -> 1..n]
    BY <1>3
  <2>2. ASSUME NEW i \in D, NEW j \in D, rank[i] = rank[j] PROVE i = j
    <3>1. rank[i] \in Int /\ rank[j] \in Int
      BY <1>3
    <3>2. ~ (<<i, j>> \in order) /\ ~ (<<j, i>> \in order)
      BY <1>4, <2>2, <3>1
    <3>3. QED
      BY <3>2 DEF IsOrder
  <2>3. QED
    BY <2>1, <2>2 DEF Injection, IsInjective
<1>6. IsFiniteSet(1..n) /\ Cardinality(1..n) = n
  BY <1>1, FS_Interval
<1>7. rank \in Surjection(D, 1..n)
  BY <1>5, <1>6, FS_Injection
<1>8. QED
  BY <1>3, <1>4, <1>7 DEF Surjection

\* A sorted listing of finitely many values has each of them once, in the order given.
LEMMA SortedFacts ==
  ASSUME NEW D, IsFiniteSet(D), NEW order, IsOrder(D, order), NEW s, s = Sorted(D, order)
  PROVE  /\ s \in Seq(D) /\ Len(s) = Cardinality(D) /\ Len(s) \in Nat /\ DOMAIN s = 1..Len(s)
         /\ Elements(s) = D
         /\ \A i, j \in DOMAIN s : i < j => <<s[i], s[j]>> \in order
<1> DEFINE n == Cardinality(D)
<1>0. PICK rank : rank = [i \in D |-> 1 + Cardinality({j \in D : <<j, i>> \in order})]
  OBVIOUS
<1>1. n \in Nat
  BY FS_CardinalityType
<1>2. s = [k \in 1..n |-> CHOOSE i \in D : rank[i] = k]
  BY <1>0 DEF Sorted
<1>3. /\ \A i \in D : rank[i] \in 1..n
      /\ \A i, j \in D : <<i, j>> \in order => rank[i] < rank[j]
      /\ \A k \in 1..n : \E i \in D : rank[i] = k
  BY <1>0, RankFollows
<1> HIDE DEF n
<1>4. ASSUME NEW k \in 1..n PROVE s[k] \in D /\ rank[s[k]] = k
  BY <1>2, <1>3
<1>5. s \in [1..n -> D]
  BY <1>2, <1>4
<1>6. s \in Seq(D) /\ Len(s) = n /\ DOMAIN s = 1..n
  <2>1. s \in Seq(D)
    BY <1>1, <1>5, SeqDef
  <2>2. QED
    BY <1>1, <1>5, <2>1, LenProperties
<1>7. Elements(s) = D
  <2>1. ASSUME NEW i \in D PROVE i \in Elements(s)
    <3>1. rank[i] \in 1..n /\ s[rank[i]] \in D /\ rank[s[rank[i]]] = rank[i]
      BY <1>3, <1>4
    <3>2. s[rank[i]] = i
      <4> DEFINE j == s[rank[i]]
      <4>1. j \in D /\ rank[j] = rank[i] /\ rank[i] \in Int
        BY <3>1
      <4> HIDE DEF j
      <4>2. ~ (<<i, j>> \in order) /\ ~ (<<j, i>> \in order)
        BY <1>3, <4>1
      <4>3. j = i
        BY <4>1, <4>2 DEF IsOrder
      <4>4. QED
        BY <4>3 DEF j
    <3>3. QED
      BY <1>6, <3>1, <3>2 DEF Elements
  <2>2. QED
    BY <1>4, <1>6, <2>1 DEF Elements
<1>8. ASSUME NEW i \in DOMAIN s, NEW j \in DOMAIN s, i < j PROVE <<s[i], s[j]>> \in order
  <2>1. i \in 1..n /\ j \in 1..n /\ s[i] \in D /\ s[j] \in D /\ rank[s[i]] = i /\ rank[s[j]] = j
    BY <1>4, <1>6
  <2>2. ~ (<<s[j], s[i]>> \in order)
    <3>1. <<s[j], s[i]>> \in order => rank[s[j]] < rank[s[i]]
      BY <1>3, <2>1
    <3>2. QED
      BY <1>8, <2>1, <3>1
  <2>3. s[i] # s[j]
    BY <1>8, <2>1
  <2>4. QED
    BY <2>1, <2>2, <2>3 DEF IsOrder
<1>9. QED
  BY <1>1, <1>6, <1>7, <1>8 DEF n

------------------------------------------------------------------------------
(* Sequences: a rearrangement, what is left of one, its beginning. *)

\* What is at some places of s, in the order of the places p.
IsPicked(t, s, p, places, order) ==
  /\ p \in Seq(places) /\ DOMAIN p = 1..Len(p) /\ Len(p) \in Nat /\ Elements(p) = places
  /\ \A i, j \in DOMAIN p : i < j => <<p[i], p[j]>> \in order
  /\ DOMAIN t = DOMAIN p /\ Len(t) = Len(p) /\ \A k \in DOMAIN p : t[k] = s[p[k]]

IsArranged(t, T, s, places, order) ==
  /\ t \in Seq(T) /\ Len(t) = Cardinality(places) /\ Len(t) <= Len(s)
  /\ DOMAIN t = 1..Len(t) /\ Len(t) \in Nat
  /\ Elements(t) = {s[i] : i \in places}
  /\ \E p : IsPicked(t, s, p, places, order)

\* Listing some places of a sequence in an order: each place is picked once.
LEMMA ArrangedFacts ==
  ASSUME NEW T, NEW s \in Seq(T), NEW places \in SUBSET (DOMAIN s), NEW order, IsOrder(places, order)
  PROVE  IsArranged(Arranged(s, places, order), T, s, places, order)
<1>0. PICK t : t = Arranged(s, places, order)
  OBVIOUS
<1>1. /\ Len(s) \in Nat /\ DOMAIN s = 1..Len(s) /\ \A i \in DOMAIN s : s[i] \in T
  BY LenProperties, ElementOfSeq
<1>2. /\ IsFiniteSet(1..Len(s)) /\ Cardinality(1..Len(s)) = Len(s)
  <2> DEFINE n == Len(s)
  <2>1. n \in Nat
    BY <1>1
  <2> HIDE DEF n
  <2>2. IsFiniteSet(1..n) /\ Cardinality(1..n) = n
    BY <2>1, FS_Interval
  <2>3. QED
    BY <2>2 DEF n
<1>3. IsFiniteSet(places) /\ Cardinality(places) <= Len(s)
  <2>1. places \in SUBSET (1..Len(s))
    BY <1>1
  <2>2. QED
    BY <1>2, <2>1, FS_Subset
<1>4. PICK p : p = Sorted(places, order)
  OBVIOUS
<1>5. /\ p \in Seq(places) /\ Len(p) = Cardinality(places) /\ Len(p) \in Nat /\ DOMAIN p = 1..Len(p)
      /\ Elements(p) = places /\ \A i, j \in DOMAIN p : i < j => <<p[i], p[j]>> \in order
  BY <1>3, <1>4, SortedFacts
<1>6. t = [k \in DOMAIN p |-> s[p[k]]]
  BY <1>0, <1>4 DEF Arranged
<1>7. \A k \in DOMAIN p : p[k] \in places
  BY <1>5, ElementOfSeq
<1>8. t \in [1..Len(p) -> T]
  BY <1>1, <1>5, <1>6, <1>7
<1>9. t \in Seq(T) /\ Len(t) = Len(p) /\ DOMAIN t = 1..Len(p)
  <2>1. t \in Seq(T)
    BY <1>5, <1>8, SeqDef
  <2>2. QED
    BY <1>5, <1>8, <2>1, LenProperties
<1>10. Elements(t) = {s[i] : i \in places}
  <2>1. ASSUME NEW i \in places PROVE s[i] \in Elements(t)
    <3>1. PICK k \in DOMAIN p : p[k] = i
      BY <1>5 DEF Elements
    <3>2. QED
      BY <1>5, <1>6, <1>9, <3>1 DEF Elements
  <2>2. QED
    BY <1>5, <1>6, <1>7, <1>9, <2>1 DEF Elements
<1>11. IsPicked(t, s, p, places, order)
  BY <1>5, <1>6, <1>9 DEF IsPicked
<1>12. QED
  BY <1>0, <1>3, <1>5, <1>9, <1>10, <1>11 DEF IsArranged

\* What is left of a sequence: its elements in S, at rising places.
LEMMA OnlyFacts ==
  ASSUME NEW T, NEW s \in Seq(T), NEW S
  PROVE  /\ Only(s, S) \in Seq(T) /\ Len(Only(s, S)) <= Len(s)
         /\ Elements(Only(s, S)) = Elements(s) \cap S
         /\ \E p : /\ p \in [1..Len(Only(s, S)) -> DOMAIN s]
                   /\ \A i, j \in 1..Len(Only(s, S)) : i < j => p[i] < p[j]
                   /\ \A k \in 1..Len(Only(s, S)) : Only(s, S)[k] = s[p[k]]
                   /\ \A n \in DOMAIN s : s[n] \in S => \E k \in 1..Len(Only(s, S)) : p[k] = n
<1> DEFINE places == {n \in DOMAIN s : s[n] \in S}
           order == {p \in places \X places : p[1] < p[2]}
           t == Only(s, S)
<1>1. DOMAIN s = 1..Len(s) /\ Len(s) \in Nat
  BY LenProperties
<1>2. \A i, j \in places : <<i, j>> \in order <=> i < j
  OBVIOUS
<1>3. places \in SUBSET (DOMAIN s) /\ \A i \in places : i \in Nat
  BY <1>1
<1>4. t = Arranged(s, places, order)
  BY DEF Only
<1>5. {s[i] : i \in places} = Elements(s) \cap S
  BY DEF Elements
<1> HIDE DEF places, order, t
<1>6. IsOrder(places, order)
  BY <1>2, <1>3 DEF IsOrder
<1>7. /\ t \in Seq(T) /\ Len(t) = Cardinality(places) /\ Len(t) <= Len(s)
      /\ DOMAIN t = 1..Len(t) /\ Len(t) \in Nat
      /\ Elements(t) = {s[i] : i \in places}
      /\ \E p : IsPicked(t, s, p, places, order)
  <2>1. places \in SUBSET (DOMAIN s)
    BY <1>3
  <2>2. QED
    BY <1>4, <1>6, <2>1, ArrangedFacts DEF IsArranged
<1>8. PICK p : IsPicked(t, s, p, places, order)
  BY <1>7
<1>9. /\ p \in Seq(places) /\ DOMAIN p = 1..Len(t) /\ Elements(p) = places
      /\ (\A i, j \in DOMAIN p : i < j => <<p[i], p[j]>> \in order) /\ \A k \in DOMAIN p : t[k] = s[p[k]]
  BY <1>8 DEF IsPicked
<1>10. \A k \in DOMAIN p : p[k] \in places
  BY <1>9 DEF Elements
<1>11. p \in [1..Len(t) -> DOMAIN s]
  <2>1. p = [k \in DOMAIN p |-> p[k]]
    BY <1>8, <1>9, SeqDef
  <2>2. QED
    BY <1>3, <1>9, <1>10, <2>1
<1>12. \A i, j \in 1..Len(t) : i < j => p[i] < p[j]
  BY <1>2, <1>9, <1>10
<1>13. ASSUME NEW n \in DOMAIN s, s[n] \in S PROVE \E k \in 1..Len(t) : p[k] = n
  <2>1. n \in places
    BY <1>13 DEF places
  <2>2. QED
    BY <1>9, <2>1 DEF Elements
<1>14. QED
  BY <1>5, <1>7, <1>9, <1>11, <1>12, <1>13 DEF t

\* Two sequences of the same elements in the same order are equal: at the first place at which
\* they differ each would have to come before the other.
LEMMA SameOrder ==
  ASSUME NEW T, NEW t \in Seq(T), NEW u \in Seq(T), Elements(t) = Elements(u), NEW R,
         \A i, j \in DOMAIN t : i < j => <<t[i], t[j]>> \in R,
         \A i, j \in DOMAIN u : i < j => <<u[i], u[j]>> \in R,
         \A x, y \in Elements(t) : ~ (<<x, y>> \in R /\ <<y, x>> \in R)
  PROVE  t = u
<1> DEFINE bad == {k \in Nat : (k \in DOMAIN t \/ k \in DOMAIN u) /\ ~ (k \in DOMAIN t /\ k \in DOMAIN u /\ t[k] = u[k])}
<1>1. /\ DOMAIN t = 1..Len(t) /\ Len(t) \in Nat /\ DOMAIN u = 1..Len(u) /\ Len(u) \in Nat
  BY LenProperties
<1>2. ASSUME bad = {} PROVE t = u
  <2>1. \A k \in Nat : (k \in DOMAIN t <=> k \in DOMAIN u) /\ (k \in DOMAIN t => t[k] = u[k])
    BY <1>2
  <2>2. Len(t) = Len(u)
    <3>1. Len(t) > Len(u) => Len(t) \in DOMAIN t /\ ~ (Len(t) \in DOMAIN u)
      BY <1>1
    <3>2. Len(u) > Len(t) => Len(u) \in DOMAIN u /\ ~ (Len(u) \in DOMAIN t)
      BY <1>1
    <3>3. ~ (Len(t) > Len(u)) /\ ~ (Len(u) > Len(t))
      BY <1>1, <2>1, <3>1, <3>2, Zenon
    <3>4. ASSUME NEW a \in Nat, NEW b \in Nat, ~ (a > b), ~ (b > a) PROVE a = b
      BY <3>4
    <3>5. QED
      BY <1>1, <3>3, <3>4, Zenon
  <2>3. \A k \in 1..Len(t) : t[k] = u[k]
    BY <1>1, <2>1
  <2>4. QED
    BY <2>2, <2>3, SeqEqual
<1>3. SUFFICES ASSUME bad # {} PROVE FALSE
  BY <1>2
<1>4. PICK k \in bad : \A j \in Nat : j < k => j \notin bad
  <2>1. bad \in SUBSET Nat
    OBVIOUS
  <2> HIDE DEF bad
  <2>2. QED
    BY <1>3, <2>1, LeastNumber
<1>5. \A j \in Nat : j < k /\ (j \in DOMAIN t \/ j \in DOMAIN u) => j \in DOMAIN t /\ j \in DOMAIN u /\ t[j] = u[j]
  BY <1>4
<1>6. k \in Nat /\ (k \in DOMAIN t \/ k \in DOMAIN u) /\ ~ (k \in DOMAIN t /\ k \in DOMAIN u /\ t[k] = u[k])
  OBVIOUS
<1> HIDE DEF bad
<1>7. \A i \in DOMAIN t, j \in DOMAIN t : i < j => t[i] # t[j]
  BY DEF Elements
<1>8. \A i \in DOMAIN u, j \in DOMAIN u : i < j => u[i] # u[j]
  BY DEF Elements
<1>9. ASSUME k \in DOMAIN t PROVE \E j \in DOMAIN u : k < j /\ u[j] = t[k]
  <2>1. PICK j \in DOMAIN u : u[j] = t[k]
    <3>1. t[k] \in Elements(t)
      BY <1>9 DEF Elements
    <3>2. t[k] \in Elements(u)
      BY <3>1
    <3>3. QED
      BY <3>2 DEF Elements
  <2>2. j \in Nat /\ j # k
    BY <1>1, <1>6, <1>9, <2>1
  <2>3. ~ (j < k)
    <3>1. SUFFICES ASSUME j < k PROVE FALSE
      OBVIOUS
    <3>2. j \in DOMAIN t /\ t[j] = u[j]
      BY <1>5, <2>2, <3>1
    <3>3. QED
      BY <1>7, <1>9, <2>1, <3>1, <3>2
  <2>4. QED
    BY <1>6, <2>1, <2>2, <2>3
<1>10. ASSUME k \in DOMAIN u PROVE \E j \in DOMAIN t : k < j /\ t[j] = u[k]
  <2>1. PICK j \in DOMAIN t : t[j] = u[k]
    <3>1. u[k] \in Elements(u)
      BY <1>10 DEF Elements
    <3>2. u[k] \in Elements(t)
      BY <3>1
    <3>3. QED
      BY <3>2 DEF Elements
  <2>2. j \in Nat /\ j # k
    BY <1>1, <1>6, <1>10, <2>1
  <2>3. ~ (j < k)
    <3>1. SUFFICES ASSUME j < k PROVE FALSE
      OBVIOUS
    <3>2. j \in DOMAIN u /\ t[j] = u[j]
      BY <1>5, <2>2, <3>1
    <3>3. QED
      BY <1>8, <1>10, <2>1, <3>1, <3>2
  <2>4. QED
    BY <1>6, <2>1, <2>2, <2>3
<1>11. k \in DOMAIN t /\ k \in DOMAIN u
  <2>1. ASSUME k \in DOMAIN t PROVE k \in DOMAIN u
    <3>1. PICK j \in DOMAIN u : k < j
      BY <1>9, <2>1
    <3>2. QED
      BY <1>1, <1>6, <2>1, <3>1
  <2>2. ASSUME k \in DOMAIN u PROVE k \in DOMAIN t
    <3>1. PICK j \in DOMAIN t : k < j
      BY <1>10, <2>2
    <3>2. QED
      BY <1>1, <1>6, <2>2, <3>1
  <2>3. QED
    BY <1>6, <2>1, <2>2
<1>12. <<u[k], t[k]>> \in R
  BY <1>9, <1>11
<1>13. <<t[k], u[k]>> \in R
  BY <1>10, <1>11
<1>14. QED
  BY <1>11, <1>12, <1>13 DEF Elements

\* A sequence without repetitions is as long as it has elements.
LEMMA CountDistinct ==
  ASSUME NEW T, NEW s \in Seq(T), \A i, j \in DOMAIN s : s[i] = s[j] => i = j
  PROVE  IsFiniteSet(Elements(s)) /\ Cardinality(Elements(s)) = Len(s) /\ Len(s) \in Nat
<1>1. DOMAIN s = 1..Len(s) /\ Len(s) \in Nat
  BY LenProperties
<1>2. s = [k \in 1..Len(s) |-> s[k]]
  BY <1>1, SeqDef
<1>3. s \in Bijection(1..Len(s), Elements(s))
  <2>1. s \in [1..Len(s) -> Elements(s)]
    BY <1>1, <1>2 DEF Elements
  <2>2. QED
    BY <1>1, <2>1 DEF Elements, Bijection, Injection, Surjection, IsInjective
<1>4. IsFiniteSet(1..Len(s)) /\ Cardinality(1..Len(s)) = Len(s)
  BY <1>1, FS_Interval
<1>5. QED
  BY <1>1, <1>3, <1>4, FS_Bijection DEF ExistsBijection

\* The first n elements of a sequence.
LEMMA BeginFacts ==
  ASSUME NEW T, NEW s \in Seq(T), NEW n \in Nat
  PROVE  /\ First(n, s) \in Seq(T) /\ Len(First(n, s)) = Least(n, Len(s)) /\ Least(n, Len(s)) \in Nat
         /\ DOMAIN First(n, s) = 1..Least(n, Len(s)) /\ Least(n, Len(s)) <= n /\ Least(n, Len(s)) <= Len(s)
         /\ \A i \in 1..Least(n, Len(s)) : First(n, s)[i] = s[i]
<1> DEFINE m == Least(n, Len(s))
           t == SubSeq(s, 1, m)
<1>1. DOMAIN s = 1..Len(s) /\ Len(s) \in Nat
  BY LenProperties
<1>2. m \in Nat /\ m <= n /\ m <= Len(s)
  BY <1>1 DEF Least
<1>3. t = First(n, s)
  BY DEF First
<1> HIDE DEF m
<1>4. \A i \in 1..m : s[i] \in T
  BY <1>1, <1>2, ElementOfSeq
<1>5. /\ t \in Seq(T) /\ Len(t) = (IF 1 <= m THEN m - 1 + 1 ELSE 0)
      /\ \A i \in 1..(m - 1 + 1) : t[i] = s[1 + i - 1]
  BY <1>2, <1>4, SubSeqProperties
<1> HIDE DEF t
<1>6. Len(t) = m /\ \A i \in 1..m : t[i] = s[i]
  BY <1>2, <1>5
<1>7. QED
  BY <1>2, <1>3, <1>5, <1>6, LenProperties DEF m

\* An element at the end of a sequence.
LEMMA ElementsAppend ==
  ASSUME NEW T, NEW s \in Seq(T), NEW x \in T
  PROVE  Elements(Append(s, x)) = Elements(s) \cup {x}
<1>1. /\ DOMAIN s = 1..Len(s) /\ Len(s) \in Nat /\ DOMAIN Append(s, x) = 1..(Len(s) + 1)
      /\ Append(s, x)[Len(s) + 1] = x /\ \A i \in 1..Len(s) : Append(s, x)[i] = s[i]
  BY AppendProperties, LenProperties
<1>2. QED
  BY <1>1 DEF Elements

\* An element in front of a sequence.
LEMMA PutInFront ==
  ASSUME NEW T, NEW s \in Seq(T), NEW x \in T, NEW t, t = <<x>> \o s
  PROVE  /\ t \in Seq(T) /\ Len(t) = Len(s) + 1 /\ t # <<>> /\ t[1] = x /\ Head(t) = x
         /\ \A i \in 1..Len(s) : t[i + 1] = s[i]
<1>1. <<x>> \in Seq(T) /\ Len(<<x>>) = 1 /\ <<x>>[1] = x /\ DOMAIN s = 1..Len(s) /\ Len(s) \in Nat
  BY LenProperties
<1>2. /\ t \in Seq(T) /\ Len(t) = 1 + Len(s)
      /\ \A i \in 1..(1 + Len(s)) : t[i] = IF i <= 1 THEN <<x>>[i] ELSE s[i - 1]
  BY <1>1, ConcatProperties
<1>3. DOMAIN t = 1..(Len(s) + 1) /\ t[1] = x /\ \A i \in 1..Len(s) : t[i + 1] = s[i]
  BY <1>1, <1>2, LenProperties
<1>4. t # <<>> /\ Head(t) = x
  BY <1>1, <1>2, <1>3
<1>5. QED
  BY <1>1, <1>2, <1>3, <1>4

\* What is in the sequence then.
LEMMA ElementsInFront ==
  ASSUME NEW T, NEW s \in Seq(T), NEW x \in T, NEW t, t = <<x>> \o s
  PROVE  \A y : y \in Elements(t) <=> y \in Elements(s) \/ y = x
<1>1. DOMAIN s = 1..Len(s) /\ Len(s) \in Nat
  BY LenProperties
<1>3. t \in Seq(T) /\ Len(t) = Len(s) + 1 /\ t[1] = x /\ \A i \in 1..Len(s) : t[i + 1] = s[i]
  BY PutInFront
<1>4. DOMAIN t = 1..(Len(s) + 1)
  BY <1>3, LenProperties
<1>5. \A i \in 1..(Len(s) + 1) : i = 1 \/ (i - 1 \in 1..Len(s) /\ t[i] = s[i - 1])
  BY <1>1, <1>3
<1>6. Elements(t) = Elements(s) \cup {x}
  <2>1. Elements(t) \subseteq Elements(s) \cup {x}
    BY <1>1, <1>3, <1>4, <1>5 DEF Elements
  <2>2. Elements(s) \subseteq Elements(t) /\ x \in Elements(t)
    <3>1. \A i \in 1..Len(s) : i + 1 \in 1..(Len(s) + 1)
      BY <1>1
    <3>2. 1 \in 1..(Len(s) + 1)
      BY <1>1
    <3>3. QED
      BY <1>1, <1>3, <1>4, <3>1, <3>2 DEF Elements
  <2>3. QED
    BY <2>1, <2>2
<1>7. QED
  BY <1>6

\* What comes after an element of a sequence.
IsAfter(e, s, k) == e = SubSeq(s, k + 1, Len(s))

LEMMA AfterFacts ==
  ASSUME NEW T, NEW s \in Seq(T), NEW k \in 1..Len(s), NEW e, IsAfter(e, s, k)
  PROVE  e \in Seq(T) /\ Len(e) = Len(s) - k /\ \A j \in 1..(Len(s) - k) : e[j] = s[k + j]
<1> DEFINE m == k + 1
           n == Len(s)
<1>1. Len(s) \in Nat /\ DOMAIN s = 1..Len(s) /\ k \in Nat /\ \A i \in 1..Len(s) : s[i] \in T
  BY LenProperties, ElementOfSeq
<1>2. m \in Int /\ n \in Int /\ \A i \in m..n : s[i] \in T
  BY <1>1
<1>3. n - m + 1 = Len(s) - k /\ m <= n + 1
  BY <1>1
<1>9. \A i \in 1..(Len(s) - k) : m + i - 1 = k + i
  BY <1>1
<1>4. e = SubSeq(s, m, n)
  BY DEF IsAfter
<1> HIDE DEF m, n
<1>5. /\ SubSeq(s, m, n) \in Seq(T) /\ Len(SubSeq(s, m, n)) = (IF m <= n THEN n - m + 1 ELSE 0)
      /\ \A i \in 1..(n - m + 1) : SubSeq(s, m, n)[i] = s[m + i - 1]
  BY <1>2, SubSeqProperties
<1>6. /\ e \in Seq(T) /\ Len(e) = (IF m <= n THEN n - m + 1 ELSE 0)
      /\ \A i \in 1..(n - m + 1) : e[i] = s[m + i - 1]
  BY <1>4, <1>5, Zenon
<1>7. Len(e) = n - m + 1
  <2>1. Len(e) = (IF m <= n THEN n - m + 1 ELSE 0)
    BY <1>6
  <2>2. ~(m <= n) => n - m + 1 = 0
    BY <1>2, <1>3
  <2>3. QED
    BY <2>1, <2>2, Zenon
<1>8. ASSUME NEW j \in 1..(Len(s) - k) PROVE e[j] = s[k + j]
  <2>1. e[j] = s[m + j - 1]
    BY <1>3, <1>6
  <2>2. QED
    BY <1>9, <2>1, Zenon
<1>10. QED
  BY <1>3, <1>6, <1>7, <1>8

\* One is taken out of a sequence, and what is before it replaced.
IsSpliced(t, b, s, k) == t = b \o SubSeq(s, k + 1, Len(s))

LEMMA Spliced ==
  ASSUME NEW T, NEW s \in Seq(T), NEW k \in 1..Len(s), NEW b \in Seq(T), Len(b) = k - 1,
         NEW t, IsSpliced(t, b, s, k)
  PROVE  /\ t \in Seq(T) /\ Len(t) = Len(s) - 1 /\ DOMAIN t = 1..(Len(s) - 1)
         /\ \A j \in 1..(k - 1) : t[j] = b[j]
         /\ \A j \in k..(Len(s) - 1) : t[j] = s[j + 1]
<1>1. Len(s) \in Nat /\ DOMAIN s = 1..Len(s) /\ k \in Nat
  BY LenProperties
<1>0. PICK e : IsAfter(e, s, k) /\ t = b \o e
  BY DEF IsSpliced, IsAfter
<1> DEFINE c == b \o e
<1>2. IsAfter(e, s, k) /\ t = c
  BY <1>0
<1>3. e \in Seq(T) /\ Len(e) = Len(s) - k /\ \A j \in 1..(Len(s) - k) : e[j] = s[k + j]
  <2>1. IsAfter(e, s, k)
    BY <1>0
  <2>2. QED
    BY <2>1, AfterFacts
<1>4. /\ c \in Seq(T) /\ Len(c) = Len(b) + Len(e)
      /\ \A j \in 1..(Len(b) + Len(e)) : c[j] = IF j <= Len(b) THEN b[j] ELSE e[j - Len(b)]
  BY <1>3, ConcatProperties
<1> HIDE DEF c
<1>5. Len(b) + Len(e) = Len(s) - 1
  BY <1>1, <1>3
<1>6. t \in Seq(T) /\ Len(t) = Len(s) - 1 /\ DOMAIN t = 1..(Len(s) - 1)
  BY <1>2, <1>4, <1>5, LenProperties
<1>7. \A j \in 1..(k - 1) : t[j] = b[j]
  BY <1>1, <1>2, <1>4, <1>5
<1>8. ASSUME NEW j \in k..(Len(s) - 1) PROVE t[j] = s[j + 1]
  <2>1. j \in 1..(Len(b) + Len(e)) /\ ~(j <= Len(b))
    BY <1>1, <1>5
  <2>2. t[j] = e[j - Len(b)]
    BY <1>2, <1>4, <2>1
  <2>3. j - Len(b) \in 1..(Len(s) - k) /\ k + (j - Len(b)) = j + 1
    BY <1>1
  <2>4. e[j - Len(b)] = s[k + (j - Len(b))]
    BY <1>3, <2>3
  <2>5. QED
    BY <2>2, <2>3, <2>4
<1>9. QED
  BY <1>6, <1>7, <1>8

\* One more at the end of a sequence.
IsLonger(t, s, x) == t = Append(s, x)

LEMMA TailFacts ==
  ASSUME NEW T, NEW s \in Seq(T), s # <<>>, NEW t, t = Tail(s)
  PROVE  /\ t \in Seq(T) /\ Len(t) = Len(s) - 1 /\ DOMAIN t = 1..(Len(s) - 1)
         /\ \A i \in 1..(Len(s) - 1) : t[i] = s[i + 1]
<1>1. t \in Seq(T) /\ Len(t) = Len(s) - 1 /\ \A i \in 1..Len(t) : t[i] = s[i + 1]
  BY HeadTailProperties
<1>2. QED
  BY <1>1, LenProperties

LEMMA LongerFacts ==
  ASSUME NEW T, NEW s \in Seq(T), NEW x \in T, NEW t, IsLonger(t, s, x)
  PROVE  /\ t \in Seq(T) /\ Len(s) \in Nat /\ Len(t) = Len(s) + 1
         /\ DOMAIN s = 1..Len(s) /\ DOMAIN t = 1..(Len(s) + 1)
         /\ t[Len(s) + 1] = x /\ \A i \in 1..Len(s) : t[i] = s[i]
BY AppendProperties, LenProperties DEF IsLonger

\* The start of a sequence.
IsStart(t, n, s) == t = First(n, s)

LEMMA FirstFacts ==
  ASSUME NEW T, NEW s \in Seq(T), NEW n \in Nat, NEW t, IsStart(t, n, s)
  PROVE  /\ t \in Seq(T) /\ Len(t) = Least(n, Len(s)) /\ DOMAIN t = 1..Least(n, Len(s))
         /\ \A i \in 1..Least(n, Len(s)) : t[i] = s[i]
<1> DEFINE m == Least(n, Len(s))
<1>1. DOMAIN s = 1..Len(s) /\ Len(s) \in Nat
  BY LenProperties
<1>2. m \in Nat /\ m <= Len(s) /\ m \in Int
  BY <1>1 DEF Least
<1>3. \A i \in 1..m : s[i] \in T
  BY <1>1, <1>2, ElementOfSeq
<1>4. t = SubSeq(s, 1, m)
  BY DEF First, IsStart
<1> HIDE DEF m
<1>5. t \in Seq(T) /\ Len(t) = (IF 1 <= m THEN m - 1 + 1 ELSE 0) /\ \A i \in 1..(m - 1 + 1) : t[i] = s[1 + i - 1]
  BY <1>2, <1>3, <1>4, SubSeqProperties
<1>6. Len(t) = m
  BY <1>2, <1>5
<1>7. DOMAIN t = 1..m
  BY <1>5, <1>6, LenProperties
<1>8. ASSUME NEW i \in 1..m PROVE t[i] = s[i]
  <2>1. i \in 1..(m - 1 + 1) /\ 1 + i - 1 = i
    BY <1>2
  <2>2. t[i] = s[1 + i - 1]
    BY <1>5, <2>1
  <2>3. QED
    BY <2>1, <2>2, Zenon
<1>9. QED
  BY <1>5, <1>6, <1>7, <1>8 DEF m

\* A sequence without one of its elements.
IsWithout(t, s, k) == t = RemoveAt(s, k)

LEMMA WithoutFacts ==
  ASSUME NEW T, NEW s \in Seq(T), NEW k \in DOMAIN s, NEW t, IsWithout(t, s, k)
  PROVE  /\ t \in Seq(T) /\ \A i \in DOMAIN t : \E j \in DOMAIN s : t[i] = s[j]
         /\ \A j \in DOMAIN s : j # k => \E i \in DOMAIN t : t[i] = s[j]
<1> DEFINE b == SubSeq(s, 1, k - 1)
<1>1. DOMAIN s = 1..Len(s) /\ Len(s) \in Nat /\ k \in 1..Len(s) /\ \A i \in 1..Len(s) : s[i] \in T
  BY LenProperties, ElementOfSeq
<1>2. IsSpliced(t, b, s, k)
  BY DEF IsWithout, IsSpliced, RemoveAt
<1>3. b \in Seq(T) /\ Len(b) = k - 1 /\ \A j \in 1..(k - 1) : b[j] = s[j]
  <2>1. 1 \in Int /\ k - 1 \in Int /\ \A i \in 1..(k - 1) : s[i] \in T
    BY <1>1
  <2>2. /\ b \in Seq(T) /\ Len(b) = (IF 1 <= k - 1 THEN (k - 1) - 1 + 1 ELSE 0)
        /\ \A j \in 1..((k - 1) - 1 + 1) : b[j] = s[1 + j - 1]
    BY <2>1, SubSeqProperties
  <2>3. QED
    BY <1>1, <2>2
<1> HIDE DEF b
<1>4. /\ t \in Seq(T) /\ DOMAIN t = 1..(Len(s) - 1)
      /\ \A j \in 1..(k - 1) : t[j] = b[j]
      /\ \A j \in k..(Len(s) - 1) : t[j] = s[j + 1]
  BY <1>1, <1>2, <1>3, Spliced
<1>5. ASSUME NEW i \in DOMAIN t PROVE \E j \in DOMAIN s : t[i] = s[j]
  <2>1. i \in 1..(k - 1) \/ i \in k..(Len(s) - 1)
    BY <1>1, <1>4
  <2>2. CASE i \in 1..(k - 1)
    <3>1. t[i] = s[i] /\ i \in DOMAIN s
      BY <1>1, <1>3, <1>4, <2>2
    <3>2. QED
      BY <3>1
  <2>3. CASE i \in k..(Len(s) - 1)
    <3>1. t[i] = s[i + 1] /\ i + 1 \in DOMAIN s
      BY <1>1, <1>4, <2>3
    <3>2. QED
      BY <3>1
  <2>4. QED
    BY <2>1, <2>2, <2>3
<1>6. ASSUME NEW j \in DOMAIN s, j # k PROVE \E i \in DOMAIN t : t[i] = s[j]
  <2>1. CASE j < k
    <3>1. j \in 1..(k - 1) /\ j \in DOMAIN t
      BY <1>1, <1>4, <2>1
    <3>2. t[j] = s[j]
      BY <1>3, <1>4, <3>1
    <3>3. QED
      BY <3>1, <3>2
  <2>2. CASE ~(j < k)
    <3>1. j - 1 \in k..(Len(s) - 1) /\ (j - 1) + 1 = j /\ j - 1 \in DOMAIN t
      <4>1. j \in Nat /\ k \in Nat /\ j <= Len(s) /\ k >= 1 /\ j > k /\ Len(s) \in Nat
        BY <1>1, <1>6, <2>2
      <4>2. j - 1 \in 1..(Len(s) - 1) /\ j - 1 \in k..(Len(s) - 1) /\ (j - 1) + 1 = j
        BY <4>1
      <4>3. QED
        BY <1>4, <4>2
    <3>2. t[j - 1] = s[(j - 1) + 1]
      BY <1>4, <3>1
    <3>3. QED
      BY <3>1, <3>2
  <2>3. QED
    BY <2>1, <2>2
<1>7. QED
  BY <1>4, <1>5, <1>6
==================================================================================
