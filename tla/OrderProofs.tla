---------------------------- MODULE OrderProofs ----------------------------
(***************************************************************************)
(* Lemmas about orders, keys and stable sorting (Basics), on which the     *)
(* proofs about dedup and plans rest.                                      *)
(***************************************************************************)
EXTENDS Basics, FiniteSetTheorems, SequenceTheorems, TLAPS

-----------------------------------------------------------------------------
(***************************************************************************)
(* Strict orders on finite sets.                                           *)
(***************************************************************************)
Irreflexive(R, S) == \A x \in S : <<x, x>> \notin R
Transitive(R, S) ==
  \A x, y, z \in S : <<x, y>> \in R /\ <<y, z>> \in R => <<x, z>> \in R
Total(R, S) == \A x, y \in S : x # y => <<x, y>> \in R \/ <<y, x>> \in R
Below(R, S, x) == {y \in S : <<y, x>> \in R}

\* A set of naturals has a least element.
LEMMA LeastNatural ==
  ASSUME NEW S \in SUBSET Nat, S # {}
  PROVE  \E m \in S : \A k \in S : m <= k
<1>1. PICK m \in S : \A k \in S : <<k, m>> \notin OpToRel(<, Nat)
  BY NatLessThanWellFounded, WFMin
<1>2. \A k \in S : ~(k < m)
  BY <1>1 DEF OpToRel
<1> QED
  BY <1>2

\* A finite set has an element that no other one exceeds.
LEMMA Maximal ==
  ASSUME NEW U, IsFiniteSet(U), U # {}, NEW R, Irreflexive(R, U), Transitive(R, U)
  PROVE  \E m \in U : \A x \in U : <<m, x>> \notin R
<1> DEFINE HasMax(S) == \E m \in S : \A x \in S : <<m, x>> \notin R
           Bad == {S \in SUBSET U : S # {} /\ ~HasMax(S)}
<1>1. SUFFICES ASSUME Bad # {} PROVE FALSE
  BY DEF Bad
<1>2. PICK S \in Bad : \A T \in Bad : <<T, S>> \notin StrictSubsetOrdering(U)
  BY <1>1, FS_StrictSubsetOrderingWellFounded, FS_FiniteSubsetsOfFinite, WFMin
<1>3. PICK x \in S : TRUE
  BY <1>2
<1>4. S \ {x} \notin Bad
  BY <1>2, <1>3 DEF StrictSubsetOrdering
<1>5. CASE S = {x}
  BY <1>2, <1>5 DEF Irreflexive
<1>6. CASE S # {x}
  <2>1. HasMax(S \ {x})
    BY <1>2, <1>3, <1>4, <1>6
  <2>2. PICK m \in S \ {x} : \A y \in S \ {x} : <<m, y>> \notin R
    BY <2>1
  <2>3. CASE <<m, x>> \in R
    <3>1. \A y \in S : <<x, y>> \notin R
      BY <1>2, <1>3, <2>2, <2>3 DEF Irreflexive, Transitive
    <3> QED
      BY <1>2, <1>3, <3>1
  <2>4. CASE <<m, x>> \notin R
    BY <1>2, <1>3, <2>2, <2>4
  <2> QED
    BY <2>3, <2>4
<1> QED
  BY <1>5, <1>6

\* In a finite total order each element has a place of its own, and each place
\* an element.
LEMMA Places ==
  ASSUME NEW S, IsFiniteSet(S), NEW R, Irreflexive(R, S), Transitive(R, S), Total(R, S)
  PROVE  /\ \A x \in S : Cardinality(Below(R, S, x)) \in 0 .. Cardinality(S) - 1
         /\ \A n \in 1 .. Cardinality(S) : \E x \in S : Cardinality(Below(R, S, x)) = n - 1
         /\ \A x, y \in S : Cardinality(Below(R, S, x)) = Cardinality(Below(R, S, y)) => x = y
         /\ \A x, y \in S :
              <<x, y>> \in R => Cardinality(Below(R, S, x)) < Cardinality(Below(R, S, y))
<1> DEFINE N == Cardinality(S)
           T == 0 .. N - 1
           place == [x \in S |-> Cardinality(Below(R, S, x))]
<1>1. N \in Nat
  BY FS_CardinalityType
<1>2. IsFiniteSet(T) /\ Cardinality(T) = N
  BY <1>1, FS_Interval
<1>3. ASSUME NEW x \in S
      PROVE  IsFiniteSet(Below(R, S, x)) /\ Cardinality(Below(R, S, x)) \in T
  <2>1. Below(R, S, x) \in SUBSET S /\ x \notin Below(R, S, x)
    BY DEF Below, Irreflexive
  <2>2. IsFiniteSet(Below(R, S, x)) /\ Cardinality(Below(R, S, x)) <= N
        /\ (Cardinality(Below(R, S, x)) = N => Below(R, S, x) = S)
    BY <2>1, FS_Subset
  <2>3. Cardinality(Below(R, S, x)) \in Nat
    BY <2>2, FS_CardinalityType
  <2> QED
    BY <1>1, <2>1, <2>2, <2>3
<1>4. ASSUME NEW x \in S, NEW y \in S, <<x, y>> \in R
      PROVE  Cardinality(Below(R, S, x)) < Cardinality(Below(R, S, y))
  <2>1. Below(R, S, x) \in SUBSET Below(R, S, y)
    BY <1>4 DEF Below, Transitive
  <2>2. x \in Below(R, S, y) /\ x \notin Below(R, S, x)
    BY <1>4 DEF Below, Irreflexive
  <2>3. /\ Cardinality(Below(R, S, x)) <= Cardinality(Below(R, S, y))
        /\ Cardinality(Below(R, S, y)) # Cardinality(Below(R, S, x))
    BY <1>3, <2>1, <2>2, FS_Subset
  <2> QED
    BY <1>1, <1>3, <2>3
<1>5. \A x, y \in S : Cardinality(Below(R, S, x)) = Cardinality(Below(R, S, y)) => x = y
  <2>1. SUFFICES ASSUME NEW x \in S, NEW y \in S, x # y,
                        Cardinality(Below(R, S, x)) = Cardinality(Below(R, S, y))
                 PROVE  FALSE
    OBVIOUS
  <2>2. Cardinality(Below(R, S, x)) \in Int /\ Cardinality(Below(R, S, y)) \in Int
    BY <1>1, <1>3
  <2>3. <<x, y>> \in R \/ <<y, x>> \in R
    BY <2>1 DEF Total
  <2> QED
    BY <1>4, <2>1, <2>2, <2>3
<1>6. place \in Injection(S, T)
  BY <1>3, <1>5 DEF Injection, IsInjective
<1>7. place \in Surjection(S, T)
  BY <1>2, <1>6, FS_Injection
<1>8. ASSUME NEW n \in 1 .. N PROVE \E x \in S : Cardinality(Below(R, S, x)) = n - 1
  <2>1. n - 1 \in T
    BY <1>1
  <2> QED
    BY <1>7, <2>1 DEF Surjection
<1> QED
  BY <1>3, <1>4, <1>5, <1>8

-----------------------------------------------------------------------------
(***************************************************************************)
(* Keys, compared from left to right, a prefix first.                      *)
(***************************************************************************)
Differs(k, l, i) ==
  /\ i \in 1 .. Len(l) /\ i <= Len(k) + 1
  /\ i <= Len(k) => k[i] < l[i]
  /\ \A j \in 1 .. i - 1 : k[j] = l[j]

\* One key comes before another at the first place they differ.
LEMMA LessIs ==
  ASSUME NEW k \in Seq(Int), NEW l \in Seq(Int)
  PROVE  Less(k, l) <=> \E i \in Nat : Differs(k, l, i)
<1>0. /\ Len(k) \in Nat /\ DOMAIN k = 1 .. Len(k) /\ Len(l) \in Nat /\ DOMAIN l = 1 .. Len(l)
  OBVIOUS
<1>1. ASSUME NEW i \in DOMAIN k \intersect DOMAIN l, k[i] < l[i], \A j \in 1 .. i - 1 : k[j] = l[j]
      PROVE  Differs(k, l, i) /\ i \in Nat
  BY <1>0, <1>1 DEF Differs
<1>2. ASSUME Len(k) < Len(l), k = SubSeq(l, 1, Len(k))
      PROVE  Differs(k, l, Len(k) + 1)
  <2>1. \A j \in 1 .. Len(k) : SubSeq(l, 1, Len(k))[j] = l[j]
    BY <1>0, <1>2
  <2> QED
    BY <1>0, <1>2, <2>1 DEF Differs
<1>3. ASSUME NEW i \in Nat, Differs(k, l, i) PROVE Less(k, l)
  <2>1. CASE i <= Len(k)
    <3>1. i \in DOMAIN k \intersect DOMAIN l
      BY <1>0, <1>3, <2>1 DEF Differs
    <3> QED
      BY <1>3, <2>1, <3>1 DEF Differs, Less
  <2>2. CASE i = Len(k) + 1
    <3>1. Len(k) < Len(l) /\ \A j \in 1 .. Len(k) : k[j] = l[j]
      BY <1>0, <1>3, <2>2 DEF Differs
    <3>2. /\ SubSeq(l, 1, Len(k)) \in Seq(Int) /\ Len(SubSeq(l, 1, Len(k))) = Len(k)
          /\ \A j \in 1 .. Len(k) : SubSeq(l, 1, Len(k))[j] = l[j]
      BY <1>0, <3>1
    <3>3. k = SubSeq(l, 1, Len(k))
      BY <1>0, <3>1, <3>2
    <3> QED
      BY <3>1, <3>3 DEF Less
  <2> QED
    BY <1>0, <1>3, <2>1, <2>2 DEF Differs
<1> QED
  BY <1>0, <1>1, <1>2, <1>3 DEF Less

\* Numbers at 1 .. n are a key.
LEMMA Tuple ==
  ASSUME NEW n \in Nat
  PROVE  \A k \in [1 .. n -> Int] : k \in Seq(Int)
BY SeqDef

LEMMA LessIrreflexive ==
  ASSUME NEW k \in Seq(Int)
  PROVE  ~Less(k, k)
<1>1. \A i \in 1 .. Len(k) : k[i] \in Int
  OBVIOUS
<1> QED
  BY <1>1, LessIs DEF Differs

LEMMA LessTransitive ==
  ASSUME NEW k \in Seq(Int), NEW l \in Seq(Int), NEW m \in Seq(Int), Less(k, l), Less(l, m)
  PROVE  Less(k, m)
<1>0. /\ Len(k) \in Nat /\ Len(l) \in Nat /\ Len(m) \in Nat
      /\ \A i \in 1 .. Len(k) : k[i] \in Int
      /\ \A i \in 1 .. Len(l) : l[i] \in Int
      /\ \A i \in 1 .. Len(m) : m[i] \in Int
  OBVIOUS
<1>1. PICK i \in Nat : Differs(k, l, i)
  BY LessIs
<1>2. PICK j \in Nat : Differs(l, m, j)
  BY LessIs
<1>3. PICK n \in Nat : n <= i /\ n <= j /\ (n = i \/ n = j)
  <2>1. i <= i /\ j <= j /\ (i <= j \/ j <= i)
    OBVIOUS
  <2> QED
    BY <2>1, Zenon
<1>4. n \in 1 .. Len(m) /\ n <= Len(k) + 1 /\ i \in 1 .. Len(l)
  BY <1>0, <1>1, <1>2, <1>3 DEF Differs
<1>5. ASSUME n <= Len(k) PROVE k[n] < m[n]
  <2>1. n \in 1 .. Len(k) /\ n \in 1 .. Len(l) /\ n \in 1 .. Len(m)
    BY <1>0, <1>3, <1>4, <1>5
  <2>2. n < i => k[n] = l[n]
    BY <1>0, <1>1, <1>3, <2>1 DEF Differs
  <2>3. n < j => l[n] = m[n]
    BY <1>0, <1>2, <1>3, <2>1 DEF Differs
  <2>4. /\ i <= Len(k) => k[i] < l[i]
        /\ j <= Len(l) => l[j] < m[j]
    BY <1>1, <1>2 DEF Differs
  <2>5. (n = i => k[n] < l[n]) /\ (n = j => l[n] < m[n])
    BY <1>5, <2>1, <2>4
  <2>6. k[n] \in Int /\ l[n] \in Int /\ m[n] \in Int
    BY <1>0, <2>1
  <2>7. (n = i \/ n < i) /\ (n = j \/ n < j)
    BY <1>3
  <2> QED
    BY <1>3, <2>2, <2>3, <2>5, <2>6, <2>7
<1>6. \A q \in 1 .. n - 1 : k[q] = m[q]
  BY <1>1, <1>2, <1>3 DEF Differs
<1> QED
  BY <1>4, <1>5, <1>6, LessIs DEF Differs

LEMMA LessTotal ==
  ASSUME NEW k \in Seq(Int), NEW l \in Seq(Int), k # l
  PROVE  Less(k, l) \/ Less(l, k)
<1>0. /\ Len(k) \in Nat /\ Len(l) \in Nat
      /\ \A i \in 1 .. Len(k) : k[i] \in Int
      /\ \A i \in 1 .. Len(l) : l[i] \in Int
  OBVIOUS
<1> DEFINE D == {i \in Nat : i \in 1 .. Len(k) /\ i \in 1 .. Len(l) /\ k[i] # l[i]}
<1>1. CASE D = {}
  <2>1. \A i \in 1 .. Len(k) : i \in 1 .. Len(l) => k[i] = l[i]
    <3>1. SUFFICES ASSUME NEW i \in 1 .. Len(k), i \in 1 .. Len(l) PROVE k[i] = l[i]
      OBVIOUS
    <3>2. i \in Nat
      BY <1>0
    <3>3. k[i] # l[i] => i \in D
      BY <3>1, <3>2
    <3> QED
      BY <1>1, <3>3, Zenon
  <2>2. Len(k) # Len(l)
    BY <1>0, <2>1
  <2>3. CASE Len(k) < Len(l)
    <3>1. Differs(k, l, Len(k) + 1)
      BY <1>0, <2>1, <2>3 DEF Differs
    <3> QED
      BY <1>0, <3>1, LessIs
  <2>4. CASE Len(l) < Len(k)
    <3>1. Differs(l, k, Len(l) + 1)
      BY <1>0, <2>1, <2>4 DEF Differs
    <3> QED
      BY <1>0, <3>1, LessIs
  <2> QED
    BY <1>0, <2>2, <2>3, <2>4
<1>2. CASE D # {}
  <2>1. D \in SUBSET Nat
    OBVIOUS
  <2>2. PICK i \in D : \A j \in D : i <= j
    BY <1>2, <2>1, LeastNatural
  <2>3. \A j \in 1 .. i - 1 : k[j] = l[j]
    <3>1. SUFFICES ASSUME NEW j \in 1 .. i - 1 PROVE k[j] = l[j]
      OBVIOUS
    <3>2. /\ j \in Nat /\ ~(i <= j)
          /\ j \in 1 .. Len(k) /\ j \in 1 .. Len(l)
      BY <1>0, <2>2
    <3>3. j \notin D
      BY <2>2, <3>2
    <3> QED
      BY <3>2, <3>3
  <2>4. k[i] < l[i] \/ l[i] < k[i]
    BY <1>0, <2>2
  <2>5. Differs(k, l, i) \/ Differs(l, k, i)
    BY <1>0, <2>2, <2>3, <2>4 DEF Differs
  <2> QED
    BY <2>2, <2>5, LessIs
<1> QED
  BY <1>1, <1>2

\* Keys that differ order the elements of a set.
KeyOrder(key, S) == {e \in S \X S : Less(key[e[1]], key[e[2]])}

LEMMA KeysOrder ==
  ASSUME NEW S, NEW key \in [S -> Seq(Int)]
  PROVE  /\ Irreflexive(KeyOrder(key, S), S) /\ Transitive(KeyOrder(key, S), S)
         /\ (\A x, y \in S : key[x] = key[y] => x = y) => Total(KeyOrder(key, S), S)
<1>1. \A x, y \in S : <<x, y>> \in KeyOrder(key, S) <=> Less(key[x], key[y])
  BY DEF KeyOrder
<1>2. \A x \in S : key[x] \in Seq(Int)
  OBVIOUS
<1>3. Irreflexive(KeyOrder(key, S), S)
  BY <1>1, <1>2, LessIrreflexive DEF Irreflexive
<1>4. Transitive(KeyOrder(key, S), S)
  BY <1>1, <1>2, LessTransitive DEF Transitive
<1>5. (\A x, y \in S : key[x] = key[y] => x = y) => Total(KeyOrder(key, S), S)
  BY <1>1, <1>2, LessTotal DEF Total
<1> QED
  BY <1>3, <1>4, <1>5

Ahead(key, S, x) == {y \in S : Less(key[y], key[x])}

\* Keys that differ give each element of a set a place in their order, and each
\* place an element.
LEMMA KeyPlaces ==
  ASSUME NEW S, IsFiniteSet(S), NEW key \in [S -> Seq(Int)],
         \A x, y \in S : key[x] = key[y] => x = y
  PROVE  /\ \A x \in S : Cardinality(Ahead(key, S, x)) \in 0 .. Cardinality(S) - 1
         /\ \A n \in 1 .. Cardinality(S) : \E x \in S : Cardinality(Ahead(key, S, x)) = n - 1
         /\ \A x, y \in S : Cardinality(Ahead(key, S, x)) = Cardinality(Ahead(key, S, y)) => x = y
<1> DEFINE R == KeyOrder(key, S)
<1>1. Irreflexive(R, S) /\ Transitive(R, S) /\ Total(R, S)
  BY KeysOrder
<1>2. \A x \in S : Ahead(key, S, x) = Below(R, S, x)
  BY DEF Below, KeyOrder, Ahead
<1> HIDE DEF R
<1>3. /\ \A x \in S : Cardinality(Below(R, S, x)) \in 0 .. Cardinality(S) - 1
      /\ \A n \in 1 .. Cardinality(S) : \E x \in S : Cardinality(Below(R, S, x)) = n - 1
      /\ \A x, y \in S : Cardinality(Below(R, S, x)) = Cardinality(Below(R, S, y)) => x = y
  BY <1>1, Places
<1> QED
  BY <1>2, <1>3

-----------------------------------------------------------------------------
(***************************************************************************)
(* Stable sorting.                                                         *)
(***************************************************************************)
Firsts(keys, S) == {e \in S \X S : Before(keys, e[1], e[2])}

Earlier(keys, i) == {j \in DOMAIN keys : Before(keys, j, i)}

LEMMA StableOrder ==
  ASSUME NEW N \in Nat, NEW keys \in [1 .. N -> Seq(Int)]
  PROVE  LET S == 1 .. N
             R == Firsts(keys, S)
         IN /\ Irreflexive(R, S) /\ Transitive(R, S) /\ Total(R, S)
            /\ \A i, j \in S : <<i, j>> \in R <=> Before(keys, i, j)
            /\ \A i \in S : Earlier(keys, i) = Below(R, S, i)
<1> DEFINE S == 1 .. N
           R == Firsts(keys, S)
<1>1. /\ \A i, j \in S : <<i, j>> \in R <=> Before(keys, i, j)
      /\ DOMAIN keys = S
  BY DEF Firsts
<1>2. \A i \in S : keys[i] \in Seq(Int) /\ i \in Int
  OBVIOUS
<1>3. Irreflexive(R, S)
  BY <1>1, <1>2, LessIrreflexive DEF Irreflexive, Before
<1>4. Transitive(R, S)
  <2>1. SUFFICES ASSUME NEW x \in S, NEW y \in S, NEW z \in S,
                        Before(keys, x, y), Before(keys, y, z)
                 PROVE  Before(keys, x, z)
    BY <1>1 DEF Transitive
  <2>2. Less(keys[x], keys[y]) /\ Less(keys[y], keys[z]) => Less(keys[x], keys[z])
    BY <1>2, LessTransitive
  <2>3. x < y /\ y < z => x < z
    BY <1>2
  <2> QED
    BY <2>1, <2>2, <2>3 DEF Before
<1>5. Total(R, S)
  <2>1. SUFFICES ASSUME NEW x \in S, NEW y \in S, x # y
                 PROVE  Before(keys, x, y) \/ Before(keys, y, x)
    BY <1>1 DEF Total
  <2>2. keys[x] # keys[y] => Less(keys[x], keys[y]) \/ Less(keys[y], keys[x])
    BY <1>2, LessTotal
  <2>3. x < y \/ y < x
    BY <1>2, <2>1
  <2> QED
    BY <2>2, <2>3 DEF Before
<1>6. \A i \in S : Earlier(keys, i) = Below(R, S, i)
  BY <1>1 DEF Below, Earlier
<1> QED
  BY <1>1, <1>3, <1>4, <1>5, <1>6

\* Each place of a sequence of keys has a place of its own in their order.
LEMMA StablePlaces ==
  ASSUME NEW N \in Nat, NEW keys \in [1 .. N -> Seq(Int)]
  PROVE  /\ \A i \in 1 .. N : Cardinality(Earlier(keys, i)) \in 0 .. N - 1
         /\ \A n \in 1 .. N : \E i \in 1 .. N : Cardinality(Earlier(keys, i)) = n - 1
         /\ \A i, j \in 1 .. N :
              Cardinality(Earlier(keys, i)) = Cardinality(Earlier(keys, j)) => i = j
         /\ \A i, j \in 1 .. N :
              Before(keys, i, j) => Cardinality(Earlier(keys, i)) < Cardinality(Earlier(keys, j))
<1> DEFINE S == 1 .. N
           R == Firsts(keys, S)
<1>1. /\ Irreflexive(R, S) /\ Transitive(R, S) /\ Total(R, S)
      /\ \A i, j \in S : <<i, j>> \in R <=> Before(keys, i, j)
      /\ \A i \in S : Earlier(keys, i) = Below(R, S, i)
  BY StableOrder
<1>2. IsFiniteSet(S) /\ Cardinality(S) = N
  BY FS_Interval
<1> HIDE DEF R, S
<1>3. /\ \A x \in S : Cardinality(Below(R, S, x)) \in 0 .. Cardinality(S) - 1
      /\ \A n \in 1 .. Cardinality(S) : \E x \in S : Cardinality(Below(R, S, x)) = n - 1
      /\ \A x, y \in S : Cardinality(Below(R, S, x)) = Cardinality(Below(R, S, y)) => x = y
      /\ \A x, y \in S : <<x, y>> \in R => Cardinality(Below(R, S, x)) < Cardinality(Below(R, S, y))
  BY <1>1, <1>2, Places
<1>4. /\ \A i \in S : Cardinality(Earlier(keys, i)) \in 0 .. N - 1
      /\ \A n \in 1 .. N : \E i \in S : Cardinality(Earlier(keys, i)) = n - 1
      /\ \A i, j \in S : Cardinality(Earlier(keys, i)) = Cardinality(Earlier(keys, j)) => i = j
      /\ \A i, j \in S :
           Before(keys, i, j) => Cardinality(Earlier(keys, i)) < Cardinality(Earlier(keys, j))
  BY <1>1, <1>2, <1>3
<1> QED
  BY <1>4 DEF S

LEMMA OrderIs ==
  ASSUME NEW N \in Nat, NEW keys \in [1 .. N -> Seq(Int)]
  PROVE  InOrder(keys) = [n \in 1 .. N |-> CHOOSE i \in 1 .. N : Cardinality(Earlier(keys, i)) = n - 1]
<1>1. DOMAIN keys = 1 .. N
  OBVIOUS
<1>2. InOrder(keys) = [n \in DOMAIN keys |->
                         CHOOSE i \in DOMAIN keys : Cardinality(Earlier(keys, i)) = n - 1]
  BY Zenon DEF InOrder, Earlier
<1> QED
  BY <1>1, <1>2, Zenon

\* The places in their order are all the places, each once, and later ones do not
\* come before earlier ones.
LEMMA Sorted ==
  ASSUME NEW N \in Nat, NEW keys \in [1 .. N -> Seq(Int)]
  PROVE  /\ InOrder(keys) \in [1 .. N -> 1 .. N]
         /\ \A i \in 1 .. N : \E n \in 1 .. N : InOrder(keys)[n] = i
         /\ \A n, m \in 1 .. N : InOrder(keys)[n] = InOrder(keys)[m] => n = m
         /\ \A n, m \in 1 .. N : n < m => Before(keys, InOrder(keys)[n], InOrder(keys)[m])
<1> DEFINE S == 1 .. N
           place(i) == Cardinality(Earlier(keys, i))
           order == InOrder(keys)
<1>1. /\ \A i \in S : place(i) \in 0 .. N - 1
      /\ \A n \in S : \E i \in S : place(i) = n - 1
      /\ \A i, j \in S : place(i) = place(j) => i = j
      /\ \A i, j \in S : Before(keys, i, j) => place(i) < place(j)
  BY StablePlaces
<1>2. order = [n \in S |-> CHOOSE i \in S : place(i) = n - 1]
  BY OrderIs
<1>3. \A i, j \in S : i # j => Before(keys, i, j) \/ Before(keys, j, i)
  BY StableOrder DEF Total
<1> HIDE DEF place, order
<1>4. \A n \in S : order[n] \in S /\ place(order[n]) = n - 1
  BY <1>1, <1>2
<1>5. \A i \in S : \E n \in S : order[n] = i
  <2>1. SUFFICES ASSUME NEW i \in S PROVE \E n \in S : order[n] = i
    OBVIOUS
  <2>2. place(i) + 1 \in S /\ (place(i) + 1) - 1 = place(i)
    BY <1>1
  <2>3. order[place(i) + 1] \in S /\ place(order[place(i) + 1]) = place(i)
    BY <1>4, <2>2
  <2> QED
    BY <1>1, <2>2, <2>3
<1>6. \A n, m \in S : order[n] = order[m] => n = m
  <2>1. SUFFICES ASSUME NEW n \in S, NEW m \in S, order[n] = order[m] PROVE n = m
    OBVIOUS
  <2>2. n - 1 = m - 1
    BY <1>4, <2>1
  <2> QED
    BY <2>2
<1>7. ASSUME NEW n \in S, NEW m \in S, n < m
      PROVE  Before(keys, order[n], order[m])
  <2>1. order[n] \in S /\ order[m] \in S /\ place(order[n]) < place(order[m])
        /\ place(order[n]) \in Int /\ place(order[m]) \in Int
    BY <1>4, <1>7
  <2>2. Before(keys, order[m], order[n]) => place(order[m]) < place(order[n])
    BY <1>1, <2>1
  <2>3. order[n] # order[m]
    BY <2>1
  <2> QED
    BY <1>3, <2>1, <2>2, <2>3
<1>8. order \in [S -> S]
  BY <1>2, <1>4
<1> QED
  BY <1>5, <1>6, <1>7, <1>8 DEF order

\* What is in its order keeps its places.
LEMMA SortedAlready ==
  ASSUME NEW N \in Nat, NEW keys \in [1 .. N -> Seq(Int)],
         \A n, m \in 1 .. N : n < m => Before(keys, n, m)
  PROVE  InOrder(keys) = [n \in 1 .. N |-> n]
<1> DEFINE S == 1 .. N
           R == Firsts(keys, S)
           place(i) == Cardinality(Earlier(keys, i))
<1>1. /\ Irreflexive(R, S) /\ Transitive(R, S)
      /\ \A i, j \in S : <<i, j>> \in R <=> Before(keys, i, j)
  BY StableOrder
<1>2. \A i, j \in S : place(i) = place(j) => i = j
  BY StablePlaces
<1> HIDE DEF R
<1>3. ASSUME NEW n \in S PROVE place(n) = n - 1
  <2>1. ASSUME NEW j \in S PROVE Before(keys, j, n) <=> j < n
    <3>1. j < n \/ j = n \/ n < j
      OBVIOUS
    <3>2. ASSUME j = n PROVE ~Before(keys, j, n)
      BY <1>1, <3>2 DEF Irreflexive
    <3>3. ASSUME n < j PROVE ~Before(keys, j, n)
      <4>1. <<n, j>> \in R /\ <<j, j>> \notin R
        BY <1>1, <3>3 DEF Irreflexive
      <4> QED
        BY <1>1, <4>1 DEF Transitive
    <3> QED
      BY <3>1, <3>2, <3>3
  <2>2. Earlier(keys, n) = 1 .. n - 1
    BY <2>1 DEF Earlier
  <2>3. 1 \in Int /\ n - 1 \in Int /\ n - 1 >= 0
    OBVIOUS
  <2>4. Cardinality(1 .. n - 1) = n - 1
    BY <2>3, FS_Interval
  <2> QED
    BY <2>2, <2>4
<1>4. InOrder(keys) = [n \in S |-> CHOOSE i \in S : place(i) = n - 1]
  BY OrderIs
<1> HIDE DEF place
<1>5. \A n \in S : (CHOOSE i \in S : place(i) = n - 1) = n
  BY <1>2, <1>3
<1> QED
  BY <1>4, <1>5

Ordered(keys) == \A n, m \in DOMAIN keys : n < m => Before(keys, n, m)

\* What was put in its order is in its order.
LEMMA SortedIsOrdered ==
  ASSUME NEW N \in Nat, NEW keys \in [1 .. N -> Seq(Int)], NEW after,
         after = [n \in 1 .. N |-> keys[InOrder(keys)[n]]]
  PROVE  after \in [1 .. N -> Seq(Int)] /\ Ordered(after)
<1> DEFINE order == InOrder(keys)
<1>1. /\ order \in [1 .. N -> 1 .. N]
      /\ \A n, m \in 1 .. N : n < m => Before(keys, order[n], order[m])
  BY Sorted
<1> HIDE DEF order
<1>2. after = [n \in 1 .. N |-> keys[order[n]]]
  BY DEF order
<1>3. after \in [1 .. N -> Seq(Int)]
  BY <1>1, <1>2
<1>4. ASSUME NEW n \in 1 .. N, NEW m \in 1 .. N, n < m PROVE Before(after, n, m)
  <2>1. Before(keys, order[n], order[m]) /\ after[n] = keys[order[n]] /\ after[m] = keys[order[m]]
    BY <1>1, <1>2, <1>4
  <2> QED
    BY <1>4, <2>1 DEF Before
<1>5. DOMAIN after = 1 .. N
  BY <1>2
<1> QED
  BY <1>3, <1>4, <1>5 DEF Ordered

LEMMA OrderedAlready ==
  ASSUME NEW N \in Nat, NEW keys \in [1 .. N -> Seq(Int)], Ordered(keys)
  PROVE  InOrder(keys) = [n \in 1 .. N |-> n]
<1>1. DOMAIN keys = 1 .. N
  OBVIOUS
<1> QED
  BY <1>1, SortedAlready DEF Ordered

=============================================================================
