-------------------------- MODULE DuplicatesProofs --------------------------
(***************************************************************************)
(* Theorems about Dedup for any catalog, any width of the hashes and any   *)
(* number of bands above the highest threshold.  DedupInv is the inductive *)
(* invariant; the lemmas before it are about orders, forests and bands.    *)
(***************************************************************************)
EXTENDS Dedup, OrderProofs

-----------------------------------------------------------------------------
(***************************************************************************)
(* Union-find.                                                             *)
(***************************************************************************)
\* rho gives the root of every element.
RootMap(parent, rho) ==
  /\ parent \in [DOMAIN parent -> DOMAIN parent]
  /\ rho \in [DOMAIN parent -> DOMAIN parent]
  /\ \A x \in DOMAIN parent :
       /\ parent[rho[x]] = rho[x] /\ rho[parent[x]] = rho[x]
       /\ parent[x] = x => rho[x] = x
       /\ \A S \in SUBSET DOMAIN parent : x \in S /\ Upwards(parent, S) => rho[x] \in S

\* A root is the only one its element is led to.
LEMMA RootIs ==
  ASSUME NEW parent, NEW rho, RootMap(parent, rho), NEW x \in DOMAIN parent
  PROVE  Root(parent, x) = rho[x]
<1> DEFINE Led(r) == /\ parent[r] = r
                     /\ \A S \in SUBSET DOMAIN parent : x \in S /\ Upwards(parent, S) => r \in S
           S0 == {y \in DOMAIN parent : rho[y] = rho[x]}
<1>1. rho[x] \in DOMAIN parent /\ Led(rho[x])
  BY DEF RootMap
<1>2. S0 \in SUBSET DOMAIN parent /\ x \in S0 /\ Upwards(parent, S0)
  BY DEF RootMap, Upwards
<1>3. ASSUME NEW r \in DOMAIN parent, Led(r)
      PROVE  r = rho[x]
  <2>1. r \in S0
    BY <1>2, <1>3
  <2> QED
    BY <1>3, <2>1 DEF RootMap
<1> QED
  BY <1>1, <1>3 DEF Root

\* What the roots are after two elements were joined.
Joined(rho, x, y) == [z \in DOMAIN rho |-> IF rho[z] = rho[x] THEN rho[y] ELSE rho[z]]

LEMMA UniteJoins ==
  ASSUME NEW parent, NEW rho, RootMap(parent, rho),
         NEW x \in DOMAIN parent, NEW y \in DOMAIN parent
  PROVE  /\ RootMap(Unite(parent, x, y), Joined(rho, x, y))
         /\ DOMAIN Unite(parent, x, y) = DOMAIN parent
<1> DEFINE D == DOMAIN parent
           a == rho[x]
           b == rho[y]
           P == Unite(parent, x, y)
           J == Joined(rho, x, y)
<1>1. P = [parent EXCEPT ![a] = b]
  BY RootIs DEF Unite
<1>2. DOMAIN rho = D /\ a \in D /\ b \in D /\ parent[a] = a /\ parent[b] = b /\ rho[a] = a /\ rho[b] = b
  BY DEF RootMap
<1>3. DOMAIN P = D /\ P \in [D -> D] /\ P[a] = b /\ \A z \in D \ {a} : P[z] = parent[z]
  BY <1>1, <1>2 DEF RootMap
<1>4. J \in [D -> D] /\ \A z \in D : J[z] = IF rho[z] = a THEN b ELSE rho[z]
  BY <1>2 DEF Joined, RootMap
<1> HIDE DEF P, J, a, b, D
<1>5. \A z \in D : rho[z] \in D /\ parent[rho[z]] = rho[z] /\ rho[parent[z]] = rho[z]
                   /\ (parent[z] = z => rho[z] = z) /\ parent[z] \in D
  BY DEF RootMap, D
<1>6. ASSUME NEW z \in D
      PROVE  P[J[z]] = J[z] /\ J[P[z]] = J[z] /\ (P[z] = z => J[z] = z)
  <2>1. P[J[z]] = J[z]
    BY <1>2, <1>3, <1>4, <1>5
  <2>2. CASE z = a
    BY <1>2, <1>3, <1>4, <1>5, <2>1, <2>2
  <2>3. CASE z # a
    BY <1>2, <1>3, <1>4, <1>5, <2>1, <2>3
  <2> QED
    BY <2>2, <2>3
<1>7. ASSUME NEW z \in D, NEW S \in SUBSET D, z \in S, Upwards(P, S)
      PROVE  J[z] \in S
  <2>1. a \in S => b \in S
    BY <1>3, <1>7 DEF Upwards
  <2>2. Upwards(parent, S)
    BY <1>2, <1>3, <1>7 DEF Upwards
  <2>3. rho[z] \in S
    BY <1>7, <2>2 DEF RootMap, D
  <2> QED
    BY <1>4, <2>1, <2>3
<1> QED
  BY <1>3, <1>4, <1>6, <1>7 DEF RootMap, D, P, J

LEMMA AloneAtFirst ==
  ASSUME NEW images
  PROVE  RootMap([r \in images |-> r], [r \in images |-> r])
BY DEF RootMap

\* The components are the classes of equal roots.
LEMMA ComponentsAre ==
  ASSUME NEW parent, NEW rho, RootMap(parent, rho)
  PROVE  /\ Components(parent) =
              {c \in {{y \in DOMAIN parent : rho[y] = rho[x]} : x \in DOMAIN parent} : Cardinality(c) >= 2}
<1>1. \A x \in DOMAIN parent : Root(parent, x) = rho[x]
  BY RootIs
<1>2. \A x \in DOMAIN parent : {y \in DOMAIN parent : Root(parent, y) = Root(parent, x)}
                               = {y \in DOMAIN parent : rho[y] = rho[x]}
  BY <1>1
<1>3. {{y \in DOMAIN parent : Root(parent, y) = Root(parent, x)} : x \in DOMAIN parent}
      = {{y \in DOMAIN parent : rho[y] = rho[x]} : x \in DOMAIN parent}
  BY <1>2
<1> QED
  BY <1>3 DEF Components

\* Components are disjoint sets of elements, whatever the parents are.
LEMMA ComponentsDisjoint ==
  ASSUME NEW parent
  PROVE  /\ \A c \in Components(parent) : c \subseteq DOMAIN parent /\ c # {}
         /\ \A c, d \in Components(parent) : c \intersect d # {} => c = d
BY DEF Components

-----------------------------------------------------------------------------
(***************************************************************************)
(* Near images: what the bands find and what union-find makes of it.       *)
(***************************************************************************)
LEMMA TwoElements ==
  ASSUME NEW x, NEW y, x # y
  PROVE  IsFiniteSet({x, y}) /\ Cardinality({x, y}) = 2
<1>1. IsFiniteSet({x}) /\ Cardinality({x}) = 1 /\ y \notin {x} /\ {x, y} = {x} \union {y}
  BY FS_Singleton
<1> QED
  BY <1>1, FS_AddElement

\* Two hashes that differ in fewer bits than there are bands agree on a band.
LEMMA BandsAgree ==
  ASSUME NEW h \in SUBSET Bit, NEW g \in SUBSET Bit, NEW t \in Nat, t <= MaxThreshold,
         Hamming(h, g) <= t
  PROVE  \E b \in DOMAIN Bands : h \intersect Bands[b] = g \intersect Bands[b]
<1> DEFINE diff == (h \ g) \union (g \ h)
           B == 1 .. Len(Bands)
           f == [b \in B |-> CHOOSE x \in Bands[b] : x \in diff]
<1>1. DOMAIN Bands = B /\ Len(Bands) \in Nat /\ \A b \in B : Bands[b] \in SUBSET Bit
  BY DedupAssumption
<1>2. IsFiniteSet(diff)
  BY DedupAssumption, FS_Subset
<1>3. SUFFICES ASSUME \A b \in B : h \intersect Bands[b] # g \intersect Bands[b]
               PROVE  FALSE
  BY <1>1
<1>4. \A b \in B : \E x \in Bands[b] : x \in diff
  BY <1>3
<1>5. \A b \in B : f[b] \in Bands[b] /\ f[b] \in diff
  BY <1>4
<1>6. f \in Injection(B, diff)
  <2>1. f \in [B -> diff]
    BY <1>5
  <2>2. \A b, c \in B : f[b] = f[c] => b = c
    BY <1>1, <1>5, DedupAssumption
  <2> HIDE DEF f
  <2> QED
    BY <2>1, <2>2 DEF Injection, IsInjective
<1>9. Cardinality(diff) <= t
  BY DEF Hamming
<1> HIDE DEF diff, f
<1>7. Cardinality(B) <= Cardinality(diff)
  BY <1>2, <1>6, FS_Injection
<1>8. Cardinality(B) = Len(Bands) /\ Cardinality(diff) \in Nat
  <2>0. 1 \in Int /\ Len(Bands) \in Int
    BY <1>1
  <2>1. Cardinality(1 .. Len(Bands)) = IF 1 > Len(Bands) THEN 0 ELSE Len(Bands) - 1 + 1
    BY <2>0, FS_Interval, Zenon
  <2>2. Cardinality(B) = Len(Bands)
    BY <1>1, <2>1
  <2> QED
    BY <1>2, <2>2, FS_CardinalityType
<1> QED
  BY <1>1, <1>7, <1>8, <1>9, DedupAssumption

Images(S) == IsFiniteSet(S) /\ \A r \in S : r.phash \in SUBSET Bit

\* A pair that was found is one of two close images.
LEMMA PairIsClose ==
  ASSUME NEW images, Images(images), NEW t, NEW cap, NEW e \in MihPairs(images, t, cap),
         NEW x \in e, NEW y \in e, x # y
  PROVE  x \in images /\ y \in images /\ e = {x, y} /\ Hamming(x.phash, y.phash) <= t
<1>1. PICK b \in DOMAIN Bands : \E B \in Buckets(images, b) :
        e \in SUBSET B /\ Cardinality(e) = 2 /\ \A q, r \in e : Hamming(q.phash, r.phash) <= t
  BY DEF MihPairs, kSubset
<1>0. PICK B \in Buckets(images, b) :
        e \in SUBSET B /\ Cardinality(e) = 2 /\ \A q, r \in e : Hamming(q.phash, r.phash) <= t
  BY <1>1
<1>2. B \in SUBSET images
  BY DEF Buckets, Bucket
<1>3. IsFiniteSet(e)
  BY <1>0, <1>2, FS_Subset DEF Images
<1>4. e = {x, y}
  <2>1. {x, y} \in SUBSET e /\ Cardinality({x, y}) = 2
    BY TwoElements
  <2> QED
    BY <1>0, <1>3, <2>1, FS_Subset
<1> QED
  BY <1>0, <1>2, <1>4

\* Any two images within the threshold are found, unless a bucket is skipped.
LEMMA CloseIsPair ==
  ASSUME NEW images, Images(images), NEW t \in Nat, t <= MaxThreshold, NEW cap \in Nat,
         Skipped(images, cap) = 0,
         NEW q \in images, NEW r \in images, q # r, Hamming(q.phash, r.phash) <= t
  PROVE  {q, r} \in MihPairs(images, t, cap)
<1>1. PICK b \in DOMAIN Bands : q.phash \intersect Bands[b] = r.phash \intersect Bands[b]
  BY BandsAgree DEF Images
<1> DEFINE B == Bucket(images, b, r)
           over == UNION {{c} \X {x \in Buckets(images, c) : Cardinality(x) > cap} : c \in DOMAIN Bands}
<1>2. B \in SUBSET images /\ {q, r} \in SUBSET B /\ IsFiniteSet(B)
  BY <1>1, FS_Subset DEF Bucket, Images
<1>3. IsFiniteSet({q, r}) /\ Cardinality({q, r}) = 2
  BY TwoElements
<1>4. Cardinality(B) \in Nat /\ Cardinality(B) >= 2
  BY <1>2, <1>3, FS_Subset, FS_CardinalityType
<1>5. B \in Buckets(images, b)
  BY <1>4 DEF Buckets
<1>6. over = {}
  <2>1. \A c \in DOMAIN Bands : Buckets(images, c) \in SUBSET SUBSET images
    BY DEF Buckets, Bucket
  <2>2. over \in SUBSET ((DOMAIN Bands) \X SUBSET images)
    BY <2>1
  <2>3. IsFiniteSet(DOMAIN Bands)
    BY DedupAssumption, FS_Interval
  <2>4. IsFiniteSet((DOMAIN Bands) \X SUBSET images)
    BY <2>3, FS_Product, FS_SUBSET DEF Images
  <2>5. IsFiniteSet(over)
    BY <2>2, <2>4, FS_Subset
  <2> HIDE DEF over
  <2>6. Cardinality(over) = 0
    BY DEF Skipped, over
  <2> QED
    BY <2>5, <2>6, FS_EmptySet
<1>7. Cardinality(B) <= cap
  <2>1. SUFFICES ASSUME Cardinality(B) > cap PROVE FALSE
    BY <1>4
  <2>2. <<b, B>> \in over
    BY <1>5, <2>1
  <2> QED
    BY <1>6, <2>2
<1>8. \A x, y \in {q, r} : Hamming(x.phash, y.phash) <= t
  <2>1. Hamming(q.phash, r.phash) = Hamming(r.phash, q.phash)
    <3>1. (q.phash \ r.phash) \union (r.phash \ q.phash) = (r.phash \ q.phash) \union (q.phash \ r.phash)
      OBVIOUS
    <3> QED
      BY <3>1 DEF Hamming
  <2>2. \A x \in {q, r} : Hamming(x.phash, x.phash) = 0
    <3>1. \A h : (h \ h) \union (h \ h) = {}
      OBVIOUS
    <3> QED
      BY <3>1, FS_EmptySet DEF Hamming
  <2> QED
    BY <2>1, <2>2
<1>9. {q, r} \in kSubset(2, B)
  BY <1>2, <1>3 DEF kSubset
<1> QED
  BY <1>5, <1>7, <1>8, <1>9 DEF MihPairs

\* The classes hold all pairs that were joined and nothing that chains of close
\* images do not connect.
JoinedSoFar(parent, pairs, t, cap) ==
  LET images == DOMAIN parent IN
  /\ pairs \subseteq MihPairs(images, t, cap)
  /\ \E rho \in [images -> images] :
       /\ RootMap(parent, rho)
       /\ \A S \in SUBSET images : Closed(images, t, S) => \A x \in images : x \in S <=> rho[x] \in S
       /\ \A e \in MihPairs(images, t, cap) \ pairs : \A q, r \in e : rho[q] = rho[r]

LEMMA NoneJoined ==
  ASSUME NEW images, NEW t, NEW cap
  PROVE  JoinedSoFar([r \in images |-> r], MihPairs(images, t, cap), t, cap)
<1> DEFINE id == [r \in images |-> r]
<1>1. id \in [images -> images] /\ RootMap(id, id) /\ DOMAIN id = images /\ \A x \in images : id[x] = x
  BY AloneAtFirst
<1> HIDE DEF id
<1>2. JoinedSoFar(id, MihPairs(images, t, cap), t, cap)
  BY <1>1 DEF JoinedSoFar
<1> QED
  BY <1>2 DEF id

LEMMA OneJoined ==
  ASSUME NEW parent, Images(DOMAIN parent), NEW pairs, NEW t, NEW cap,
         JoinedSoFar(parent, pairs, t, cap), NEW e \in pairs, NEW x \in e, NEW y \in e, x # y
  PROVE  /\ DOMAIN Unite(parent, x, y) = DOMAIN parent
         /\ JoinedSoFar(Unite(parent, x, y), pairs \ {e}, t, cap)
<1> DEFINE images == DOMAIN parent
           all == MihPairs(images, t, cap)
           P == Unite(parent, x, y)
<1>1. PICK rho \in [images -> images] :
        /\ RootMap(parent, rho)
        /\ \A S \in SUBSET images : Closed(images, t, S) => \A z \in images : z \in S <=> rho[z] \in S
        /\ \A d \in all \ pairs : \A q, r \in d : rho[q] = rho[r]
  BY DEF JoinedSoFar
<1>2. pairs \subseteq all
  BY DEF JoinedSoFar
<1>3. x \in images /\ y \in images /\ e = {x, y} /\ Hamming(x.phash, y.phash) <= t
  BY <1>2, PairIsClose
<1>4. y.phash \in SUBSET Bit /\ x.phash \in SUBSET Bit
  BY <1>3 DEF Images
<1>5. Hamming(y.phash, x.phash) <= t
  <2>1. (y.phash \ x.phash) \union (x.phash \ y.phash) = (x.phash \ y.phash) \union (y.phash \ x.phash)
    OBVIOUS
  <2> QED
    BY <1>3, <2>1 DEF Hamming
<1> DEFINE J == Joined(rho, x, y)
<1>6. RootMap(P, J) /\ DOMAIN P = images
  BY <1>1, <1>3, UniteJoins
<1>7. J \in [images -> images] /\ \A z \in images : J[z] = IF rho[z] = rho[x] THEN rho[y] ELSE rho[z]
  BY <1>1, <1>3 DEF Joined
<1> HIDE DEF J, P
<1>8. ASSUME NEW S \in SUBSET images, Closed(images, t, S), NEW z \in images
      PROVE  z \in S <=> J[z] \in S
  <2>1. x \in S <=> y \in S
    BY <1>3, <1>5, <1>8 DEF Closed
  <2>2. \A w \in images : w \in S <=> rho[w] \in S
    BY <1>1, <1>8
  <2> QED
    BY <1>3, <1>7, <2>1, <2>2
<1>9. ASSUME NEW d \in all \ (pairs \ {e}), NEW q \in d, NEW r \in d
      PROVE  J[q] = J[r]
  <2>1. CASE d = e
    BY <1>3, <1>7, <2>1
  <2>2. CASE d # e
    <3>1. rho[q] = rho[r]
      BY <1>1, <1>9, <2>2
    <3>2. q \in images /\ r \in images
      <4>1. d \in all
        BY <1>9
      <4> QED
        BY <4>1 DEF MihPairs, kSubset, Buckets, Bucket
    <3> QED
      BY <1>7, <3>1, <3>2
  <2> QED
    BY <2>1, <2>2
<1>10. JoinedSoFar(P, pairs \ {e}, t, cap)
  BY <1>2, <1>6, <1>7, <1>8, <1>9 DEF JoinedSoFar
<1> QED
  BY <1>6, <1>10 DEF P

\* When all pairs are joined and no bucket was skipped, the components are what
\* chains of close images connect.
LEMMA AllJoined ==
  ASSUME NEW parent, Images(DOMAIN parent), NEW t \in Nat, t <= MaxThreshold, NEW cap \in Nat,
         JoinedSoFar(parent, {}, t, cap), Skipped(DOMAIN parent, cap) = 0
  PROVE  Components(parent) =
           {g \in {Within(DOMAIN parent, t, x) : x \in DOMAIN parent} : Cardinality(g) >= 2}
<1> DEFINE images == DOMAIN parent
<1>1. PICK rho \in [images -> images] :
        /\ RootMap(parent, rho)
        /\ \A S \in SUBSET images : Closed(images, t, S) => \A z \in images : z \in S <=> rho[z] \in S
        /\ \A d \in MihPairs(images, t, cap) : \A q, r \in d : rho[q] = rho[r]
  BY DEF JoinedSoFar
<1>2. \A q, r \in images : Hamming(q.phash, r.phash) <= t => rho[q] = rho[r]
  <2>1. SUFFICES ASSUME NEW q \in images, NEW r \in images, q # r, Hamming(q.phash, r.phash) <= t
                 PROVE  rho[q] = rho[r]
    OBVIOUS
  <2>2. {q, r} \in MihPairs(images, t, cap)
    BY <2>1, CloseIsPair
  <2> QED
    BY <1>1, <2>2
<1>3. ASSUME NEW x \in images
      PROVE  {y \in images : rho[y] = rho[x]} = Within(images, t, x)
  <2> DEFINE C == {y \in images : rho[y] = rho[x]}
  <2>1. C \in SUBSET images /\ x \in C /\ Closed(images, t, C)
    BY <1>2 DEF Closed
  <2>2. Within(images, t, x) \subseteq C
    BY <2>1 DEF Within
  <2>3. ASSUME NEW y \in C, NEW S \in SUBSET images, x \in S, Closed(images, t, S)
        PROVE  y \in S
    BY <1>1, <2>3
  <2>4. C \subseteq Within(images, t, x)
    BY <2>3 DEF Within
  <2> QED
    BY <2>2, <2>4
<1>4. {{y \in images : rho[y] = rho[x]} : x \in images} = {Within(images, t, x) : x \in images}
  BY <1>3
<1> QED
  BY <1>1, <1>4, ComponentsAre

-----------------------------------------------------------------------------
(***************************************************************************)
(* Groups and the order in which they are listed.                          *)
(***************************************************************************)
\* What fetch_scope returns: rows of a catalog, each once.
Rows(S) ==
  /\ IsFiniteSet(S) /\ S \subseteq CatalogRow
  /\ \A q, r \in S : Key(q) = Key(r) => q = r

LEMMA RankIsKey ==
  ASSUME NEW r \in CatalogRow, NEW kind
  PROVE  Rank(kind, r) \in [1 .. 5 -> Int] /\ BestTs(r) \in Int
<1>1. /\ {r.pixels, r.size, r.length, r.archive, r.id} \subseteq Nat
      /\ {r.exif, r.mtime, r.indexed} \subseteq Int
  BY DEF CatalogRow, NoTime
<1>2. BestTs(r) \in Int
  BY <1>1 DEF BestTs
<1>3. {-r.archive, -r.id, -r.length, r.pixels, r.size, IF r.clean THEN 1 ELSE 0} \subseteq Int
  BY <1>1
<1> QED
  BY <1>2, <1>3 DEF Rank

\* The keeper of a group with a real file is a real file of the group.
LEMMA KeepIsReal ==
  ASSUME NEW rows, Rows(rows), NEW g \in SUBSET rows, \E r \in g : Real(r), NEW kind
  PROVE  Keep(kind, g) \in g /\ Real(Keep(kind, g))
<1> DEFINE eligible == {r \in g : Real(r)}
           key == [r \in eligible |-> Rank(kind, r)]
<1>1. IsFiniteSet(eligible) /\ eligible # {} /\ \A r \in eligible : r \in CatalogRow
  BY FS_Subset DEF Rows
<1>2. key \in [eligible -> [1 .. 5 -> Int]]
  BY <1>1, RankIsKey
<1>3. Irreflexive(KeyOrder(key, eligible), eligible) /\ Transitive(KeyOrder(key, eligible), eligible)
  <2>1. \A k \in [1 .. 5 -> Int] : k \in Seq(Int)
    BY Tuple
  <2>2. key \in [eligible -> Seq(Int)]
    BY <1>2, <2>1
  <2> QED
    BY <2>2, KeysOrder
<1> HIDE DEF key, eligible
<1>4. PICK k \in eligible : \A r \in eligible : <<k, r>> \notin KeyOrder(key, eligible)
  BY <1>1, <1>3, Maximal
<1>5. \A r \in eligible : ~Less(Rank(kind, k), Rank(kind, r))
  BY <1>4 DEF KeyOrder, key
<1> QED
  BY <1>5 DEF Keep, eligible

LEMMA GroupFields ==
  ASSUME NEW kind, NEW g, NEW t
  PROVE  LET G == GroupOf(kind, g, t) IN
         /\ G.kind = kind /\ G.members = g /\ G.keep = Keep(kind, g)
         /\ G.actionable = {r \in g : Actionable(kind, Keep(kind, g), r, t)}
         /\ G.reclaimable = TotalSize(G.actionable)
BY DEF GroupOf

\* The near groups a command may be given: disjoint sets of near images.
NearSets(rows, near) ==
  /\ \A g \in near : g \subseteq NearImages(rows) /\ g # {}
  /\ \A g, h \in near : g \intersect h # {} => g = h

\* How a group comes about.
LEMMA GroupIs ==
  ASSUME NEW rows, NEW near, NEW p, NEW G \in GroupsFound(rows, near, p)
  PROVE  \/ \E g \in near : G = GroupOf("near", g, p.threshold)
         \/ \E g \in ExactGroups(NotNear(rows, near)) : G = GroupOf("exact", g, p.threshold)
BY DEF GroupsFound

LEMMA ExactGroupIs ==
  ASSUME NEW rows, Rows(rows), NEW near, NEW g \in ExactGroups(NotNear(rows, near))
  PROVE  /\ g \subseteq NotNear(rows, near) /\ \E r \in g : Real(r)
         /\ \E c : g = {q \in NotNear(rows, near) : q.hash = c}
<1>1. PICK r \in NotNear(rows, near) : g = {q \in NotNear(rows, near) : q.hash = r.hash}
  BY DEF ExactGroups
<1>2. {q \in g : Real(q)} # {}
  <2>1. SUFFICES ASSUME {q \in g : Real(q)} = {} PROVE FALSE
    OBVIOUS
  <2>2. Cardinality({q \in g : Real(q)}) = 0
    BY <2>1, FS_EmptySet
  <2> QED
    BY <2>1, <2>2 DEF ExactGroups, Duplicates
<1> QED
  BY <1>1, <1>2

\* Each group has a keeper that is a real file, and no two share a row.
LEMMA GroupsAre ==
  ASSUME NEW rows, Rows(rows), NEW near, NearSets(rows, near), NEW p
  PROVE  /\ \A G \in GroupsFound(rows, near, p) :
              /\ G.members \subseteq rows /\ G.keep \in G.members /\ Real(G.keep)
              /\ G.kind \in {"near", "exact"}
              /\ G.actionable = {r \in G.members : Actionable(G.kind, G.keep, r, p.threshold)}
              /\ G.reclaimable = TotalSize(G.actionable)
              /\ G.kind = "exact" => \A q, r \in G.members : q.hash = r.hash
         /\ \A G, H \in GroupsFound(rows, near, p) :
              G.members \intersect H.members # {} => G = H
<1> DEFINE rest == NotNear(rows, near)
           Near(G) == \E g \in near : G = GroupOf("near", g, p.threshold)
           Exact(G) == \E g \in ExactGroups(rest) : G = GroupOf("exact", g, p.threshold)
<1>1. \A g \in near : g \in SUBSET rows /\ g \subseteq UNION near /\ \E r \in g : Real(r)
  BY DEF NearSets, NearImages
<1>2. \A g \in ExactGroups(rest) : g \in SUBSET rows /\ g \intersect UNION near = {}
                                   /\ \E r \in g : Real(r)
  BY ExactGroupIs DEF NotNear
<1>3. ASSUME NEW G \in GroupsFound(rows, near, p)
      PROVE  /\ G.members \subseteq rows /\ G.keep \in G.members /\ Real(G.keep)
             /\ G.kind \in {"near", "exact"}
             /\ G.actionable = {r \in G.members : Actionable(G.kind, G.keep, r, p.threshold)}
             /\ G.reclaimable = TotalSize(G.actionable)
             /\ G.kind = "exact" => \A q, r \in G.members : q.hash = r.hash
  <2>1. CASE Near(G)
    <3>1. PICK g \in near : G = GroupOf("near", g, p.threshold)
      BY <2>1
    <3>2. /\ G.kind = "near" /\ G.members = g /\ G.keep = Keep("near", g)
          /\ G.actionable = {r \in g : Actionable("near", Keep("near", g), r, p.threshold)}
          /\ G.reclaimable = TotalSize(G.actionable)
      BY <3>1, GroupFields
    <3> QED
      BY <1>1, <3>2, KeepIsReal
  <2>2. CASE Exact(G)
    <3>1. PICK g \in ExactGroups(rest) : G = GroupOf("exact", g, p.threshold)
      BY <2>2
    <3>2. /\ G.kind = "exact" /\ G.members = g /\ G.keep = Keep("exact", g)
          /\ G.actionable = {r \in g : Actionable("exact", Keep("exact", g), r, p.threshold)}
          /\ G.reclaimable = TotalSize(G.actionable)
      BY <3>1, GroupFields
    <3>3. \A q, r \in g : q.hash = r.hash
      BY ExactGroupIs
    <3> QED
      BY <1>2, <3>2, <3>3, KeepIsReal
  <2> QED
    BY <2>1, <2>2, GroupIs
<1>4. ASSUME NEW G \in GroupsFound(rows, near, p), NEW H \in GroupsFound(rows, near, p),
             G.members \intersect H.members # {}
      PROVE  G = H
  <2>1. \A X : Near(X) => X.members \in near /\ X = GroupOf("near", X.members, p.threshold)
    BY GroupFields
  <2>2. \A X : Exact(X) => /\ X.members \in ExactGroups(rest)
                           /\ X = GroupOf("exact", X.members, p.threshold)
    BY GroupFields
  <2>3. (Near(G) \/ Exact(G)) /\ (Near(H) \/ Exact(H))
    BY GroupIs
  <2>4. CASE Near(G) /\ Near(H)
    BY <1>4, <2>1, <2>4 DEF NearSets
  <2>5. CASE Exact(G) /\ Exact(H)
    <3>0. G.members \in ExactGroups(rest) /\ H.members \in ExactGroups(rest)
      BY <2>2, <2>5
    <3>1. ASSUME NEW g \in ExactGroups(rest)
          PROVE  \E c : \A q : q \in g <=> q \in rest /\ q.hash = c
      <4>1. \E c : g = {q \in rest : q.hash = c}
        BY ExactGroupIs
      <4> QED
        BY <4>1
    <3>2. PICK c : \A q : q \in G.members <=> q \in rest /\ q.hash = c
      BY <3>0, <3>1
    <3>4. PICK d : \A q : q \in H.members <=> q \in rest /\ q.hash = d
      BY <3>0, <3>1
    <3>3. G.members = H.members
      <4>1. \A q : q \in G.members <=> q \in H.members
        BY <1>4, <3>2, <3>4
      <4>2. G.members \subseteq rest /\ H.members \subseteq rest
        BY <3>2, <3>4
      <4> QED
        BY <4>1, <4>2
    <3> QED
      BY <2>2, <2>5, <3>3
  <2>6. ~(Near(G) /\ Exact(H)) /\ ~(Exact(G) /\ Near(H))
    BY <1>1, <1>2, <1>4, <2>1, <2>2
  <2> QED
    BY <2>3, <2>4, <2>5, <2>6
<1> QED
  BY <1>3, <1>4

LEMMA SizeIsNat ==
  ASSUME NEW S, IsFiniteSet(S), \A r \in S : r.size \in Nat
  PROVE  TotalSize(S) \in Nat
<1> DEFINE stored(r) == {r} \X (1 .. r.size)
           T == {stored(r) : r \in S}
           f == [r \in S |-> stored(r)]
<1>1. f \in Surjection(S, T)
  BY DEF Surjection
<1>2. IsFiniteSet(T)
  BY <1>1, FS_Surjection
<1>3. ASSUME NEW r \in S PROVE IsFiniteSet(stored(r))
  <2>1. 1 \in Int /\ r.size \in Int
    OBVIOUS
  <2>2. IsFiniteSet({r}) /\ IsFiniteSet(1 .. r.size)
    BY <2>1, FS_Singleton, FS_Interval
  <2> QED
    BY <2>2, FS_Product
<1>4. IsFiniteSet(UNION T)
  BY <1>2, <1>3, FS_UNION
<1> QED
  BY <1>4, FS_CardinalityType DEF TotalSize

\* The first row of a group is a row of it.
LEMMA FirstIsMember ==
  ASSUME NEW rows, Rows(rows), NEW g \in SUBSET rows, g # {}
  PROVE  SortedBy(g, Key)[1] \in g
<1> DEFINE key == [r \in g |-> Key(r)]
<1>1. IsFiniteSet(g) /\ \A r \in g : r \in CatalogRow
  BY FS_Subset DEF Rows
<1>2. key \in [g -> [1 .. 2 -> Int]] /\ \A x, y \in g : key[x] = key[y] => x = y
  BY <1>1 DEF Key, Rows, CatalogRow
<1>3. \A n \in 1 .. Cardinality(g) :
        \E x \in g : Cardinality(Ahead(key, g, x)) = n - 1
  <2>1. \A k \in [1 .. 2 -> Int] : k \in Seq(Int)
    BY Tuple
  <2>2. key \in [g -> Seq(Int)]
    BY <1>2, <2>1
  <2> HIDE DEF key
  <2> QED
    BY <1>1, <1>2, <2>2, KeyPlaces
<1>4. \A x \in g : Ahead(key, g, x) = {y \in g : Less(Key(y), Key(x))}
  BY DEF Ahead
<1>5. Cardinality(g) \in Nat /\ Cardinality(g) # 0
  BY <1>1, FS_CardinalityType, FS_EmptySet
<1>6. 1 \in 1 .. Cardinality(g)
  BY <1>5
<1>7. PICK x \in g : Cardinality(Ahead(key, g, x)) = 1 - 1
  BY <1>3, <1>6
<1>8. Cardinality({y \in g : Less(Key(y), Key(x))}) = 1 - 1
  BY <1>4, <1>7
<1>9. (CHOOSE z \in g : Cardinality({y \in g : Less(Key(y), Key(z))}) = 1 - 1) \in g
  BY <1>8
<1> QED
  BY <1>6, <1>9 DEF SortedBy

\* The list holds groups that were found, and all of them unless it is cut short.
LEMMA ListedAre ==
  ASSUME NEW rows, Rows(rows), NEW near, NearSets(rows, near),
         NEW p, p.limit \in Nat, p.sort \in {"wasted", "count", "newest"}
  PROVE  LET groups == GroupsFound(rows, near, p)
             list == Listed(groups, p) IN
         /\ \A i \in DOMAIN list : list[i] \in groups
         /\ Len(list) # p.limit => \A G \in groups : \E i \in DOMAIN list : list[i] = G
<1> DEFINE S == GroupsFound(rows, near, p)
           N == Cardinality(S)
           key == [G \in S |-> GroupKey(p.sort, G)]
           f == [G \in S |-> G.members]
           sorted == SortedBy(S, LAMBDA g : GroupKey(p.sort, g))
<1>1. \A G \in S :
        /\ G.members \in SUBSET rows /\ G.members # {} /\ G.keep \in rows
        /\ G.actionable \in SUBSET rows /\ G.reclaimable = TotalSize(G.actionable)
  BY GroupsAre
<1>2. \A G, H \in S : G.members \intersect H.members # {} => G = H
  BY GroupsAre
<1> HIDE DEF S
<1>3. IsFiniteSet(S)
  <2>1. f \in Injection(S, SUBSET rows)
    BY <1>1, <1>2 DEF Injection, IsInjective
  <2>2. IsFiniteSet(SUBSET rows)
    BY FS_SUBSET DEF Rows
  <2> QED
    BY <2>1, <2>2, FS_Injection
<1>4. ASSUME NEW G \in S
      PROVE  /\ key[G] \in [1 .. 3 -> Int]
             /\ \E r \in G.members : key[G][2] = r.archive /\ key[G][3] = r.id
  <2> DEFINE first == SortedBy(G.members, Key)[1]
  <2>1. first \in G.members /\ first \in CatalogRow
    BY <1>1, FirstIsMember DEF Rows
  <2>2. first.archive \in Nat /\ first.id \in Nat
    BY <2>1 DEF CatalogRow
  <2>3. -G.reclaimable \in Int
    <3>1. IsFiniteSet(G.actionable) /\ \A r \in G.actionable : r.size \in Nat
      BY <1>1, FS_Subset DEF Rows, CatalogRow
    <3> QED
      BY <1>1, <3>1, SizeIsNat
  <2>4. -Cardinality(G.members) \in Int
    BY <1>1, FS_Subset, FS_CardinalityType DEF Rows
  <2>5. -BestTs(G.keep) \in Int
    BY <1>1, RankIsKey DEF Rows
  <2> HIDE DEF first
  <2>6. PICK n \in Int : GroupKey(p.sort, G) = <<n, first.archive, first.id>>
    BY <2>3, <2>4, <2>5 DEF GroupKey, first
  <2>7. key[G] = <<n, first.archive, first.id>>
    BY <2>6
  <2> QED
    BY <2>1, <2>2, <2>7
<1>5. key \in [S -> [1 .. 3 -> Int]]
  BY <1>4
<1>6. ASSUME NEW G \in S, NEW H \in S, key[G] = key[H]
      PROVE  G = H
  <2>1. PICK q \in G.members : key[G][2] = q.archive /\ key[G][3] = q.id
    BY <1>4
  <2>2. PICK r \in H.members : key[H][2] = r.archive /\ key[H][3] = r.id
    BY <1>4
  <2>3. q = r
    BY <1>1, <1>6, <2>1, <2>2 DEF Rows, Key
  <2> QED
    BY <1>2, <2>1, <2>2, <2>3
<1>7. /\ \A G \in S : Cardinality(Ahead(key, S, G)) \in 0 .. N - 1
      /\ \A n \in 1 .. N : \E G \in S : Cardinality(Ahead(key, S, G)) = n - 1
      /\ \A G, H \in S : Cardinality(Ahead(key, S, G)) = Cardinality(Ahead(key, S, H)) => G = H
  <2>1. \A k \in [1 .. 3 -> Int] : k \in Seq(Int)
    BY Tuple
  <2>2. key \in [S -> Seq(Int)]
    BY <1>5, <2>1
  <2> HIDE DEF key
  <2> QED
    BY <1>3, <1>6, <2>2, KeyPlaces
<1> DEFINE before(G) == Cardinality({H \in S : Less(GroupKey(p.sort, H), GroupKey(p.sort, G))})
<1>8. \A G \in S : Ahead(key, S, G) = {H \in S : Less(GroupKey(p.sort, H), GroupKey(p.sort, G))}
  BY DEF Ahead
<1>9. \A G \in S : Cardinality(Ahead(key, S, G)) = before(G)
  BY <1>8
<1>10. /\ \A G \in S : before(G) \in 0 .. N - 1
       /\ \A n \in 1 .. N : \E G \in S : before(G) = n - 1
       /\ \A G, H \in S : before(G) = before(H) => G = H
  <2> HIDE DEF before, key
  <2> QED
    BY <1>7, <1>9
<1>11. N \in Nat
  BY <1>3, FS_CardinalityType
<1>12. sorted = [n \in 1 .. N |-> CHOOSE G \in S : before(G) = n - 1]
  BY DEF SortedBy
<1> HIDE DEF sorted, before, key, N
<1>13. \A n \in 1 .. N : sorted[n] \in S /\ before(sorted[n]) = n - 1
  BY <1>10, <1>12
<1>14. \A G \in S : \E n \in 1 .. N : sorted[n] = G
  <2>1. SUFFICES ASSUME NEW G \in S PROVE \E n \in 1 .. N : sorted[n] = G
    OBVIOUS
  <2>2. before(G) + 1 \in 1 .. N /\ (before(G) + 1) - 1 = before(G)
    BY <1>10, <1>11
  <2> QED
    BY <1>10, <1>13, <2>2
<1>15. sorted \in Seq(S) /\ Len(sorted) = N
  BY <1>11, <1>12, <1>13
<1> DEFINE m == IF p.limit < Len(sorted) THEN p.limit ELSE Len(sorted)
           list == SubSeq(sorted, 1, m)
<1>16. Listed(S, p) = list
  BY DEF Listed, sorted
<1>17. m \in 0 .. N /\ (m = p.limit \/ m = N)
  BY <1>11, <1>15
<1>18. Len(list) = m /\ DOMAIN list = 1 .. m /\ \A i \in 1 .. m : list[i] = sorted[i]
  BY <1>11, <1>15, <1>17
<1> HIDE DEF list, m
<1>19. \A i \in DOMAIN list : list[i] \in S
  BY <1>11, <1>13, <1>17, <1>18
<1>20. Len(list) # p.limit => \A G \in S : \E i \in DOMAIN list : list[i] = G
  BY <1>14, <1>17, <1>18
<1> QED
  BY <1>16, <1>19, <1>20 DEF S

-----------------------------------------------------------------------------
(***************************************************************************)
(* The command.                                                            *)
(***************************************************************************)
\* What is fetched are rows of the catalog, each once.
LEMMA FetchedRows ==
  ASSUME NEW c, IsCatalog(c), NEW scope, NEW p
  PROVE  Rows(Fetched(c, scope, p))
<1> DEFINE F == Fetched(c, scope, p)
           f == [x \in F |-> CHOOSE r \in c.rows : Key(r) = Key(x)]
<1>1. ASSUME NEW x \in F
      PROVE  \E a \in c.archives, r \in c.rows : r.archive = a.id /\ x = [r EXCEPT !.indexed = a.indexed]
  BY DEF Fetched
<1>2. ASSUME NEW a \in c.archives, NEW r \in c.rows
      PROVE  /\ [r EXCEPT !.indexed = a.indexed] \in CatalogRow
             /\ Key([r EXCEPT !.indexed = a.indexed]) = Key(r)
  <2>1. r \in CatalogRow /\ a.indexed \in Nat \union {NoTime}
    BY DEF IsCatalog
  <2> QED
    BY <2>1 DEF CatalogRow, Key
<1> HIDE DEF F
<1>3. F \subseteq CatalogRow
  BY <1>1, <1>2
<1>4. ASSUME NEW x \in F, NEW y \in F, Key(x) = Key(y)
      PROVE  x = y
  <2>1. PICK a \in c.archives, r \in c.rows : r.archive = a.id /\ x = [r EXCEPT !.indexed = a.indexed]
    BY <1>1
  <2>2. PICK b \in c.archives, q \in c.rows : q.archive = b.id /\ y = [q EXCEPT !.indexed = b.indexed]
    BY <1>1
  <2>3. r = q
    BY <1>2, <1>4, <2>1, <2>2 DEF IsCatalog
  <2>4. a = b
    BY <2>1, <2>2, <2>3 DEF IsCatalog
  <2> QED
    BY <2>1, <2>2, <2>3, <2>4
<1>5. \A x \in F : f[x] \in c.rows /\ Key(f[x]) = Key(x)
  BY <1>1, <1>2
<1>6. f \in Injection(F, c.rows)
  BY <1>4, <1>5 DEF Injection, IsInjective
<1>7. IsFiniteSet(F)
  BY <1>6, FS_Injection DEF IsCatalog
<1> QED
  BY <1>3, <1>4, <1>7 DEF Rows, F

LEMMA NearImagesAre ==
  ASSUME NEW rows, Rows(rows), NEW S \in SUBSET NearImages(rows)
  PROVE  Images(S)
<1>1. IsFiniteSet(S)
  BY FS_Subset DEF NearImages, Rows
<1>2. \A r \in S : r.phash \in SUBSET Bit
  BY DEF NearImages, Rows, CatalogRow
<1> QED
  BY <1>1, <1>2 DEF Images

DedupFields ==
  found = [step |-> found.step, params |-> found.params, later |-> found.later,
           registry |-> found.registry, todo |-> found.todo, algos |-> found.algos,
           rows |-> found.rows, parent |-> found.parent, pairs |-> found.pairs,
           skipped |-> found.skipped, groups |-> found.groups, total |-> found.total,
           unhashed |-> found.unhashed]

\* Every catalog that may be read is one, and the parameters are in their ranges.
Asked ==
  LET p == found.params IN
  /\ IsCatalog(cat) /\ \A c \in found.later : IsCatalog(c)
  /\ {p.threshold, p.limit, p.cap} \subseteq Nat /\ p.sort \in {"wasted", "count", "newest"}
  /\ found.step \in {"list", "algos", "fetch", "unite", "count", "found", "refused"}
  /\ found.step \notin {"list", "refused"} => p.threshold <= MaxThreshold

\* The rows were read at once, and the forest is over near images among them.
Fetching ==
  LET p == found.params IN
  found.step \in {"unite", "count", "found"} =>
    /\ Rows(found.rows) /\ DOMAIN found.parent \subseteq NearImages(found.rows)
    /\ found.skipped = Skipped(DOMAIN found.parent, p.cap)
    /\ JoinedSoFar(found.parent, found.pairs, p.threshold, p.cap)

Assembled ==
  LET p == found.params IN
  found.step \in {"count", "found"} =>
    /\ found.pairs = {}
    /\ found.groups = Listed(GroupsFound(found.rows, Components(found.parent), p), p)

\* What a dedup command knows at each step.
DedupInv == DedupFields /\ Asked /\ Fetching /\ Assembled

LEMMA DedupInitInv == DedupInit => DedupInv
<1> SUFFICES ASSUME DedupInit PROVE DedupInv
  OBVIOUS
<1>1. PICK i \in DOMAIN Finds : \E p \in Finds[i].params, c \in Finds[i].catalogs :
        /\ cat = c
        /\ found = [step |-> "list", params |-> p, later |-> Finds[i].later, registry |-> {},
                    todo |-> {}, algos |-> {}, rows |-> {}, parent |-> <<>>, pairs |-> {},
                    skipped |-> 0, groups |-> <<>>, total |-> 0, unhashed |-> 0]
  BY DEF DedupInit
<1>2. PICK p \in Finds[i].params, c \in Finds[i].catalogs :
        /\ cat = c
        /\ found = [step |-> "list", params |-> p, later |-> Finds[i].later, registry |-> {},
                    todo |-> {}, algos |-> {}, rows |-> {}, parent |-> <<>>, pairs |-> {},
                    skipped |-> 0, groups |-> <<>>, total |-> 0, unhashed |-> 0]
  BY <1>1
<1>3. found.step = "list" /\ found.params = p /\ found.later = Finds[i].later
  BY <1>2
<1>4. DedupFields
  BY <1>2 DEF DedupFields
<1>5. Asked
  BY <1>2, <1>3, DedupAssumption DEF Asked
<1> QED
  BY <1>3, <1>4, <1>5 DEF DedupInv, Fetching, Assembled

\* Before the rows are fetched nothing is known but what was asked.
LEMMA EarlyStep ==
  ASSUME DedupInv, UNCHANGED cat, DedupFields', found'.params = found.params, found'.later = found.later,
         found'.step \in {"algos", "fetch", "refused"},
         found'.step # "refused" => found.params.threshold <= MaxThreshold
  PROVE  DedupInv'
<1>1. Asked'
  BY DEF DedupInv, Asked
<1> QED
  BY <1>1 DEF DedupInv, Fetching, Assembled

LEMMA DedupStepInv == DedupInv /\ [DedupNext]_dedupVars => DedupInv'
<1> SUFFICES ASSUME DedupInv, [DedupNext]_dedupVars PROVE DedupInv'
  OBVIOUS
<1>0. DedupFields
  BY DEF DedupInv
<1>1. CASE ListRegistry
  <2>1. /\ UNCHANGED cat /\ found'.params = found.params /\ found'.later = found.later
        /\ found'.step \in {"algos", "fetch", "refused"} /\ DedupFields'
        /\ found'.step # "refused" => ~(found.params.threshold > MaxThreshold)
    BY <1>0, <1>1 DEF ListRegistry, AtStep, DedupFields
  <2>2. found.params.threshold \in Nat /\ MaxThreshold \in Nat
    BY DedupAssumption DEF DedupInv, Asked
  <2> QED
    BY <2>1, <2>2, EarlyStep
<1>2. CASE ReadAlgo
  <2>1. /\ UNCHANGED cat /\ found'.params = found.params /\ found'.later = found.later
        /\ found'.step = "algos" /\ found.step = "algos" /\ DedupFields'
    BY <1>0, <1>2 DEF ReadAlgo, AtStep, DedupFields
  <2> QED
    BY <2>1, EarlyStep DEF DedupInv, Asked
<1>3. CASE CompareAlgos
  <2>1. /\ UNCHANGED cat /\ found'.params = found.params /\ found'.later = found.later
        /\ found'.step \in {"fetch", "refused"} /\ found.step = "algos" /\ DedupFields'
    BY <1>0, <1>3 DEF CompareAlgos, AtStep, DedupFields
  <2> QED
    BY <2>1, EarlyStep DEF DedupInv, Asked
<1>4. CASE FetchScope
  <2> DEFINE p == found.params
             rows == Fetched(cat, {a.id : a \in found.registry}, p)
             images == IF p.near THEN NearImages(rows) ELSE {}
  <2>1. /\ UNCHANGED cat /\ found.step = "fetch" /\ found'.step = "unite" /\ DedupFields'
        /\ found'.params = p /\ found'.later = found.later /\ found'.rows = rows
        /\ found'.parent = [r \in images |-> r] /\ found'.skipped = Skipped(images, p.cap)
        /\ found'.pairs = MihPairs(images, p.threshold, p.cap)
    BY <1>0, <1>4 DEF FetchScope, AtStep, DedupFields
  <2>2. Asked'
    BY <2>1 DEF DedupInv, Asked
  <2>3. Rows(rows)
    BY FetchedRows DEF DedupInv, Asked
  <2>4. images \subseteq NearImages(rows)
    OBVIOUS
  <2> HIDE DEF images, rows, p
  <2>5. JoinedSoFar([r \in images |-> r], MihPairs(images, p.threshold, p.cap), p.threshold, p.cap)
    BY NoneJoined
  <2>6. Fetching'
    BY <2>1, <2>3, <2>4, <2>5 DEF Fetching
  <2> QED
    BY <2>1, <2>2, <2>6 DEF DedupInv, Assembled
<1>5. CASE UnitePair
  <2>1. /\ UNCHANGED cat /\ found.step = "unite"
        /\ \E e \in found.pairs : \E x, y \in e :
             x # y /\ found' = [found EXCEPT !.pairs = @ \ {e}, !.parent = Unite(@, x, y)]
    BY <1>5 DEF UnitePair, AtStep
  <2>2. PICK e \in found.pairs : \E x, y \in e :
          x # y /\ found' = [found EXCEPT !.pairs = @ \ {e}, !.parent = Unite(@, x, y)]
    BY <2>1
  <2>3. PICK x \in e, y \in e :
          x # y /\ found' = [found EXCEPT !.pairs = @ \ {e}, !.parent = Unite(@, x, y)]
    BY <2>2
  <2>4. /\ found'.step = "unite" /\ found'.params = found.params /\ found'.later = found.later
        /\ found'.rows = found.rows /\ found'.skipped = found.skipped /\ DedupFields'
        /\ found'.pairs = found.pairs \ {e} /\ found'.parent = Unite(found.parent, x, y)
    BY <1>0, <2>1, <2>3 DEF DedupFields
  <2>5. Fetching /\ Rows(found.rows) /\ Images(DOMAIN found.parent)
    BY <2>1, NearImagesAre DEF DedupInv, Fetching
  <2>6. /\ DOMAIN found'.parent = DOMAIN found.parent
        /\ JoinedSoFar(found'.parent, found'.pairs, found.params.threshold, found.params.cap)
    BY <2>1, <2>3, <2>4, <2>5, OneJoined DEF Fetching
  <2>7. Fetching'
    BY <2>1, <2>4, <2>5, <2>6 DEF Fetching
  <2>8. Asked'
    BY <2>1, <2>4 DEF DedupInv, Asked
  <2> QED
    BY <2>4, <2>7, <2>8 DEF DedupInv, Assembled
<1>6. CASE Assemble
  <2>1. /\ UNCHANGED cat /\ found.step = "unite" /\ found.pairs = {} /\ found'.step = "count"
        /\ found'.params = found.params /\ found'.later = found.later /\ found'.rows = found.rows
        /\ found'.parent = found.parent /\ found'.pairs = found.pairs /\ found'.skipped = found.skipped
        /\ found'.groups = Listed(GroupsFound(found.rows, Components(found.parent), found.params), found.params)
        /\ DedupFields'
    BY <1>0, <1>6 DEF Assemble, AtStep, DedupFields
  <2>2. Asked' /\ Fetching' /\ Assembled'
    BY <2>1 DEF DedupInv, Asked, Fetching, Assembled
  <2> QED
    BY <2>1, <2>2 DEF DedupInv
<1>7. CASE CountUnhashed
  <2>1. /\ UNCHANGED cat /\ found.step = "count" /\ found'.step = "found"
        /\ found'.params = found.params /\ found'.later = found.later /\ found'.rows = found.rows
        /\ found'.parent = found.parent /\ found'.pairs = found.pairs /\ found'.skipped = found.skipped
        /\ found'.groups = found.groups /\ DedupFields'
    BY <1>0, <1>7 DEF CountUnhashed, AtStep, DedupFields
  <2>2. Asked' /\ Fetching' /\ Assembled'
    BY <2>1 DEF DedupInv, Asked, Fetching, Assembled
  <2> QED
    BY <2>1, <2>2 DEF DedupInv
<1>8. CASE CatalogCommitted
  <2>1. /\ cat' \in found.later /\ found'.later = {} /\ found'.step = found.step
        /\ found'.params = found.params /\ found'.rows = found.rows
        /\ found'.parent = found.parent /\ found'.pairs = found.pairs /\ found'.skipped = found.skipped
        /\ found'.groups = found.groups /\ DedupFields'
    BY <1>0, <1>8 DEF CatalogCommitted, DedupFields
  <2>2. Asked' /\ Fetching' /\ Assembled'
    BY <2>1 DEF DedupInv, Asked, Fetching, Assembled
  <2> QED
    BY <2>1, <2>2 DEF DedupInv
<1>9. CASE UNCHANGED dedupVars
  BY <1>9 DEF dedupVars, DedupInv, DedupFields, Asked, Fetching, Assembled
<1> QED
  BY <1>1, <1>2, <1>3, <1>4, <1>5, <1>6, <1>7, <1>8, <1>9 DEF DedupNext, DedupCommand

\* A dedup command only ever knows what DedupInv says.
THEOREM DedupInvariant == DedupSpec => []DedupInv
<1>1. DedupInit => DedupInv
  BY DedupInitInv
<1>2. DedupInv /\ [DedupNext]_dedupVars => DedupInv'
  BY DedupStepInv
<1> QED
  BY <1>1, <1>2, PTL DEF DedupSpec

\* A report is a list of the groups that were found.
LEMMA ReportIs ==
  ASSUME DedupInv, found.step = "found"
  PROVE  LET groups == GroupsFound(found.rows, Components(found.parent), found.params) IN
         /\ Rows(found.rows) /\ NearSets(found.rows, Components(found.parent))
         /\ Reported \subseteq groups
         /\ Len(found.groups) # found.params.limit => Reported = groups
<1> DEFINE near == Components(found.parent)
           groups == GroupsFound(found.rows, near, found.params)
<1>1. /\ Rows(found.rows) /\ DOMAIN found.parent \subseteq NearImages(found.rows)
      /\ found.groups = Listed(groups, found.params)
  BY DEF DedupInv, Fetching, Assembled
<1>2. found.params.limit \in Nat /\ found.params.sort \in {"wasted", "count", "newest"}
  BY DEF DedupInv, Asked
<1>3. NearSets(found.rows, near)
  BY <1>1, ComponentsDisjoint DEF NearSets
<1> HIDE DEF near
<1>4. /\ \A i \in DOMAIN found.groups : found.groups[i] \in groups
      /\ Len(found.groups) # found.params.limit =>
           \A G \in groups : \E i \in DOMAIN found.groups : found.groups[i] = G
  BY <1>1, <1>2, <1>3, ListedAre
<1>5. Reported = {found.groups[i] : i \in DOMAIN found.groups}
  BY DEF Reported
<1> QED
  BY <1>1, <1>3, <1>4, <1>5 DEF near

\* Removing all that a report calls actionable removes no keeper, and every file
\* removed has the content of its keeper or a measured distance from it.
LEMMA NothingLostHere == DedupInv => NothingLost
<1> SUFFICES ASSUME DedupInv PROVE NothingLost
  OBVIOUS
<1> DEFINE groups == GroupsFound(found.rows, Components(found.parent), found.params)
           removed == UNION {g.actionable : g \in Reported}
           t == found.params.threshold
<1>1. CASE found.step # "found"
  BY <1>1 DEF NothingLost, Reported
<1>2. CASE found.step = "found"
  <2>1. /\ Rows(found.rows) /\ NearSets(found.rows, Components(found.parent))
        /\ Reported \subseteq groups
    BY <1>2, ReportIs
  <2>2. \A G \in Reported :
          /\ G.keep \in G.members /\ Real(G.keep) /\ G.kind \in {"near", "exact"}
          /\ G.actionable = {r \in G.members : Actionable(G.kind, G.keep, r, t)}
          /\ G.kind = "exact" => \A q, r \in G.members : q.hash = r.hash
    BY <2>1, GroupsAre
  <2>3. \A G, H \in Reported : G.members \intersect H.members # {} => G = H
    BY <2>1, GroupsAre
  <2> HIDE DEF groups
  <2>4. SUFFICES ASSUME NEW r \in removed
                 PROVE  \E g \in Reported :
                          /\ r \in g.members /\ g.keep \notin removed /\ Real(g.keep)
                          /\ \/ g.keep.hash = r.hash
                             \/ Hamming(g.keep.phash, r.phash) <= t
    BY DEF NothingLost
  <2>5. PICK g \in Reported : r \in g.actionable
    BY <2>4
  <2>6. r \in g.members /\ Actionable(g.kind, g.keep, r, t)
    BY <2>2, <2>5
  <2>7. g.keep \notin removed
    <3>1. SUFFICES ASSUME NEW h \in Reported, g.keep \in h.actionable PROVE FALSE
      OBVIOUS
    <3>2. g.keep \in h.members /\ g.keep # h.keep
      BY <2>2, <3>1 DEF Actionable
    <3>3. g = h
      BY <2>2, <2>3, <3>2
    <3> QED
      BY <3>2, <3>3
  <2>8. g.keep.hash = r.hash \/ Hamming(g.keep.phash, r.phash) <= t
    BY <2>2, <2>6 DEF Actionable, Distance
  <2> QED
    BY <2>2, <2>6, <2>7, <2>8
<1> QED
  BY <1>1, <1>2

\* What dedup calls actionable can all be removed at once, for every catalog,
\* whatever other sessions commit between its statements (NothingLost).
THEOREM RemovalIsSafe == DedupSpec => []NothingLost
BY DedupInvariant, NothingLostHere, PTL

LEMMA NearGroupsRightHere == DedupInv => NearGroupsRight
<1> SUFFICES ASSUME DedupInv, found.step = "count", found.skipped = 0
             PROVE  Components(found.parent) =
                      {g \in {Within(DOMAIN found.parent, found.params.threshold, x)
                                : x \in DOMAIN found.parent} : Cardinality(g) >= 2}
  BY DEF NearGroupsRight
<1>1. /\ Rows(found.rows) /\ DOMAIN found.parent \subseteq NearImages(found.rows)
      /\ Skipped(DOMAIN found.parent, found.params.cap) = 0
      /\ JoinedSoFar(found.parent, {}, found.params.threshold, found.params.cap)
  BY DEF DedupInv, Fetching, Assembled
<1>2. Images(DOMAIN found.parent)
  BY <1>1, NearImagesAre
<1>3. /\ found.params.threshold \in Nat /\ found.params.cap \in Nat
      /\ found.params.threshold <= MaxThreshold
  BY DEF DedupInv, Asked
<1> QED
  BY <1>1, <1>2, <1>3, AllJoined

\* Comparing only the images of one bucket finds every pair within the threshold,
\* and joining the pairs in any order gives the chains of close images, for hashes
\* of any width with more bands than the threshold (NearGroupsRight).
THEOREM BandsFindAll == DedupSpec => []NearGroupsRight
BY DedupInvariant, NearGroupsRightHere, PTL

LEMMA ExactToldHere == DedupInv => ExactTold
<1> DEFINE p == found.params
           near == Components(found.parent)
           rest == NotNear(found.rows, near)
           groups == GroupsFound(found.rows, near, p)
<1> SUFFICES ASSUME DedupInv, found.step = "found", p.exact, ~p.across, Len(found.groups) # p.limit,
                    NEW q \in found.rows, NEW r \in found.rows, q # r, Real(q), Real(r),
                    q.hash = r.hash
             PROVE  \/ \E g \in Reported : {q, r} \subseteq g.members
                    \/ \E g \in Reported : g.kind = "near" /\ {q, r} \intersect g.members # {}
  BY DEF ExactTold
<1>1. Rows(found.rows) /\ Reported = groups
  BY ReportIs
<1>2. CASE q \in UNION near \/ r \in UNION near
  <2>1. PICK g \in near : {q, r} \intersect g # {}
    BY <1>2
  <2>2. GroupOf("near", g, p.threshold) \in groups
    BY DEF GroupsFound
  <2>3. GroupOf("near", g, p.threshold).kind = "near" /\ GroupOf("near", g, p.threshold).members = g
    BY GroupFields
  <2> QED
    BY <1>1, <2>1, <2>2, <2>3
<1>3. CASE q \in rest /\ r \in rest
  <2> DEFINE g == {x \in rest : x.hash = q.hash}
             real == {x \in g : Real(x)}
  <2>1. g \in SUBSET found.rows /\ {q, r} \in SUBSET real
    BY <1>3 DEF NotNear
  <2>2. IsFiniteSet(real)
    BY <1>1, <2>1, FS_Subset DEF Rows
  <2>3. Cardinality(real) \in Nat /\ 2 <= Cardinality(real)
    <3> HIDE DEF g, real
    <3>1. Cardinality({q, r}) = 2
      BY TwoElements
    <3>2. Cardinality({q, r}) <= Cardinality(real)
      BY <2>1, <2>2, FS_Subset
    <3> QED
      BY <2>2, <3>1, <3>2, FS_CardinalityType
  <2>4. g \in ExactGroups(rest)
    <3>1. Duplicates(g)
      BY <2>3 DEF Duplicates
    <3> QED
      BY <1>3, <3>1 DEF ExactGroups
  <2>5. GroupOf("exact", g, p.threshold) \in groups
    BY <2>4 DEF GroupsFound
  <2>6. GroupOf("exact", g, p.threshold).members = g
    BY GroupFields
  <2>7. {q, r} \subseteq g
    BY <2>1
  <2> QED
    BY <1>1, <2>5, <2>6, <2>7
<1> QED
  BY <1>2, <1>3 DEF NotNear

\* Two real rows with one content are reported together, unless the report is cut
\* short or confined or one of them is in a near group (ExactTold).
THEOREM DuplicatesAreTold == DedupSpec => []ExactTold
BY DedupInvariant, ExactToldHere, PTL

=============================================================================
