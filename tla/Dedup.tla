------------------------------- MODULE Dedup -------------------------------
(***************************************************************************)
(* `dedup` (src/core/dedup.rs): duplicates across the archives of a        *)
(* catalog.  The registry, the pHash algorithms, the rows and a last count *)
(* are read by statements of their own, between which another session may  *)
(* commit.  Images are compared by the Hamming distance of their pHashes,  *)
(* over pairs that agree on one of the bands.                              *)
(***************************************************************************)
EXTENDS Basics, FiniteSetsExt

CONSTANTS
  Bit,          \* bits of a pHash
  Bands,        \* sequence of sets of bits
  MaxThreshold, \* the highest distance a command may ask for
  Contents,     \* contents of files; a content stands for its BLAKE3 hash
  Finds         \* sequence of the catalogs dedup is run on, and of the commands

NoTime == -1  \* stands for i64::MIN too, where nothing is known

CatalogRow ==
  [archive : Nat, id : Nat, entry : {"file", "hardlink", "symlink"},
   kind : {"image", "text", "empty"}, size : Nat, hash : Contents \union {NoValue},
   phash : (SUBSET Bit) \union {NoValue}, pixels : Nat, exif : Nat \union {NoTime},
   mtime : Nat \union {NoTime}, indexed : Nat \union {NoTime}, clean : BOOLEAN, length : Nat,
   wanted : BOOLEAN, shadowed : BOOLEAN, sparse : BOOLEAN]

Key(r) == <<r.archive, r.id>>

\* archive_id is the key of a registration, with the id of the file that of a row.
IsCatalog(c) ==
  /\ IsFiniteSet(c.archives) /\ IsFiniteSet(c.rows) /\ c.rows \subseteq CatalogRow
  /\ \A a \in c.archives : a.id \in Nat /\ a.indexed \in Nat \union {NoTime}
  /\ \A a, b \in c.archives : a.id = b.id => a = b
  /\ \A q, r \in c.rows : Key(q) = Key(r) => q = r

\* More bands than the highest threshold, so that two hashes within it agree on one.
ASSUME DedupAssumption ==
  /\ IsFiniteSet(Bit) /\ Bands \in Seq(SUBSET Bit)
  /\ \A b, c \in DOMAIN Bands : b # c => Bands[b] \intersect Bands[c] = {}
  /\ MaxThreshold \in Nat /\ MaxThreshold < Len(Bands)
  /\ \A i \in DOMAIN Finds :
       /\ \A c \in Finds[i].catalogs \union Finds[i].later : IsCatalog(c)
       /\ \A p \in Finds[i].params : /\ {p.threshold, p.limit, p.cap} \subseteq Nat
                                     /\ p.sort \in {"wasted", "count", "newest"}

VARIABLES
  cat,   \* the catalog: registrations and rows
  found  \* the command and its report

dedupVars == <<cat, found>>

-----------------------------------------------------------------------------
\* exif date, else mtime, else the date the archive was indexed.
BestTs(r) == IF r.exif # NoTime THEN r.exif ELSE IF r.mtime # NoTime THEN r.mtime ELSE r.indexed

IsHardlink(r) == r.entry = "hardlink"
Real(r) == ~r.shadowed /\ ~IsHardlink(r)

\* Each wanted name must name one registration, by id, label or source path.
Registered(archives, w) == {a \in archives : w \in a.names}
ScopeResolves(archives, wanted) == \A w \in wanted : Cardinality(Registered(archives, w)) = 1
Scope(archives, wanted) ==
  {a.id : a \in IF wanted = {} THEN archives ELSE UNION {Registered(archives, w) : w \in wanted}}

\* The rows with a hash that the command asks for (fetch_scope); `wanted`
\* stands for the glob and the extensions.
Selected(r, p) ==
  /\ r.hash # NoValue /\ r.entry # "symlink" /\ ~r.sparse
  /\ r.kind # "empty" \/ p.includeEmpty
  /\ r.size >= p.minSize
  /\ p.kind \in {NoValue, r.kind} /\ r.wanted

Fetched(c, scope, p) ==
  UNION {{[r EXCEPT !.indexed = a.indexed] :
            r \in {r \in c.rows : r.archive = a.id /\ Selected(r, p)}}
         : a \in {a \in c.archives : a.id \in scope}}

-----------------------------------------------------------------------------
(***************************************************************************)
(* Near groups: pairs found through the bands, joined by union-find.       *)
(***************************************************************************)
Hamming(h, g) == Cardinality((h \ g) \union (g \ h))

Trivial(h) == Cardinality(h) <= 1 \/ Cardinality(h) >= Cardinality(Bit) - 1

NearImages(rows) ==
  {r \in rows : r.kind = "image" /\ r.phash # NoValue /\ Real(r) /\ ~Trivial(r.phash)}

Bucket(images, b, r) ==
  {q \in images : q.phash \intersect Bands[b] = r.phash \intersect Bands[b]}

\* A bucket over the cap is skipped, and counted.
Buckets(images, b) == {x \in {Bucket(images, b, r) : r \in images} : Cardinality(x) >= 2}
Skipped(images, cap) ==
  Cardinality(UNION {{b} \X {x \in Buckets(images, b) : Cardinality(x) > cap} : b \in DOMAIN Bands})

\* Faulty variant: the last band is left out.
MihPairsOf3(images, threshold, cap) ==
  UNION {UNION {{e \in kSubset(2, x) : \A q, r \in e : Hamming(q.phash, r.phash) <= threshold}
                : x \in {x \in Buckets(images, b) : Cardinality(x) <= cap}}
         : b \in DOMAIN Bands \ {1}}
MihPairs(images, threshold, cap) ==
  UNION {UNION {{e \in kSubset(2, x) : \A q, r \in e : Hamming(q.phash, r.phash) <= threshold}
                : x \in {x \in Buckets(images, b) : Cardinality(x) <= cap}}
         : b \in DOMAIN Bands}

\* Where the parents lead to from x.  Path halving shortens the way to a root
\* and leaves the root the same.
Upwards(parent, S) == \A y \in S : parent[y] \in S
Root(parent, x) ==
  CHOOSE r \in DOMAIN parent :
    /\ parent[r] = r
    /\ \A S \in SUBSET DOMAIN parent : x \in S /\ Upwards(parent, S) => r \in S

Unite(parent, x, y) == [parent EXCEPT ![Root(parent, x)] = Root(parent, y)]

Components(parent) ==
  {c \in {{y \in DOMAIN parent : Root(parent, y) = Root(parent, x)} : x \in DOMAIN parent}
     : Cardinality(c) >= 2}

-----------------------------------------------------------------------------
(***************************************************************************)
(* Exact groups, the keeper of a group and what may be acted upon.         *)
(***************************************************************************)
\* Two real files, or one and rows that it shadows: a hard link shares storage.
Duplicates(g) ==
  LET real == {r \in g : Real(r)}
  IN Cardinality(real) >= 2 \/ (real # {} /\ \E r \in g : r.shadowed)

ExactGroups(rows) ==
  {g \in {{q \in rows : q.hash = r.hash} : r \in rows} : Duplicates(g)}

Rank(kind, r) ==
  IF kind = "near" THEN <<r.pixels, r.size, BestTs(r), -r.archive, -r.id>>
  ELSE <<BestTs(r), IF r.clean THEN 1 ELSE 0, -r.length, -r.archive, -r.id>>

Keep(kind, g) ==
  LET eligible == {r \in g : Real(r)}
  IN CHOOSE k \in eligible : \A r \in eligible : ~Less(Rank(kind, k), Rank(kind, r))

Distance(kind, k, r) == IF kind = "exact" THEN 0 ELSE Hamming(k.phash, r.phash)

\* Faulty variant: whatever is in the group may go, however far from the keeper.
ActionableByChain(kind, k, r, threshold) == r # k /\ Real(r)
\* A near duplicate counts only when its distance to the keeper was measured.
Actionable(kind, k, r, threshold) ==
  r # k /\ Real(r) /\ (kind = "exact" \/ Distance(kind, k, r) <= threshold)

\* The bytes of all the rows.
TotalSize(rows) == Cardinality(UNION {{r} \X (1 .. r.size) : r \in rows})

GroupOf(kind, g, threshold) ==
  LET k == Keep(kind, g)
      acted == {r \in g : Actionable(kind, k, r, threshold)} IN
  [kind |-> kind, keep |-> k, members |-> g, actionable |-> acted,
   distance |-> Max({Distance(kind, k, r) : r \in g}),
   reclaimable |-> TotalSize(acted),
   review |-> {r \in g \ {k} : Real(r)} \ acted,
   shadowed |-> {r \in g \ {k} : r.shadowed}]

\* Faulty variant: every row with the content of a near one is left out.
NotNearContent(rows, near) == {r \in rows : \A q \in UNION near : q.hash # r.hash}
\* Rows of a near group are left out of the exact groups.
NotNear(rows, near) == rows \ UNION near

GroupsFound(rows, near, p) ==
  {GroupOf("near", g, p.threshold) : g \in {g \in near : ~p.across \/ Cardinality({r.archive : r \in g}) >= 2}}
  \union
  {GroupOf("exact", g, p.threshold) :
     g \in {g \in IF p.exact THEN ExactGroups(NotNear(rows, near)) ELSE {} :
              ~p.across \/ Cardinality({r.archive : r \in g}) >= 2}}

\* The order of the groups; equal ones in the order of their first rows.
GroupKey(sort, g) ==
  LET first == SortedBy(g.members, Key)[1] IN
  <<CASE sort = "wasted" -> -g.reclaimable
      [] sort = "count" -> -Cardinality(g.members)
      [] sort = "newest" -> -BestTs(g.keep),
    first.archive, first.id>>

Listed(groups, p) ==
  LET sorted == SortedBy(groups, LAMBDA g : GroupKey(p.sort, g))
  IN SubSeq(sorted, 1, IF p.limit < Len(sorted) THEN p.limit ELSE Len(sorted))

-----------------------------------------------------------------------------
(***************************************************************************)
(* The statements of the command.                                          *)
(***************************************************************************)
AtStep(s) == found.step = s /\ UNCHANGED cat

ListRegistry ==
  /\ AtStep("list")
  /\ LET p == found.params IN
     found' = IF p.threshold > MaxThreshold \/ ~ScopeResolves(cat.archives, p.archives)
              THEN [found EXCEPT !.step = "refused"]
              ELSE [found EXCEPT
                      !.registry = {a \in cat.archives : a.id \in Scope(cat.archives, p.archives)},
                      !.todo = Scope(cat.archives, p.archives),
                      !.step = IF p.near THEN "algos" ELSE "fetch"]

\* Archive after archive; one that is gone by now, or recorded none, is passed.
ReadAlgo ==
  /\ AtStep("algos") /\ found.todo # {}
  /\ LET id == Min(found.todo) IN
     found' = [found EXCEPT !.todo = @ \ {id},
                 !.algos = @ \union ({a.algo : a \in {a \in cat.archives : a.id = id}} \ {NoValue})]

CompareAlgos ==
  /\ AtStep("algos") /\ found.todo = {}
  /\ found' = [found EXCEPT !.step = IF Cardinality(found.algos) > 1 THEN "refused" ELSE "fetch"]

FetchScope ==
  /\ AtStep("fetch")
  /\ LET p == found.params
         rows == Fetched(cat, {a.id : a \in found.registry}, p)
         images == IF p.near THEN NearImages(rows) ELSE {} IN
     found' = [found EXCEPT !.step = "unite", !.rows = rows,
                 !.parent = [r \in images |-> r],
                 !.pairs = MihPairs(images, p.threshold, p.cap),
                 !.skipped = Skipped(images, p.cap)]

\* The pairs come in the order of a hash map.
UnitePair ==
  /\ AtStep("unite")
  /\ \E e \in found.pairs : \E x, y \in e :
       /\ x # y
       /\ found' = [found EXCEPT !.pairs = @ \ {e}, !.parent = Unite(@, x, y)]

Assemble ==
  /\ AtStep("unite") /\ found.pairs = {}
  /\ LET groups == GroupsFound(found.rows, Components(found.parent), found.params) IN
     found' = [found EXCEPT !.step = "count", !.groups = Listed(groups, found.params),
                 !.total = TotalSize(UNION {g.actionable : g \in groups})]

CountUnhashed ==
  /\ AtStep("count")
  /\ found' = [found EXCEPT !.step = "found",
       !.unhashed = Cardinality({r \in cat.rows : /\ r.kind = "image" /\ r.phash = NoValue
                                                  /\ \E a \in found.registry : a.id = r.archive})]

DedupCommand ==
  ListRegistry \/ ReadAlgo \/ CompareAlgos \/ FetchScope \/ UnitePair \/ Assemble \/ CountUnhashed

\* Another session registers, syncs or prunes an archive.
CatalogCommitted ==
  /\ found.step \notin {"none", "found", "refused"}
  /\ \E c \in found.later : cat' = c /\ found' = [found EXCEPT !.later = {}]

DedupIdle == cat = {} /\ found = [step |-> "none"]

DedupInit ==
  \E i \in DOMAIN Finds : \E p \in Finds[i].params, c \in Finds[i].catalogs :
    /\ cat = c
    /\ found = [step |-> "list", params |-> p, later |-> Finds[i].later, registry |-> {},
                todo |-> {}, algos |-> {}, rows |-> {}, parent |-> <<>>, pairs |-> {},
                skipped |-> 0, groups |-> <<>>, total |-> 0, unhashed |-> 0]

DedupNext == DedupCommand \/ CatalogCommitted

DedupSpec == DedupInit /\ [][DedupNext]_dedupVars

-----------------------------------------------------------------------------
(***************************************************************************)
(* Properties.                                                             *)
(***************************************************************************)
Reported == IF found.step = "found" THEN {found.groups[i] : i \in DOMAIN found.groups} ELSE {}

\* Whoever removes all that the report calls actionable keeps, of every file
\* removed, the keeper of its group: a real file with the same content, or an
\* image whose measured distance is within the threshold.
NothingLost ==
  LET removed == UNION {g.actionable : g \in Reported} IN
  \A r \in removed : \E g \in Reported :
    /\ r \in g.members /\ g.keep \notin removed /\ Real(g.keep)
    /\ \/ g.keep.hash = r.hash
       \/ Hamming(g.keep.phash, r.phash) <= found.params.threshold

\* What chains of close images connect with x: all sets that hold x and whatever
\* is close to what they hold have it in common.
Closed(images, threshold, S) ==
  \A q \in S, r \in images : Hamming(q.phash, r.phash) <= threshold => r \in S
Within(images, threshold, x) ==
  {q \in images : \A S \in SUBSET images : x \in S /\ Closed(images, threshold, S) => q \in S}

\* When no bucket was skipped the near groups are the images that chains of
\* close images connect, as comparing each with each would find them, in
\* whatever order the pairs were joined.
NearGroupsRight ==
  found.step = "count" /\ found.skipped = 0 =>
    LET images == DOMAIN found.parent IN
    Components(found.parent) =
      {g \in {Within(images, found.params.threshold, x) : x \in images} : Cardinality(g) >= 2}

\* Two real rows with the same content are in one group, unless the report is
\* cut short or confined, or one of them is in a near group.
ExactTold ==
  LET p == IF found.step = "found" THEN found.params ELSE [exact |-> FALSE] IN
  p.exact =>
    \A q, r \in found.rows :
      (q # r /\ Real(q) /\ Real(r) /\ q.hash = r.hash) =>
        \/ Len(found.groups) = p.limit \/ p.across
        \/ \E g \in Reported : {q, r} \subseteq g.members
        \/ \E g \in Reported : g.kind = "near" /\ {q, r} \intersect g.members # {}

=============================================================================
