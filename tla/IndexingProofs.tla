--------------------------- MODULE IndexingProofs ---------------------------
(***************************************************************************)
(* PointInTime holds of every directory, prior index and sequence of       *)
(* changes.  The tree that a promoted index describes is the one the walk  *)
(* listed; a change of a node after that moment is told by a stamp above   *)
(* the clock of the moment, and never unmade.                              *)
(*                                                                         *)
(* TarTrue holds of every archive and of every way to index it.  Rows are  *)
(* gathered in the order of the entries; five passes give hard links what  *)
(* extraction leaves under their targets, as far as chains of five; and    *)
(* the last row of a name is the one that extraction leaves.               *)
(***************************************************************************)
EXTENDS DirectoryIndex, TarIndex, FiniteSetTheorems, TLAPS

Nodes == [Path -> Node \union {NoValue}]
Stampings == UNION {[names -> Nat] : names \in SUBSET Path}
RunFields ==
  {"step", "mode", "prior", "readErrors", "cancels", "changes", "todo", "stamps", "dirStamp",
   "before", "dirBefore", "total", "md", "handle", "half", "read", "rows", "degraded", "moments"}

InEntry == {"link", "check", "open", "first", "rest", "recheck"}
Walking == {"entry"} \union InEntry
Ended == {"failed", "cancelled"}

IsTree ==
  /\ tree = [node |-> tree.node, stamp |-> tree.stamp, clock |-> tree.clock, left |-> tree.left]
  /\ tree.node \in Nodes
  /\ tree.stamp \in Nat /\ tree.clock \in Nat /\ tree.stamp <= tree.clock
  /\ \A p \in Path : There(p) => tree.node[p].stamp \in 1 .. tree.clock

IsRun ==
  /\ dirRun = [f \in RunFields |-> dirRun[f]]
  /\ dirRun.changes \subseteq Node \union {NoValue}
  /\ dirRun.prior # NoValue => Sound(dirRun.prior)
  /\ dirRun.step # "prior" /\ dirRun.prior # NoValue => dirRun.prior.sameRules
  /\ dirRun.todo \subseteq Path
  /\ dirRun.stamps \in Stampings
  /\ \A p \in DOMAIN dirRun.stamps : dirRun.stamps[p] <= tree.clock
  /\ dirRun.dirStamp \in Nat /\ dirRun.dirStamp <= tree.stamp
  /\ dirRun.dirBefore \in Nat /\ dirRun.dirBefore <= tree.stamp
  /\ tree.node \in dirRun.moments
  /\ dirRun.step # "prior" \/ dirRun.before = NoValue

\* While the directory keeps a stamp, its names are those that it had, and an
\* entry that could not be stamped is not a link that can be.
Kept(stamp, names, stamps) ==
  tree.stamp = stamp =>
    /\ Listing = names
    /\ \A p \in DOMAIN stamps :
         stamps[p] = CannotStat /\ There(p) /\ tree.node[p].type = "link" =>
           ~tree.node[p].stats

FirstSnapshot ==
  dirRun.before = NoValue =>
    /\ dirRun.step \in {"prior", "list", "stamp"} \union Ended
    /\ dirRun.rows = <<>> /\ dirRun.degraded = {}
    /\ dirRun.step = "stamp" =>
         Kept(dirRun.dirStamp, dirRun.todo \union DOMAIN dirRun.stamps, dirRun.stamps)

SecondSnapshot ==
  dirRun.before # NoValue =>
    /\ dirRun.before \in Stampings
    /\ \A p \in DOMAIN dirRun.before : dirRun.before[p] <= tree.clock
    /\ Kept(dirRun.dirBefore, DOMAIN dirRun.before, dirRun.before)
    /\ dirRun.step \in {"count", "walk"} => dirRun.rows = <<>> /\ dirRun.degraded = {}

-----------------------------------------------------------------------------
(***************************************************************************)
(* What the walk knows of m, the tree when it listed the directory, at     *)
(* clock c.                                                                *)
(***************************************************************************)
NamesIn(m) == {p \in Path : m[p] # NoValue}
Changed(p, c) == There(p) => tree.node[p].stamp > c
Aware(p) ==
  p \in DOMAIN dirRun.before /\ dirRun.before[p] = CannotStat => tree.stamp # dirRun.dirBefore

Moment(m, c) ==
  /\ m \in dirRun.moments /\ m \in Nodes
  /\ c \in Nat /\ c <= tree.clock
  /\ \A p \in DOMAIN dirRun.before : dirRun.before[p] <= c
  /\ \A p \in NamesIn(m) : m[p].stamp \in 1 .. c
  /\ \A p \in Path : tree.node[p] = m[p] \/ Changed(p, c)
  /\ tree.stamp = dirRun.dirBefore => DOMAIN dirRun.before = NamesIn(m)

RowsAt(m, c) ==
  /\ DOMAIN dirRun.rows \union (IF dirRun.step \in Walking THEN dirRun.todo ELSE {}) = NamesIn(m)
  /\ dirRun.step \in Walking => DOMAIN dirRun.rows \intersect dirRun.todo = {}
  /\ dirRun.degraded \subseteq DOMAIN dirRun.rows
  /\ \A p \in dirRun.degraded : dirRun.rows[p].outcome = ReadFailed
  /\ \A p \in DOMAIN dirRun.rows :
       /\ Describes(p, dirRun.rows[p], m[p]) \/ Changed(p, c)
       /\ p \in dirRun.degraded \/ Aware(p)

EntryTrue(m, c) ==
  LET p == Next1
      n == m[p]
      step == dirRun.step IN
  step \in InEntry =>
    /\ dirRun.todo # {}
    /\ dirRun.md \in Node
    /\ dirRun.md = n \/ Changed(p, c)
    /\ Aware(p)
    /\ step = "link" => dirRun.md.type = "link"
    /\ step # "link" => dirRun.md.type = "file" /\ dirRun.mode # "metadata-only"
    /\ step \in {"first", "rest", "recheck"} => dirRun.handle \in Node /\ dirRun.handle.stamp > 0
    /\ step \in {"rest", "recheck"} => n # NoValue /\ dirRun.handle.ino = n.ino
    /\ step = "rest" => dirRun.half = n.bytes
    /\ step = "recheck" =>
         dirRun.read = ReadFailed \/ dirRun.read = Fresh(p, n.bytes) \/ Changed(p, c)

\* A stamp of the second snapshot at or below c vouches for the row, and the
\* stamp of the directory for the names.
Vouched(m, c) ==
  LET second == dirRun.before # NoValue /\ dirRun.step \in {"stamp", "compare"} IN
  /\ second =>
       \A p \in DOMAIN dirRun.stamps :
         \/ dirRun.stamps[p] = CannotStat \/ dirRun.stamps[p] > c
         \/ p \in DOMAIN dirRun.rows /\ Describes(p, dirRun.rows[p], m[p])
  /\ second /\ dirRun.dirStamp = dirRun.dirBefore =>
       /\ DOMAIN dirRun.before = NamesIn(m)
       /\ \A p \in DOMAIN dirRun.rows \ dirRun.degraded :
            p \in DOMAIN dirRun.before => dirRun.before[p] # CannotStat

Promoted(m) ==
  dirRun.step = "promoted" =>
    \A p \in Path :
      IF p \in DOMAIN dirRun.rows THEN Unwatched(p) \/ Describes(p, dirRun.rows[p], m[p])
      ELSE m[p] = NoValue

ToldAt(m, c) ==
  Moment(m, c) /\ RowsAt(m, c) /\ EntryTrue(m, c) /\ Vouched(m, c) /\ Promoted(m)

Walked ==
  dirRun.before # NoValue /\ dirRun.step \notin {"count", "walk"} \union Ended =>
    \E m \in Nodes, c \in Nat : ToldAt(m, c)

DirectoryInv == IsTree /\ IsRun /\ FirstSnapshot /\ SecondSnapshot /\ Walked

-----------------------------------------------------------------------------
\* A set of natural numbers that is not empty has a least element.
LEMMA MinIsIn ==
  ASSUME NEW S \in SUBSET Nat, S # {}
  PROVE  Min(S) \in S /\ \A i \in S : Min(S) <= i
<1> DEFINE below == {0 .. i : i \in S}
<1>1. below # {} /\ below \subseteq FiniteSubsetsOf(Nat)
  <2>1. \A i \in S : 0 .. i \in SUBSET Nat /\ IsFiniteSet(0 .. i)
    BY FS_Interval
  <2> QED
    BY <2>1 DEF FiniteSubsetsOf
<1> HIDE DEF below
<1>2. PICK least \in below : \A other \in below : <<other, least>> \notin StrictSubsetOrdering(Nat)
  BY <1>1, FS_StrictSubsetOrderingWellFounded, WFMin
<1> USE DEF below
<1>3. PICK i \in S : least = 0 .. i
  OBVIOUS
<1>4. ASSUME NEW j \in S PROVE i <= j
  <2>1. 0 .. j \in below /\ 0 .. j \in SUBSET Nat /\ least \in SUBSET Nat
    BY <1>3
  <2>2. ~(0 .. j \subseteq 0 .. i /\ 0 .. j # 0 .. i)
    BY <1>2, <1>3, <2>1 DEF StrictSubsetOrdering
  <2> QED
    BY <2>2
<1> QED
  BY <1>4 DEF Min

LEMMA Next1IsIn ==
  ASSUME IsRun, dirRun.todo # {}
  PROVE  Next1 \in dirRun.todo /\ Next1 \in Path
BY MinIsIn, DirectoryAssumption DEF IsRun, Next1

LEMMA StampingStays ==
  ASSUME NEW f \in Stampings, NEW p \in Path, NEW s \in Nat
  PROVE  WithStamp(f, p, s) \in Stampings
<1>1. WithStamp(f, p, s) \in [DOMAIN f \union {p} -> Nat] /\ DOMAIN f \union {p} \in SUBSET Path
  BY DEF WithStamp, Stampings
<1> QED
  BY <1>1 DEF Stampings

LEMMA StampingNatural ==
  ASSUME NEW f \in Stampings
  PROVE  /\ f \in [DOMAIN f -> Nat] /\ DOMAIN f \subseteq Path
         /\ f # NoValue
BY DirectoryAssumption DEF Stampings

LEMMA EmptyStamping == <<>> \in Stampings /\ DOMAIN <<>> = {}
<1>1. <<>> \in [{} -> Nat]
  OBVIOUS
<1> QED
  BY <1>1 DEF Stampings

-----------------------------------------------------------------------------
LEMMA DirectoryStarts == DirectoryInit => DirectoryInv
<1> SUFFICES ASSUME DirectoryInit PROVE DirectoryInv
  OBVIOUS
<1> DEFINE Starts(i, nodes, mode, prior) ==
             /\ tree = [node |-> nodes, stamp |-> 1, clock |-> Clock0, left |-> Walks[i].left]
             /\ dirRun = [step |-> "prior", mode |-> mode, prior |-> prior,
                          readErrors |-> Walks[i].readErrors, cancels |-> Walks[i].cancels,
                          changes |-> Walks[i].changes,
                          todo |-> {}, stamps |-> <<>>, dirStamp |-> 0, before |-> NoValue,
                          dirBefore |-> 0, total |-> 0, md |-> NoValue, handle |-> NoValue,
                          half |-> NoValue, read |-> NoValue, rows |-> <<>>, degraded |-> {},
                          moments |-> {nodes}]
<1>0. PICK i \in DOMAIN Walks :
        \E nodes \in Walks[i].nodes, mode \in Walks[i].modes, prior \in Walks[i].priors :
          Starts(i, nodes, mode, prior)
  BY DEF DirectoryInit
<1>1. PICK nodes \in Walks[i].nodes, mode \in Walks[i].modes, prior \in Walks[i].priors :
        Starts(i, nodes, mode, prior)
  BY <1>0
<1>2. IsTree
  BY <1>1, DirectoryAssumption DEF IsTree, Nodes, There, Clock0
<1>3. IsRun
  <2>1. dirRun = [f \in RunFields |-> dirRun[f]]
    BY <1>1 DEF RunFields
  <2>2. dirRun.changes \subseteq Node \union {NoValue} /\ (dirRun.prior # NoValue => Sound(dirRun.prior))
    BY <1>1, DirectoryAssumption
  <2>3. dirRun.stamps \in Stampings /\ DOMAIN dirRun.stamps = {} /\ dirRun.todo = {}
    BY <1>1, EmptyStamping
  <2>4. dirRun.dirStamp = 0 /\ dirRun.dirBefore = 0 /\ tree.stamp = 1 /\ tree.node \in dirRun.moments
    BY <1>1
  <2>5. dirRun.step = "prior" /\ dirRun.before = NoValue
    BY <1>1
  <2> HIDE DEF Starts
  <2> QED
    BY <2>1, <2>2, <2>3, <2>4, <2>5 DEF IsRun
<1>4. FirstSnapshot /\ SecondSnapshot /\ Walked
  BY <1>1 DEF FirstSnapshot, SecondSnapshot, Walked
<1> QED
  BY <1>2, <1>3, <1>4 DEF DirectoryInv

\* What is proved of a step of the run: which fields it changes, and that the
\* directory stays.
Only(fields) ==
  /\ dirRun' = [f \in RunFields |-> dirRun'[f]]
  /\ \A f \in RunFields \ fields : dirRun'[f] = dirRun[f]
  /\ UNCHANGED tree

LEMMA Going ==
  ASSUME DirectoryInv, NEW step, DirGoes(step), UNCHANGED tree
  PROVE  Only({"step"}) /\ dirRun'.step = step
BY DEF DirectoryInv, IsRun, DirGoes, Only, RunFields

LEMMA TreeStays ==
  ASSUME IsTree, UNCHANGED tree
  PROVE  IsTree'
BY DEF IsTree, There

\* A run that ends badly claims nothing.
LEMMA Ending ==
  ASSUME DirectoryInv, NEW step \in Ended, DirGoes(step), UNCHANGED tree,
         dirRun.step # "prior"
  PROVE  DirectoryInv'
<1>1. Only({"step"}) /\ dirRun'.step = step
  BY Going
<1> USE DEF DirectoryInv
<1>2. IsTree'
  BY TreeStays
<1>3. IsRun'
  BY <1>1 DEF IsRun, Only, RunFields, Ended
<1>4. FirstSnapshot'
  BY <1>1 DEF FirstSnapshot, Only, RunFields, Ended
<1>5. SecondSnapshot'
  BY <1>1 DEF SecondSnapshot, Only, RunFields, Ended, Kept, Listing, There
<1>6. Walked'
  BY <1>1 DEF Walked, Ended
<1> QED
  BY <1>2, <1>3, <1>4, <1>5, <1>6

-----------------------------------------------------------------------------
(***************************************************************************)
(* Another program changes the tree.                                       *)
(***************************************************************************)
LEMMA TreeMoves ==
  ASSUME DirectoryInv, TreeChanges
  PROVE  /\ IsTree'
         /\ tree'.clock = tree.clock + 1
         /\ tree'.stamp \in {tree.stamp, tree.clock + 1}
         /\ \A p \in Path :
              \/ tree'.node[p] = tree.node[p]
              \/ tree'.node[p] # NoValue => tree'.node[p].stamp = tree.clock + 1
         /\ tree'.stamp = tree.stamp =>
              \A p \in Path :
                /\ tree'.node[p] = NoValue <=> tree.node[p] = NoValue
                /\ tree'.node[p] # NoValue =>
                     /\ tree'.node[p].type = tree.node[p].type
                     /\ tree.node[p].type = "link" => tree'.node[p].stats = tree.node[p].stats
         /\ dirRun' = [f \in RunFields |-> dirRun'[f]]
         /\ \A f \in RunFields \ {"moments"} : dirRun'[f] = dirRun[f]
         /\ dirRun'.moments = dirRun.moments \union {tree'.node}
         /\ dirRun.step \notin {"prior", "promoted"} \union Ended
<1> DEFINE clock == tree.clock + 1
           old(p) == tree.node[p]
           inPlace(p, n) == /\ n # NoValue /\ old(p) # NoValue /\ n.ino = 0 /\ n.type = old(p).type
                            /\ n.type = "link" => n.bytes = old(p).bytes /\ n.stats = old(p).stats
           new(p, n) == IF n = NoValue THEN n
                        ELSE [n EXCEPT !.stamp = clock,
                                       !.ino = IF inPlace(p, n) THEN old(p).ino ELSE clock]
<1>1. PICK p \in Path, n \in dirRun.changes :
        /\ tree' = [tree EXCEPT !.node[p] = new(p, n), !.clock = clock, !.left = @ - 1,
                                !.stamp = IF inPlace(p, n) THEN @ ELSE clock]
        /\ dirRun' = [dirRun EXCEPT !.moments = @ \union {tree'.node}]
  BY DEF TreeChanges
<1> USE DEF DirectoryInv
<1>2. /\ tree.node \in Nodes /\ tree.clock \in Nat /\ tree.stamp \in Nat /\ tree.stamp <= tree.clock
      /\ tree = [node |-> tree.node, stamp |-> tree.stamp, clock |-> tree.clock, left |-> tree.left]
      /\ n \in Node \union {NoValue}
  BY DEF IsTree, IsRun
<1>3. /\ n = NoValue => new(p, n) = NoValue
      /\ n # NoValue => new(p, n) \in Node /\ new(p, n).stamp = clock
  <2>1. CASE n = NoValue
    BY <2>1
  <2>2. CASE n # NoValue
    <3>1. inPlace(p, n) => old(p) \in Node
      BY <1>2 DEF Nodes
    <3>2. (IF inPlace(p, n) THEN old(p).ino ELSE clock) \in Nat
      BY <3>1, <1>2 DEF Node
    <3>3. PICK ino \in Nat : ino = IF inPlace(p, n) THEN old(p).ino ELSE clock
      BY <3>2
    <3> HIDE DEF inPlace
    <3>4. new(p, n) = [n EXCEPT !.stamp = clock, !.ino = ino]
      BY <2>2, <3>3
    <3>5. n \in Node /\ clock \in Nat
      BY <1>2, <2>2
    <3> HIDE DEF new, clock
    <3>6. new(p, n) \in Node /\ new(p, n).stamp = clock
      BY <3>4, <3>5 DEF Node
    <3> QED
      BY <2>2, <3>6
  <2> QED
    BY <2>1, <2>2
<1>4. inPlace(p, n) => /\ n # NoValue /\ old(p) # NoValue /\ new(p, n) # NoValue
                       /\ new(p, n).type = old(p).type
                       /\ old(p).type = "link" => new(p, n).stats = old(p).stats
  <2> SUFFICES ASSUME inPlace(p, n)
               PROVE  /\ n # NoValue /\ old(p) # NoValue /\ new(p, n) # NoValue
                      /\ new(p, n).type = old(p).type
                      /\ old(p).type = "link" => new(p, n).stats = old(p).stats
    OBVIOUS
  <2>1. n \in Node /\ n.type = old(p).type /\ (n.type = "link" => n.stats = old(p).stats)
    BY <1>2
  <2>2. n # NoValue /\ old(p) # NoValue
    OBVIOUS
  <2> HIDE DEF inPlace
  <2>3. new(p, n) \in Node
    BY <1>3, <2>2
  <2>4. new(p, n).type = n.type /\ new(p, n).stats = n.stats
    BY <2>1, <2>2 DEF Node
  <2> QED
    BY <2>1, <2>2, <2>3, <2>4, DirectoryAssumption
<1>5. /\ tree' = [node |-> tree'.node, stamp |-> tree'.stamp, clock |-> tree'.clock, left |-> tree'.left]
      /\ tree'.clock = clock
      /\ tree'.stamp = IF inPlace(p, n) THEN tree.stamp ELSE clock
      /\ tree'.node = [tree.node EXCEPT ![p] = new(p, n)]
  <2> HIDE DEF new, inPlace
  <2> QED
    BY <1>1, <1>2
<1> HIDE DEF new, inPlace
<1>6. IsTree'
  BY <1>2, <1>3, <1>5 DEF IsTree, Nodes, There
<1>7. \A q \in Path :
        \/ tree'.node[q] = tree.node[q]
        \/ tree'.node[q] # NoValue => tree'.node[q].stamp = clock
  BY <1>2, <1>3, <1>5 DEF Nodes
<1>8. tree'.stamp = tree.stamp =>
        \A q \in Path :
          /\ tree'.node[q] = NoValue <=> tree.node[q] = NoValue
          /\ tree'.node[q] # NoValue =>
               /\ tree'.node[q].type = tree.node[q].type
               /\ tree.node[q].type = "link" => tree'.node[q].stats = tree.node[q].stats
  <2>1. tree'.stamp = tree.stamp => inPlace(p, n)
    BY <1>2, <1>5
  <2> QED
    BY <1>2, <1>4, <1>5, <2>1 DEF Nodes
<1>9. /\ dirRun' = [f \in RunFields |-> dirRun'[f]]
      /\ \A f \in RunFields \ {"moments"} : dirRun'[f] = dirRun[f]
      /\ dirRun'.moments = dirRun.moments \union {tree'.node}
  BY <1>1 DEF IsRun, RunFields
<1> QED
  BY <1>5, <1>6, <1>7, <1>8, <1>9 DEF TreeChanges, Ended

LEMMA TreeChangesKeeps ==
  ASSUME DirectoryInv, TreeChanges
  PROVE  DirectoryInv'
<1>1. /\ IsTree'
      /\ tree'.clock = tree.clock + 1
      /\ tree'.stamp \in {tree.stamp, tree.clock + 1}
      /\ \A p \in Path :
           \/ tree'.node[p] = tree.node[p]
           \/ tree'.node[p] # NoValue => tree'.node[p].stamp = tree.clock + 1
      /\ tree'.stamp = tree.stamp =>
           \A p \in Path :
             /\ tree'.node[p] = NoValue <=> tree.node[p] = NoValue
             /\ tree'.node[p] # NoValue =>
                  /\ tree'.node[p].type = tree.node[p].type
                  /\ tree.node[p].type = "link" => tree'.node[p].stats = tree.node[p].stats
  BY TreeMoves
<1>2. /\ dirRun' = [f \in RunFields |-> dirRun'[f]]
      /\ \A f \in RunFields \ {"moments"} : dirRun'[f] = dirRun[f]
      /\ dirRun'.moments = dirRun.moments \union {tree'.node}
      /\ dirRun.step \notin {"prior", "promoted"} \union Ended
  BY TreeMoves
<1>3. tree.stamp \in Nat /\ tree.clock \in Nat /\ tree.stamp <= tree.clock
  BY DEF DirectoryInv, IsTree
<1>4. IsRun'
  <2>1. \A f \in Stampings : \A p \in DOMAIN f : f[p] \in Nat
    BY StampingNatural
  <2>2. /\ dirRun'.changes = dirRun.changes /\ dirRun'.prior = dirRun.prior
        /\ dirRun'.todo = dirRun.todo /\ dirRun'.stamps = dirRun.stamps
        /\ dirRun'.dirStamp = dirRun.dirStamp /\ dirRun'.dirBefore = dirRun.dirBefore
        /\ dirRun'.step = dirRun.step /\ dirRun'.before = dirRun.before
    BY <1>2 DEF RunFields
  <2>3. tree.stamp <= tree'.stamp /\ tree'.stamp \in Nat /\ tree.clock <= tree'.clock /\ tree'.clock \in Nat
    BY <1>1, <1>3
  <2>5. IsRun
    BY DEF DirectoryInv
  <2>4. \A p \in DOMAIN dirRun.stamps : dirRun.stamps[p] <= tree'.clock
    BY <1>3, <2>1, <2>3, <2>5 DEF IsRun
  <2>6. dirRun.dirStamp <= tree'.stamp /\ dirRun.dirBefore <= tree'.stamp
    BY <1>3, <2>3, <2>5 DEF IsRun
  <2> QED
    BY <1>2, <2>2, <2>4, <2>5, <2>6 DEF IsRun
<1>5. ASSUME NEW stamp \in Nat, stamp <= tree.stamp, NEW names, NEW stamps \in Stampings,
             Kept(stamp, names, stamps)
      PROVE  Kept(stamp, names, stamps)'
  <2> SUFFICES ASSUME tree'.stamp = stamp
               PROVE  /\ Listing' = names
                      /\ \A p \in DOMAIN stamps :
                           stamps[p] = CannotStat /\ There(p)' /\ tree'.node[p].type = "link" =>
                             ~tree'.node[p].stats
    BY DEF Kept
  <2>1. tree'.stamp = tree.stamp /\ tree.stamp = stamp
    BY <1>1, <1>3, <1>5
  <2>2. Listing' = Listing
    <3>1. \A p \in Path : There(p)' <=> There(p)
      BY <1>1, <2>1 DEF There
    <3> QED
      BY <3>1 DEF Listing
  <2>3. ASSUME NEW p \in DOMAIN stamps, stamps[p] = CannotStat, There(p)', tree'.node[p].type = "link"
        PROVE  ~tree'.node[p].stats
    <3>1. p \in Path
      BY StampingNatural
    <3> QED
      BY <1>1, <1>5, <2>1, <2>3, <3>1 DEF Kept, There
  <2> QED
    BY <1>5, <2>1, <2>2, <2>3 DEF Kept
<1>6. FirstSnapshot'
  <2>1. /\ dirRun'.todo = dirRun.todo /\ dirRun'.stamps = dirRun.stamps
        /\ dirRun'.dirStamp = dirRun.dirStamp /\ dirRun'.step = dirRun.step
        /\ dirRun'.before = dirRun.before /\ dirRun'.rows = dirRun.rows
        /\ dirRun'.degraded = dirRun.degraded
    BY <1>2 DEF RunFields
  <2>2. dirRun.dirStamp \in Nat /\ dirRun.dirStamp <= tree.stamp /\ dirRun.stamps \in Stampings
    BY DEF DirectoryInv, IsRun
  <2>3. Kept(dirRun.dirStamp, dirRun.todo \union DOMAIN dirRun.stamps, dirRun.stamps) =>
          Kept(dirRun.dirStamp, dirRun.todo \union DOMAIN dirRun.stamps, dirRun.stamps)'
    BY <1>5, <2>1, <2>2
  <2> QED
    BY <2>1, <2>3 DEF DirectoryInv, FirstSnapshot
<1>7. SecondSnapshot'
  <2> SUFFICES ASSUME dirRun'.before # NoValue
               PROVE  SecondSnapshot'
    BY DEF SecondSnapshot
  <2>1. /\ dirRun'.dirBefore = dirRun.dirBefore /\ dirRun'.step = dirRun.step
        /\ dirRun'.before = dirRun.before /\ dirRun'.rows = dirRun.rows
        /\ dirRun'.degraded = dirRun.degraded
    BY <1>2 DEF RunFields
  <2>2. /\ dirRun.dirBefore \in Nat /\ dirRun.dirBefore <= tree.stamp
        /\ dirRun.before \in Stampings
        /\ Kept(dirRun.dirBefore, DOMAIN dirRun.before, dirRun.before)
    BY <2>1 DEF DirectoryInv, IsRun, SecondSnapshot
  <2>3. Kept(dirRun.dirBefore, DOMAIN dirRun.before, dirRun.before)'
    BY <1>5, <2>1, <2>2
  <2>4. \A p \in DOMAIN dirRun.before : dirRun.before[p] \in Nat /\ dirRun.before[p] <= tree.clock
    BY <2>1, <2>2, StampingNatural DEF DirectoryInv, SecondSnapshot
  <2>5. \A p \in DOMAIN dirRun.before : dirRun.before[p] <= tree'.clock
    BY <1>1, <1>3, <2>4
  <2> QED
    BY <2>1, <2>2, <2>3, <2>5 DEF DirectoryInv, SecondSnapshot
<1>8. Walked'
  <2> SUFFICES ASSUME dirRun'.before # NoValue, dirRun'.step \notin {"count", "walk"} \union Ended
               PROVE  \E m \in Nodes, c \in Nat : ToldAt(m, c)'
    BY DEF Walked
  <2>1. \A f \in RunFields \ {"moments"} : dirRun'[f] = dirRun[f]
    BY <1>2
  <2>2. PICK m \in Nodes, c \in Nat : ToldAt(m, c)
    BY <2>1 DEF DirectoryInv, Walked, RunFields
  <2>3. \A p \in Path : Changed(p, c) => Changed(p, c)'
    BY <1>1, <1>3, <2>2 DEF ToldAt, Moment, Changed, There
  <2>4. \A p \in Path : tree.node[p] # tree'.node[p] => Changed(p, c)'
    BY <1>1, <1>3, <2>2 DEF ToldAt, Moment, Changed, There
  <2>5. tree'.stamp = dirRun'.dirBefore => tree.stamp = dirRun.dirBefore
    BY <1>1, <1>3, <2>1 DEF DirectoryInv, IsRun, RunFields
  <2>6. \A p \in Path : Aware(p) => Aware(p)'
    BY <2>1, <2>5 DEF Aware, RunFields
  <2>7. Moment(m, c)'
    BY <1>1, <1>2, <1>3, <2>2, <2>3, <2>4, <2>5 DEF ToldAt, Moment, RunFields
  <2>8. DOMAIN dirRun.rows \subseteq Path
    BY <2>2 DEF ToldAt, RowsAt, NamesIn
  <2>9. RowsAt(m, c)'
    BY <2>1, <2>2, <2>3, <2>6, <2>8 DEF ToldAt, RowsAt, RunFields, Describes
  <2>10. EntryTrue(m, c)'
    <3>1. dirRun.step \in InEntry => dirRun.todo # {}
      BY <2>2 DEF ToldAt, EntryTrue
    <3>2. dirRun.step \in InEntry => Next1 \in Path
      BY <3>1, Next1IsIn DEF DirectoryInv
    <3>3. Next1' = Next1
      BY <2>1 DEF Next1, RunFields
    <3> QED
      BY <2>1, <2>2, <2>3, <2>6, <3>2, <3>3 DEF ToldAt, EntryTrue, RunFields
  <2>11. Vouched(m, c)' /\ Promoted(m)'
    BY <1>2, <2>1, <2>2 DEF ToldAt, Vouched, Promoted, RunFields, Describes
  <2> QED
    BY <2>7, <2>9, <2>10, <2>11 DEF ToldAt
<1> QED
  BY <1>1, <1>4, <1>6, <1>7, <1>8 DEF DirectoryInv

-----------------------------------------------------------------------------
(***************************************************************************)
(* The snapshots.                                                          *)
(***************************************************************************)
LEMMA OpenPreviousKeeps ==
  ASSUME DirectoryInv, OpenPrevious
  PROVE  DirectoryInv'
<1> USE DEF DirectoryInv
<1>1. /\ Only({"step", "prior"}) /\ dirRun'.step = "list" /\ dirRun.step = "prior"
      /\ dirRun'.prior = IF SeedCompatible(dirRun.prior, dirRun.mode) THEN dirRun.prior ELSE NoValue
  BY DEF OpenPrevious, DirAt, Only, IsRun, RunFields
<1>2. IsTree'
  BY <1>1, TreeStays DEF Only
<1>3. dirRun'.prior # NoValue => dirRun'.prior = dirRun.prior /\ dirRun'.prior.sameRules
  BY <1>1 DEF SeedCompatible
<1>4. IsRun'
  BY <1>1, <1>3 DEF IsRun, Only, RunFields
<1>5. dirRun'.before = NoValue
  BY <1>1 DEF IsRun, Only, RunFields
<1> QED
  BY <1>1, <1>2, <1>4, <1>5 DEF FirstSnapshot, SecondSnapshot, Walked, Only, RunFields

LEMMA ListKeeps ==
  ASSUME DirectoryInv, List
  PROVE  DirectoryInv'
<1> USE DEF DirectoryInv
<1>1. /\ Only({"step", "todo", "stamps", "dirStamp"})
      /\ dirRun'.step = "stamp" /\ dirRun.step = "list"
      /\ dirRun'.todo = Listing /\ dirRun'.stamps = <<>> /\ dirRun'.dirStamp = tree.stamp
  BY DEF List, DirAt, Only, IsRun, RunFields
<1>2. IsTree' /\ Listing' = Listing
  BY <1>1, TreeStays DEF Only, Listing, There
<1>3. IsRun'
  <2>1. Listing \subseteq Path
    BY DEF Listing
  <2>2. tree.stamp \in Nat /\ tree.stamp <= tree.stamp
    BY DEF IsTree
  <2> QED
    BY <1>1, <2>1, <2>2, EmptyStamping DEF IsRun, Only, RunFields
<1>4. FirstSnapshot'
  <2>1. Kept(tree.stamp, Listing \union DOMAIN <<>>, <<>>)'
    BY <1>1, <1>2, EmptyStamping DEF Kept, Only
  <2> QED
    BY <1>1, <1>2, <2>1 DEF FirstSnapshot, Only, RunFields
<1>5. SecondSnapshot'
  BY <1>1 DEF SecondSnapshot, Only, RunFields, Kept, Listing, There
<1>6. Walked'
  <2> SUFFICES ASSUME dirRun'.before # NoValue
               PROVE  \E m \in Nodes, c \in Nat : ToldAt(m, c)'
    BY DEF Walked
  <2>1. dirRun'.before = dirRun.before
    BY <1>1 DEF Only, RunFields
  <2>2. PICK m \in Nodes, c \in Nat : ToldAt(m, c)
    BY <1>1, <2>1 DEF Walked, Ended
  <2>3. Moment(m, c)'
    BY <1>1, <2>2 DEF ToldAt, Moment, Only, RunFields, Changed, There
  <2>4. RowsAt(m, c)'
    BY <1>1, <2>2 DEF ToldAt, RowsAt, Only, RunFields, Changed, There, Aware, Describes, Walking, InEntry
  <2>5. EntryTrue(m, c)' /\ Promoted(m)'
    BY <1>1 DEF EntryTrue, InEntry, Promoted
  <2>6. dirRun'.dirStamp = dirRun'.dirBefore =>
           /\ DOMAIN dirRun'.before = NamesIn(m)
           /\ \A p \in DOMAIN dirRun'.rows \ dirRun'.degraded :
                p \in DOMAIN dirRun'.before => dirRun'.before[p] # CannotStat
    BY <1>1, <2>2 DEF ToldAt, Moment, RowsAt, Aware, Only, RunFields
  <2>7. Vouched(m, c)'
    BY <1>1, <2>6, EmptyStamping DEF Vouched
  <2> QED
    BY <2>3, <2>4, <2>5, <2>7 DEF ToldAt
<1> QED
  BY <1>2, <1>3, <1>4, <1>5, <1>6

LEMMA StampNextKeeps ==
  ASSUME DirectoryInv, StampNext
  PROVE  DirectoryInv'
<1> USE DEF DirectoryInv
<1>1. /\ Only({"todo", "stamps"}) /\ dirRun.step = "stamp" /\ dirRun.todo # {}
      /\ dirRun'.todo = dirRun.todo \ {Next1}
      /\ dirRun'.stamps = WithStamp(dirRun.stamps, Next1, StampAt(Next1))
  BY DEF StampNext, DirAt, Only, IsRun, RunFields
<1>2. Next1 \in dirRun.todo /\ Next1 \in Path
  BY <1>1, Next1IsIn
<1> DEFINE p == Next1
           s == StampAt(p)
           new == WithStamp(dirRun.stamps, p, s)
<1>3. /\ DOMAIN new = DOMAIN dirRun.stamps \union {p}
      /\ new[p] = s
      /\ \A q \in DOMAIN dirRun.stamps : q # p => new[q] = dirRun.stamps[q]
  <2> HIDE DEF p, s
  <2> QED
    BY DEF WithStamp
<1>4. s \in Nat /\ s <= tree.clock
  <2>1. tree.clock \in Nat /\ (There(p) => tree.node[p].stamp \in 1 .. tree.clock)
    BY <1>2 DEF IsTree
  <2> QED
    BY <2>1 DEF StampAt, CannotStat
<1>5. new \in Stampings
  BY <1>2, <1>4, StampingStays DEF IsRun
<1>6. s = CannotStat /\ There(p) => ~tree.node[p].stats
  BY <1>2 DEF StampAt, IsTree, CannotStat
<1>7. dirRun'.stamps = new /\ dirRun'.todo = dirRun.todo \ {p}
  BY <1>1
<1> HIDE DEF p, s, new
<1>8. IsTree'
  BY <1>1, TreeStays DEF Only
<1>9. IsRun'
  <2>1. \A q \in DOMAIN new : new[q] <= tree.clock
    BY <1>3, <1>4 DEF IsRun
  <2> QED
    BY <1>1, <1>5, <1>7, <2>1 DEF IsRun, Only, RunFields
<1>10. FirstSnapshot'
  <2>1. dirRun.todo \union DOMAIN dirRun.stamps = dirRun'.todo \union DOMAIN new
    BY <1>2, <1>3, <1>7 DEF p
  <2>2. ASSUME Kept(dirRun.dirStamp, dirRun.todo \union DOMAIN dirRun.stamps, dirRun.stamps)
        PROVE  Kept(dirRun.dirStamp, dirRun'.todo \union DOMAIN new, new)
    BY <1>3, <1>6, <2>1, <2>2 DEF Kept
  <2>3. Kept(dirRun.dirStamp, dirRun'.todo \union DOMAIN new, new) =>
          (Kept(dirRun.dirStamp, dirRun.todo \union DOMAIN dirRun.stamps, dirRun.stamps))'
    BY <1>1, <1>7 DEF Kept, Only, RunFields, Listing, There
  <2> QED
    BY <1>1, <2>2, <2>3 DEF FirstSnapshot, Only, RunFields
<1>11. SecondSnapshot'
  BY <1>1 DEF SecondSnapshot, Only, RunFields, Kept, Listing, There
<1>12. Walked'
  <2> SUFFICES ASSUME dirRun'.before # NoValue
               PROVE  \E m \in Nodes, c \in Nat : ToldAt(m, c)'
    BY DEF Walked
  <2>1. dirRun'.before = dirRun.before
    BY <1>1 DEF Only, RunFields
  <2>2. PICK m \in Nodes, c \in Nat : ToldAt(m, c)
    BY <1>1, <2>1 DEF Walked, Ended
  <2>3. Moment(m, c)'
    BY <1>1, <2>2 DEF ToldAt, Moment, Only, RunFields, Changed, There
  <2>4. RowsAt(m, c)'
    BY <1>1, <2>2 DEF ToldAt, RowsAt, Only, RunFields, Changed, There, Aware, Describes, Walking, InEntry
  <2>5. EntryTrue(m, c)' /\ Promoted(m)'
    BY <1>1 DEF EntryTrue, InEntry, Promoted, Only, RunFields
  <2>6. s = CannotStat \/ s > c \/ (p \in DOMAIN dirRun.rows /\ Describes(p, dirRun.rows[p], m[p]))
    <3> SUFFICES ASSUME s # CannotStat, ~(s > c)
                 PROVE  p \in DOMAIN dirRun.rows /\ Describes(p, dirRun.rows[p], m[p])
      OBVIOUS
    <3>1. p \in Path /\ There(p) /\ s = tree.node[p].stamp
      BY <1>2 DEF p, s, StampAt
    <3>2. ~Changed(p, c)
      BY <3>1 DEF Changed
    <3>3. p \in NamesIn(m)
      BY <2>2, <3>1, <3>2 DEF ToldAt, Moment, NamesIn, There
    <3> QED
      BY <1>1, <2>2, <3>2, <3>3 DEF ToldAt, RowsAt, Walking, InEntry
  <2>7. Vouched(m, c)'
    BY <1>1, <1>3, <1>7, <2>2, <2>6 DEF ToldAt, Vouched, Only, RunFields, Describes
  <2> QED
    BY <2>3, <2>4, <2>5, <2>7 DEF ToldAt
<1> QED
  BY <1>8, <1>9, <1>10, <1>11, <1>12


LEMMA StampedKeeps ==
  ASSUME DirectoryInv, Stamped
  PROVE  DirectoryInv'
<1> USE DEF DirectoryInv
<1>1. dirRun.step = "stamp" /\ dirRun.todo = {} /\ UNCHANGED tree
  BY DEF Stamped, DirAt
<1>2. IsTree'
  BY <1>1, TreeStays
<1>3. CASE dirRun.before = NoValue
  <2>1. /\ Only({"step", "before", "dirBefore"})
        /\ dirRun'.step = "count" /\ dirRun'.before = dirRun.stamps
        /\ dirRun'.dirBefore = dirRun.dirStamp
    BY <1>1, <1>3 DEF Stamped, Only, IsRun, RunFields
  <2>2. dirRun'.before # NoValue
    BY <2>1, StampingNatural DEF IsRun
  <2>3. IsRun'
    BY <1>1, <2>1 DEF IsRun, Only, RunFields
  <2>4. Kept(dirRun.dirStamp, DOMAIN dirRun.stamps, dirRun.stamps)
    <3>1. dirRun.todo \union DOMAIN dirRun.stamps = DOMAIN dirRun.stamps
      BY <1>1
    <3> QED
      BY <1>1, <1>3, <3>1 DEF FirstSnapshot
  <2>5. (Kept(dirRun.dirBefore, DOMAIN dirRun.before, dirRun.before))'
    BY <2>1, <2>4 DEF Only, Kept, Listing, There
  <2>6. SecondSnapshot'
    BY <1>3, <2>1, <2>2, <2>5 DEF SecondSnapshot, FirstSnapshot, IsRun, Only, RunFields
  <2> QED
    BY <1>2, <2>1, <2>2, <2>3, <2>6 DEF FirstSnapshot, Walked
<1>4. CASE dirRun.before # NoValue
  <2>1. Only({"step"}) /\ dirRun'.step = "compare"
    BY <1>1, <1>4 DEF Stamped, Only, IsRun, RunFields
  <2>2. IsRun'
    BY <1>1, <2>1 DEF IsRun, Only, RunFields
  <2>3. FirstSnapshot' /\ SecondSnapshot'
    BY <1>1, <1>4, <2>1 DEF FirstSnapshot, SecondSnapshot, Only, RunFields, Kept, Listing, There
  <2>4. PICK m \in Nodes, c \in Nat : ToldAt(m, c)
    BY <1>1, <1>4 DEF Walked, Ended
  <2>5. Moment(m, c)'
    BY <2>1, <2>4 DEF ToldAt, Moment, Only, RunFields, Changed, There
  <2>6. RowsAt(m, c)'
    BY <1>1, <2>1, <2>4 DEF ToldAt, RowsAt, Only, RunFields, Changed, There, Aware, Describes, Walking, InEntry
  <2>7. EntryTrue(m, c)' /\ Promoted(m)'
    BY <2>1 DEF EntryTrue, InEntry, Promoted
  <2>8. Vouched(m, c)'
    BY <1>1, <2>1, <2>4 DEF ToldAt, Vouched, Only, RunFields, Describes
  <2>9. Walked'
    BY <2>5, <2>6, <2>7, <2>8 DEF Walked, ToldAt
  <2> QED
    BY <1>2, <2>2, <2>3, <2>9
<1> QED
  BY <1>3, <1>4

LEMMA CountEntriesKeeps ==
  ASSUME DirectoryInv, CountEntries
  PROVE  DirectoryInv'
<1> USE DEF DirectoryInv
<1>1. /\ Only({"step", "total"}) /\ dirRun.step = "count" /\ dirRun'.step = "walk"
  BY DEF CountEntries, DirAt, Only, IsRun, RunFields
<1>2. IsTree'
  BY <1>1, TreeStays DEF Only
<1>3. IsRun'
  BY <1>1 DEF IsRun, Only, RunFields
<1>4. FirstSnapshot' /\ SecondSnapshot'
  BY <1>1 DEF FirstSnapshot, SecondSnapshot, Only, RunFields, Kept, Listing, There, Ended
<1>5. Walked'
  BY <1>1 DEF Walked
<1> QED
  BY <1>2, <1>3, <1>4, <1>5

-----------------------------------------------------------------------------
(***************************************************************************)
(* The walk.                                                               *)
(***************************************************************************)
LEMMA WalkKeeps ==
  ASSUME DirectoryInv, Walk
  PROVE  DirectoryInv'
<1> USE DEF DirectoryInv
<1>1. /\ Only({"step", "todo"}) /\ dirRun.step = "walk" /\ dirRun'.step = "entry"
      /\ dirRun'.todo = Listing
  BY DEF Walk, DirAt, Only, IsRun, RunFields
<1>2. IsTree'
  BY <1>1, TreeStays DEF Only
<1>3. Listing \subseteq Path
  BY DEF Listing
<1>4. IsRun'
  BY <1>1, <1>3 DEF IsRun, Only, RunFields
<1>5. dirRun.before # NoValue /\ dirRun.rows = <<>> /\ dirRun.degraded = {}
  BY <1>1 DEF FirstSnapshot, SecondSnapshot, Ended
<1>6. FirstSnapshot' /\ SecondSnapshot'
  BY <1>1, <1>5 DEF FirstSnapshot, SecondSnapshot, Only, RunFields, Kept, Listing, There
<1> DEFINE m == tree.node
           c == tree.clock
<1>7. m \in Nodes /\ c \in Nat /\ Listing = NamesIn(m)
  BY DEF IsTree, Listing, There, NamesIn
<1>8. (tree.stamp = dirRun.dirBefore => DOMAIN dirRun.before = NamesIn(m))
  BY <1>5, <1>7 DEF SecondSnapshot, Kept
<1>9. \A n \in Nodes, d \in Nat : n = m /\ d = c => ToldAt(n, d)'
  <2> SUFFICES ASSUME NEW n \in Nodes, NEW d \in Nat, n = m, d = c
               PROVE  ToldAt(n, d)'
    OBVIOUS
  <2>1. n \in dirRun.moments /\ d <= tree.clock /\ (\A p \in NamesIn(n) : n[p].stamp \in 1 .. d)
    BY DEF IsRun, IsTree, NamesIn, There
  <2>2. \A p \in DOMAIN dirRun.before : dirRun.before[p] <= d
    BY <1>5 DEF SecondSnapshot
  <2>3. Moment(n, d)'
    BY <1>1, <1>8, <2>1, <2>2 DEF Moment, Only, RunFields
  <2>4. RowsAt(n, d)'
    <3>1. dirRun'.rows = <<>> /\ dirRun'.degraded = {} /\ dirRun'.todo = NamesIn(n)
      BY <1>1, <1>5, <1>7 DEF Only, RunFields
    <3> QED
      BY <1>1, <3>1, EmptyStamping DEF RowsAt, Walking
  <2> QED
    BY <1>1, <2>3, <2>4 DEF ToldAt, EntryTrue, InEntry, Vouched, Promoted
<1>10. Walked'
  BY <1>7, <1>9 DEF Walked
<1> QED
  BY <1>2, <1>4, <1>6, <1>10


LEMMA InsideKeeps ==
  ASSUME DirectoryInv, Only({"step", "md", "handle", "half", "read"}),
         dirRun.step \in Walking, dirRun'.step \in InEntry,
         \A m \in Nodes, c \in Nat : ToldAt(m, c) => EntryTrue(m, c)'
  PROVE  DirectoryInv'
<1> USE DEF DirectoryInv
<1>1. IsTree'
  BY TreeStays DEF Only
<1>2. dirRun.step # "prior" /\ dirRun'.step \notin {"prior", "count", "walk"}
  BY DEF Walking, InEntry
<1>3. IsRun'
  BY <1>2 DEF IsRun, Only, RunFields
<1>4. dirRun.before # NoValue
  BY DEF FirstSnapshot, Walking, InEntry, Ended
<1>5. FirstSnapshot' /\ SecondSnapshot'
  BY <1>2, <1>4 DEF FirstSnapshot, SecondSnapshot, Only, RunFields, Kept, Listing, There
<1>6. Walked'
  <2>1. PICK m \in Nodes, c \in Nat : ToldAt(m, c)
    BY <1>4 DEF Walked, Walking, InEntry, Ended
  <2>2. Moment(m, c)'
    BY <2>1 DEF ToldAt, Moment, Only, RunFields, Changed, There
  <2>3. RowsAt(m, c)'
    BY <2>1 DEF ToldAt, RowsAt, Only, RunFields, Changed, There, Aware, Describes, Walking
  <2>4. Vouched(m, c)' /\ Promoted(m)'
    BY DEF Vouched, Promoted, InEntry
  <2> QED
    BY <2>1, <2>2, <2>3, <2>4 DEF Walked, ToldAt
<1> QED
  BY <1>1, <1>3, <1>5, <1>6

LEMMA RecordedKeeps ==
  ASSUME DirectoryInv, dirRun.step \in Walking, dirRun.todo # {},
         NEW row,
         Only({"step", "rows", "todo", "degraded"}),
         dirRun'.step = "entry",
         dirRun'.rows = WithStamp(dirRun.rows, Next1, row),
         dirRun'.todo = dirRun.todo \ {Next1},
         \/ dirRun'.degraded = dirRun.degraded /\ Aware(Next1)
         \/ dirRun'.degraded = dirRun.degraded \union {Next1} /\ row.outcome = ReadFailed,
         \A m \in Nodes, c \in Nat :
           ToldAt(m, c) => Describes(Next1, row, m[Next1]) \/ Changed(Next1, c)
  PROVE  DirectoryInv'
<1> USE DEF DirectoryInv
<1> DEFINE p == Next1
<1>0. p \in dirRun.todo /\ p \in Path
  BY Next1IsIn
<1>1. IsTree'
  BY TreeStays DEF Only
<1>2. dirRun.step # "prior"
  BY DEF Walking, InEntry
<1>3. IsRun'
  BY <1>2 DEF IsRun, Only, RunFields
<1>4. dirRun.before # NoValue
  BY DEF FirstSnapshot, Walking, InEntry, Ended
<1>5. FirstSnapshot' /\ SecondSnapshot'
  BY <1>2, <1>4 DEF FirstSnapshot, SecondSnapshot, Only, RunFields, Kept, Listing, There
<1>6. /\ DOMAIN dirRun'.rows = DOMAIN dirRun.rows \union {p}
      /\ dirRun'.rows[p] = row
      /\ \A q \in DOMAIN dirRun.rows : q # p => dirRun'.rows[q] = dirRun.rows[q]
  BY DEF WithStamp
<1>7. Walked'
  <2>1. PICK m \in Nodes, c \in Nat : ToldAt(m, c)
    BY <1>4 DEF Walked, Walking, InEntry, Ended
  <2>2. Moment(m, c)'
    BY <2>1 DEF ToldAt, Moment, Only, RunFields, Changed, There
  <2>3. RowsAt(m, c)'
    <3>1. p \notin DOMAIN dirRun.rows
      BY <1>0, <2>1 DEF ToldAt, RowsAt
    <3>2. DOMAIN dirRun'.rows \union dirRun'.todo = NamesIn(m)
      BY <1>0, <1>6, <2>1 DEF ToldAt, RowsAt
    <3>3. DOMAIN dirRun'.rows \intersect dirRun'.todo = {}
      BY <1>0, <1>6, <2>1 DEF ToldAt, RowsAt
    <3>4. /\ dirRun'.degraded \subseteq DOMAIN dirRun'.rows
          /\ \A q \in dirRun'.degraded : dirRun'.rows[q].outcome = ReadFailed
      BY <1>6, <2>1, <3>1 DEF ToldAt, RowsAt
    <3>5. /\ Describes(p, row, m[p]) \/ Changed(p, c)
          /\ p \in dirRun'.degraded \/ Aware(p)
      BY <2>1
    <3>6. \A q \in DOMAIN dirRun'.rows :
            /\ Describes(q, dirRun'.rows[q], m[q]) \/ Changed(q, c)
            /\ q \in dirRun'.degraded \/ Aware(q)
      BY <1>6, <2>1, <3>5 DEF ToldAt, RowsAt
    <3>7. \A q : /\ Changed(q, c) => Changed(q, c)'
                 /\ Aware(q) => Aware(q)'
      BY DEF Only, RunFields, Changed, There, Aware
    <3> HIDE DEF p
    <3>8. dirRun'.mode = dirRun.mode
      BY DEF Only, RunFields
    <3>9. \A q \in DOMAIN dirRun'.rows :
            /\ Describes(q, dirRun.rows[q], m[q])' \/ Changed(q, c)'
            /\ q \in dirRun'.degraded \/ Aware(q)'
      BY <3>6, <3>7, <3>8 DEF Describes
    <3> QED
      BY <3>2, <3>3, <3>4, <3>9 DEF RowsAt, Walking
  <2>4. EntryTrue(m, c)' /\ Vouched(m, c)' /\ Promoted(m)'
    BY DEF EntryTrue, Vouched, Promoted, InEntry
  <2> QED
    BY <2>1, <2>2, <2>3, <2>4 DEF Walked, ToldAt
<1> QED
  BY <1>1, <1>3, <1>5, <1>7

LEMMA DegradeKeeps ==
  ASSUME DirectoryInv, dirRun.step \in Walking, dirRun.todo # {}, Degrade, UNCHANGED tree
  PROVE  DirectoryInv'
<1> DEFINE row == Row("file", ReadFailed, CannotStat)
<1>1. /\ Only({"step", "rows", "todo", "degraded"})
      /\ dirRun'.step = "entry"
      /\ dirRun'.rows = WithStamp(dirRun.rows, Next1, row)
      /\ dirRun'.todo = dirRun.todo \ {Next1}
      /\ dirRun'.degraded = dirRun.degraded \union {Next1}
  BY DEF DirectoryInv, IsRun, RunFields, Degrade, Recorded, Only
<1>2. row.outcome = ReadFailed
  BY DEF Row
<1>3. \A m : Describes(Next1, row, m[Next1])
  BY <1>2 DEF Describes
<1> HIDE DEF row
<1> QED
  BY <1>1, <1>2, <1>3, RecordedKeeps


LEMMA InEntryHasNext ==
  ASSUME DirectoryInv, dirRun.step \in InEntry
  PROVE  /\ dirRun.before # NoValue
         /\ \E m \in Nodes, c \in Nat : ToldAt(m, c)
         /\ dirRun.todo # {} /\ Next1 \in dirRun.todo /\ Next1 \in Path
         /\ dirRun.step \in Walking /\ dirRun.step # "prior"
<1>1. dirRun.before # NoValue
  BY DEF DirectoryInv, FirstSnapshot, InEntry, Ended
<1>2. \E m \in Nodes, c \in Nat : ToldAt(m, c)
  BY <1>1 DEF DirectoryInv, Walked, InEntry, Ended
<1>3. dirRun.todo # {}
  BY <1>2 DEF ToldAt, EntryTrue
<1> QED
  BY <1>1, <1>2, <1>3, Next1IsIn DEF DirectoryInv, Walking, InEntry

LEMMA StatEntryKeeps ==
  ASSUME DirectoryInv, StatEntry
  PROVE  DirectoryInv'
<1> DEFINE p == Next1
           n == tree.node[p]
<1>1. dirRun.step = "entry" /\ dirRun.todo # {} /\ UNCHANGED tree /\ dirRun.step \in Walking
  BY DEF StatEntry, DirAt, Walking
<1>2. p \in dirRun.todo /\ p \in Path
  BY <1>1, Next1IsIn DEF DirectoryInv
<1>3. CASE Degrade
  BY <1>1, <1>3, DegradeKeeps
<1>4. CASE ~Degrade
  <2>1. StampAt(p) # CannotStat
    BY <1>4 DEF StatEntry
  <2>2. There(p) /\ n \in Node /\ n.stats /\ n.stamp > 0
    BY <1>2, <2>1 DEF StampAt, There, DirectoryInv, IsTree, Nodes
  <2>3. dirRun.before \in Stampings /\ Kept(dirRun.dirBefore, DOMAIN dirRun.before, dirRun.before)
    BY <1>1 DEF DirectoryInv, FirstSnapshot, SecondSnapshot, Ended
  <2>4. Aware(p) /\ (n.type # "link" => n.type = "file")
    <3>1. CASE n.type = "link"
      BY <2>2, <2>3, <3>1 DEF Kept, Aware
    <3>2. CASE n.type # "link"
      BY <1>4, <2>1, <3>2 DEF StatEntry, Aware
    <3> QED
      BY <3>1, <3>2
  <2>5. ASSUME NEW m \in Nodes, NEW c \in Nat, ToldAt(m, c)
        PROVE  n = m[p] \/ Changed(p, c)
    BY <1>2, <2>5 DEF ToldAt, Moment
  <2>6. CASE n.type = "file" /\ dirRun.mode = "metadata-only"
    <3> DEFINE row == Row("file", NoValue, n.stamp)
    <3>1. dirRun' = Recorded(row)
      BY <1>4, <2>1, <2>6 DEF StatEntry
    <3>2. /\ Only({"step", "rows", "todo", "degraded"})
          /\ dirRun'.step = "entry"
          /\ dirRun'.rows = WithStamp(dirRun.rows, p, row)
          /\ dirRun'.todo = dirRun.todo \ {p}
          /\ dirRun'.degraded = dirRun.degraded
      BY <1>1, <3>1 DEF DirectoryInv, IsRun, RunFields, Recorded, Only
    <3>3. Describes(p, row, n)
      BY <2>2, <2>6 DEF Describes, Row, There
    <3> HIDE DEF row
    <3>4. \A m \in Nodes, c \in Nat : ToldAt(m, c) => Describes(p, row, m[p]) \/ Changed(p, c)
      BY <2>5, <3>3
    <3> QED
      BY <1>1, <2>4, <3>2, <3>4, RecordedKeeps
  <2>7. CASE ~(n.type = "file" /\ dirRun.mode = "metadata-only")
    <3> DEFINE step == IF n.type = "link" THEN "link" ELSE "check"
    <3>1. dirRun' = [dirRun EXCEPT !.step = step, !.md = n]
      BY <1>4, <2>1, <2>4, <2>7 DEF StatEntry
    <3>2. step \in InEntry
      BY DEF InEntry
    <3>3. /\ step = "link" => n.type = "link"
          /\ step # "link" => n.type = "file" /\ dirRun.mode # "metadata-only"
          /\ step \in {"link", "check"}
      BY <2>4, <2>7
    <3> HIDE DEF step
    <3>4. Only({"step", "md", "handle", "half", "read"}) /\ dirRun'.step = step /\ dirRun'.md = n
      BY <1>1, <3>1 DEF DirectoryInv, IsRun, RunFields, Only
    <3>5. Next1' = p /\ dirRun'.todo = dirRun.todo /\ dirRun'.mode = dirRun.mode
      BY <3>4 DEF Next1, Only, RunFields
    <3>6. \A q : Aware(q) => Aware(q)'
      BY <3>4 DEF Aware, Only, RunFields
    <3>7. \A q, c : Changed(q, c) => Changed(q, c)'
      BY <3>4 DEF Changed, There, Only
    <3>8. ASSUME NEW m \in Nodes, NEW c \in Nat, ToldAt(m, c)
          PROVE  EntryTrue(m, c)'
      BY <1>1, <2>2, <2>4, <2>5, <3>3, <3>4, <3>5, <3>6, <3>7, <3>8 DEF EntryTrue
    <3> QED
      BY <1>1, <3>2, <3>4, <3>8, InsideKeeps
  <2> QED
    BY <2>6, <2>7
<1> QED
  BY <1>3, <1>4

LEMMA ReadLinkKeeps ==
  ASSUME DirectoryInv, ReadLink
  PROVE  DirectoryInv'
<1> DEFINE p == Next1
           n == tree.node[p]
           target == IF There(p) /\ n.type = "link" THEN n.bytes ELSE NoValue
           row == Row("link", Outcome(target, "link", {}), dirRun.md.stamp)
<1>1. dirRun.step = "link" /\ UNCHANGED tree /\ dirRun.step \in InEntry /\ dirRun' = Recorded(row)
  BY DEF ReadLink, DirAt, InEntry
<1>2. /\ Only({"step", "rows", "todo", "degraded"})
      /\ dirRun'.step = "entry"
      /\ dirRun'.rows = WithStamp(dirRun.rows, p, row)
      /\ dirRun'.todo = dirRun.todo \ {p}
      /\ dirRun'.degraded = dirRun.degraded
  BY <1>1 DEF DirectoryInv, IsRun, RunFields, Recorded, Only
<1>3. dirRun.todo # {} /\ p \in Path /\ dirRun.step \in Walking
  BY <1>1, InEntryHasNext
<1>4. Aware(p)
  BY <1>1, InEntryHasNext DEF ToldAt, EntryTrue
<1>5. ASSUME NEW m \in Nodes, NEW c \in Nat, ToldAt(m, c), ~Changed(p, c)
      PROVE  Describes(p, row, m[p])
  <2>1. n = m[p] /\ dirRun.md = m[p]
    BY <1>1, <1>3, <1>5 DEF ToldAt, Moment, EntryTrue
  <2>2. There(p) /\ n.type = "link"
    BY <1>1, <1>5, <2>1 DEF Changed, ToldAt, EntryTrue
  <2> QED
    BY <2>1, <2>2 DEF Describes, Row, Outcome, There
<1> HIDE DEF row
<1> QED
  BY <1>2, <1>3, <1>4, <1>5, RecordedKeeps


\* What stays of ToldAt while an entry is read.
LEMMA InsideSame ==
  ASSUME Only({"step", "md", "handle", "half", "read"})
  PROVE  /\ Next1' = Next1 /\ dirRun'.todo = dirRun.todo /\ dirRun'.mode = dirRun.mode
         /\ \A q : Aware(q) => Aware(q)'
         /\ \A q, c : Changed(q, c) => Changed(q, c)'
<1>1. dirRun'.todo = dirRun.todo /\ dirRun'.mode = dirRun.mode
  BY DEF Only, RunFields
<1>2. Next1' = Next1
  BY <1>1 DEF Next1
<1> QED
  BY <1>1, <1>2 DEF Only, RunFields, Aware, Changed, There

LEMMA CheckEntryKeeps ==
  ASSUME DirectoryInv, CheckEntry
  PROVE  DirectoryInv'
<1>1. dirRun.step = "check" /\ UNCHANGED tree /\ dirRun.step \in InEntry
  BY DEF CheckEntry, DirAt, InEntry
<1>2. CASE Degrade
  BY <1>1, <1>2, InEntryHasNext, DegradeKeeps
<1>3. CASE DirGoes("open")
  <2>1. Only({"step"}) /\ dirRun'.step = "open"
    BY <1>1, <1>3, Going
  <2>2. Only({"step", "md", "handle", "half", "read"}) /\ dirRun'.md = dirRun.md
    BY <2>1 DEF Only, RunFields
  <2>3. \A m \in Nodes, c \in Nat : ToldAt(m, c) => EntryTrue(m, c)'
    BY <1>1, <2>1, <2>2, InsideSame DEF ToldAt, EntryTrue
  <2> QED
    BY <1>1, <2>1, <2>2, <2>3, InsideKeeps, InEntryHasNext DEF InEntry
<1> QED
  BY <1>2, <1>3 DEF CheckEntry

LEMMA OpenEntryKeeps ==
  ASSUME DirectoryInv, OpenEntry
  PROVE  DirectoryInv'
<1>1. dirRun.step = "open" /\ UNCHANGED tree /\ dirRun.step \in InEntry
  BY DEF OpenEntry, DirAt, InEntry
<1>2. CASE Degrade
  BY <1>1, <1>2, InEntryHasNext, DegradeKeeps
<1>3. CASE ~Degrade
  <2>1. There(Next1) /\ dirRun' = [dirRun EXCEPT !.step = "first", !.handle = tree.node[Next1]]
    BY <1>3 DEF OpenEntry
  <2>2. /\ Only({"step", "md", "handle", "half", "read"}) /\ dirRun'.md = dirRun.md
        /\ dirRun'.step = "first" /\ dirRun'.handle = tree.node[Next1]
    BY <1>1, <2>1 DEF Only, DirectoryInv, IsRun, RunFields
  <2>3. tree.node[Next1] \in Node /\ tree.node[Next1].stamp > 0
    BY <1>1, <2>1, InEntryHasNext DEF DirectoryInv, IsTree, Nodes, There
  <2>4. \A m \in Nodes, c \in Nat : ToldAt(m, c) => EntryTrue(m, c)'
    BY <1>1, <2>2, <2>3, InsideSame DEF ToldAt, EntryTrue
  <2> QED
    BY <1>1, <2>2, <2>4, InsideKeeps, InEntryHasNext DEF InEntry
<1> QED
  BY <1>2, <1>3

\* The handle has the stamp that the first snapshot took: it is the node of the
\* moment.
LEMMA ReadFirstKeeps ==
  ASSUME DirectoryInv, ReadFirst
  PROVE  DirectoryInv'
<1> DEFINE p == Next1
<1>1. dirRun.step = "first" /\ UNCHANGED tree /\ dirRun.step \in InEntry
  BY DEF ReadFirst, DirAt, InEntry
<1>2. dirRun.step # "prior" /\ p \in Path /\ dirRun.step \in Walking
  BY <1>1, InEntryHasNext
<1>3. CASE DirFails
  BY <1>1, <1>2, <1>3, Ending DEF DirFails, Ended
<1>4. CASE ~DirFails
  <2>1. /\ HandleStamp = dirRun.handle.stamp /\ p \in DOMAIN dirRun.before
        /\ dirRun.before[p] = HandleStamp
        /\ dirRun' = [dirRun EXCEPT !.step = "rest", !.half = HandleBytes]
    BY <1>4 DEF ReadFirst, Expected
  <2>2. /\ Only({"step", "md", "handle", "half", "read"}) /\ dirRun'.md = dirRun.md
        /\ dirRun'.handle = dirRun.handle
        /\ dirRun'.step = "rest" /\ dirRun'.half = HandleBytes
    BY <1>1, <2>1 DEF Only, DirectoryInv, IsRun, RunFields
  <2>3. ASSUME NEW m \in Nodes, NEW c \in Nat, ToldAt(m, c)
        PROVE  EntryTrue(m, c)'
    <3>1. dirRun.handle.stamp > 0 /\ dirRun.handle \in Node
      BY <1>1, <2>3 DEF ToldAt, EntryTrue
    <3>2. SameInode /\ There(p) /\ tree.node[p].stamp = dirRun.before[p]
      BY <2>1, <3>1 DEF HandleStamp, SameInode, CannotStat
    <3>3. dirRun.before[p] <= c /\ dirRun.before[p] \in Nat
      BY <2>1, <2>3, <3>1 DEF ToldAt, Moment, Node
    <3>4. tree.node[p] = m[p]
      BY <1>2, <2>3, <3>2, <3>3 DEF ToldAt, Moment, Changed
    <3>5. m[p] # NoValue /\ dirRun.handle.ino = m[p].ino /\ HandleBytes = m[p].bytes
      BY <3>2, <3>4 DEF There, SameInode, HandleBytes
    <3> QED
      BY <1>1, <2>2, <2>3, <3>1, <3>5, InsideSame DEF ToldAt, EntryTrue
  <2> QED
    BY <1>1, <1>2, <2>2, <2>3, InsideKeeps DEF InEntry
<1> QED
  BY <1>3, <1>4

\* What was derived before is used again only for the bytes it was derived of,
\* and is what would be derived now.
LEMMA ProcessedAfresh ==
  ASSUME DirectoryInv, dirRun.step # "prior", NEW p, NEW c
  PROVE  Process(p, c, Cached(dirRun.prior, p)) = Fresh(p, c)
<1>1. dirRun.prior # NoValue => Sound(dirRun.prior) /\ dirRun.prior.sameRules
  BY DEF DirectoryInv, IsRun
<1> QED
  BY <1>1 DEF Process, Cached, Sound

LEMMA ReadRestKeeps ==
  ASSUME DirectoryInv, ReadRest
  PROVE  DirectoryInv'
<1> DEFINE p == Next1
           content == IF HandleBytes = dirRun.half THEN dirRun.half ELSE Torn
<1>1. dirRun.step = "rest" /\ UNCHANGED tree /\ dirRun.step \in InEntry
  BY DEF ReadRest, DirAt, InEntry
<1>2. dirRun.step # "prior" /\ p \in Path /\ dirRun.step \in Walking
  BY <1>1, InEntryHasNext
<1>3. PICK read : /\ dirRun' = [dirRun EXCEPT !.step = "recheck", !.read = read]
                  /\ read = Fresh(p, content) \/ read = ReadFailed
  <2>1. Process(p, content, Cached(dirRun.prior, p)) = Fresh(p, content)
    BY <1>2, ProcessedAfresh
  <2> QED
    BY <2>1 DEF ReadRest
<1> HIDE DEF content
<1>4. /\ Only({"step", "md", "handle", "half", "read"}) /\ dirRun'.md = dirRun.md
      /\ dirRun'.handle = dirRun.handle
      /\ dirRun'.step = "recheck" /\ dirRun'.read = read
  BY <1>1, <1>3 DEF Only, DirectoryInv, IsRun, RunFields
<1>5. ASSUME NEW m \in Nodes, NEW c \in Nat, ToldAt(m, c)
      PROVE  EntryTrue(m, c)'
  <2>1. m[p] # NoValue /\ dirRun.handle.ino = m[p].ino /\ dirRun.half = m[p].bytes
    BY <1>1, <1>5 DEF ToldAt, EntryTrue
  <2>2. content = m[p].bytes \/ Changed(p, c)
    <3> SUFFICES ASSUME ~Changed(p, c) PROVE content = m[p].bytes
      OBVIOUS
    <3>1. tree.node[p] = m[p]
      BY <1>2, <1>5 DEF ToldAt, Moment
    <3> QED
      BY <2>1, <3>1 DEF content, HandleBytes, SameInode, There
  <2>3. read = ReadFailed \/ read = Fresh(p, m[p].bytes) \/ Changed(p, c)
    BY <1>3, <2>2
  <2> QED
    BY <1>1, <1>4, <1>5, <2>1, <2>3, InsideSame DEF ToldAt, EntryTrue
<1> QED
  BY <1>1, <1>2, <1>4, <1>5, InsideKeeps DEF InEntry

LEMMA RecheckEntryKeeps ==
  ASSUME DirectoryInv, RecheckEntry
  PROVE  DirectoryInv'
<1> DEFINE p == Next1
           row == Row("file", dirRun.read, dirRun.md.stamp)
<1>1. dirRun.step = "recheck" /\ UNCHANGED tree /\ dirRun.step \in InEntry
  BY DEF RecheckEntry, DirAt, InEntry
<1>2. dirRun.step # "prior" /\ p \in Path /\ dirRun.step \in Walking /\ dirRun.todo # {}
  BY <1>1, InEntryHasNext
<1>3. CASE DirFails
  BY <1>1, <1>2, <1>3, Ending DEF DirFails, Ended
<1>4. CASE dirRun' = Recorded(row)
  <2>1. /\ Only({"step", "rows", "todo", "degraded"})
        /\ dirRun'.step = "entry"
        /\ dirRun'.rows = WithStamp(dirRun.rows, p, row)
        /\ dirRun'.todo = dirRun.todo \ {p}
        /\ dirRun'.degraded = dirRun.degraded
    BY <1>1, <1>4 DEF DirectoryInv, IsRun, RunFields, Recorded, Only
  <2>2. Aware(p)
    BY <1>1, InEntryHasNext DEF ToldAt, EntryTrue
  <2>3. ASSUME NEW m \in Nodes, NEW c \in Nat, ToldAt(m, c), ~Changed(p, c)
        PROVE  Describes(p, row, m[p])
    <3>1. /\ dirRun.md = m[p] /\ dirRun.md.type = "file" /\ dirRun.mode # "metadata-only"
          /\ m[p] # NoValue
          /\ dirRun.read = ReadFailed \/ dirRun.read = Fresh(p, m[p].bytes)
      BY <1>1, <2>3 DEF ToldAt, EntryTrue
    <3> QED
      BY <3>1 DEF Describes, Row
  <2> HIDE DEF row
  <2> QED
    BY <1>2, <2>1, <2>2, <2>3, RecordedKeeps
<1> QED
  BY <1>3, <1>4 DEF RecheckEntry


LEMMA WalkEndsKeeps ==
  ASSUME DirectoryInv, WalkEnds
  PROVE  DirectoryInv'
<1> USE DEF DirectoryInv
<1>1. /\ Only({"step"}) /\ dirRun.step = "entry" /\ dirRun'.step = "list"
      /\ dirRun.todo = {} /\ dirRun'.todo = {}
  BY Going DEF WalkEnds, DirAt, Only, RunFields
<1>2. IsTree'
  BY <1>1, TreeStays DEF Only
<1>3. IsRun'
  BY <1>1 DEF IsRun, Only, RunFields
<1>4. dirRun.before # NoValue
  BY <1>1 DEF FirstSnapshot, Ended
<1>5. FirstSnapshot' /\ SecondSnapshot'
  BY <1>1, <1>4 DEF FirstSnapshot, SecondSnapshot, Only, RunFields, Kept, Listing, There
<1>6. PICK m \in Nodes, c \in Nat : ToldAt(m, c)
  BY <1>1, <1>4 DEF Walked, Ended
<1>7. Moment(m, c)'
  BY <1>1, <1>6 DEF ToldAt, Moment, Only, RunFields, Changed, There
<1>8. RowsAt(m, c)'
  BY <1>1, <1>6 DEF ToldAt, RowsAt, Only, RunFields, Changed, There, Aware, Describes, Walking, InEntry
<1>9. EntryTrue(m, c)' /\ Vouched(m, c)' /\ Promoted(m)'
  BY <1>1 DEF EntryTrue, InEntry, Vouched, Promoted
<1>10. Walked'
  BY <1>7, <1>8, <1>9 DEF Walked, ToldAt
<1> QED
  BY <1>2, <1>3, <1>5, <1>10

\* What matched is the stamps of what is not degraded, and that of the directory
\* when nothing is.
LEMMA CompareKeeps ==
  ASSUME DirectoryInv, Compare
  PROVE  DirectoryInv'
<1>1. dirRun.step = "compare" /\ UNCHANGED tree
  BY DEF Compare, DirAt
<1>2. CASE DirFails
  BY <1>1, <1>2, Ending DEF DirFails, Ended
<1>3. CASE ~DirFails
  <2> USE DEF DirectoryInv
  <2>1. /\ DirGoes("promoted")
        /\ SnapshotsMatch(dirRun.before, dirRun.stamps, dirRun.degraded,
                          dirRun.dirBefore = dirRun.dirStamp)
    BY <1>3 DEF Compare
  <2>2. Only({"step"}) /\ dirRun'.step = "promoted"
    BY <1>1, <2>1, Going
  <2>3. IsTree'
    BY <1>1, TreeStays
  <2>4. IsRun'
    BY <1>1, <2>2 DEF IsRun, Only, RunFields
  <2>5. dirRun.before # NoValue
    BY <1>1 DEF FirstSnapshot, Ended
  <2>6. FirstSnapshot' /\ SecondSnapshot'
    BY <2>2, <2>5 DEF FirstSnapshot, SecondSnapshot, Only, RunFields, Kept, Listing, There
  <2>7. PICK m \in Nodes, c \in Nat : ToldAt(m, c)
    BY <1>1, <2>5 DEF Walked, Ended
  <2>8. Moment(m, c)'
    BY <2>2, <2>7 DEF ToldAt, Moment, Only, RunFields, Changed, There
  <2>9. RowsAt(m, c)'
    BY <1>1, <2>2, <2>7 DEF ToldAt, RowsAt, Only, RunFields, Changed, There, Aware, Describes, Walking, InEntry
  <2>10. ASSUME NEW p \in DOMAIN dirRun.rows, ~Unwatched(p)
         PROVE  Describes(p, dirRun.rows[p], m[p])
    <3>1. CASE p \in dirRun.degraded
      BY <2>7, <3>1 DEF ToldAt, RowsAt, Describes
    <3>2. CASE p \notin dirRun.degraded
      <4>1. p \in DOMAIN dirRun.before /\ dirRun.before[p] # CannotStat
        <5>1. CASE dirRun.degraded = {}
          <6>1. dirRun.dirStamp = dirRun.dirBefore
            BY <2>1, <5>1 DEF SnapshotsMatch
          <6>2. p \in NamesIn(m)
            BY <1>1, <2>7, <2>10 DEF ToldAt, RowsAt
          <6> QED
            BY <1>1, <2>5, <2>7, <2>10, <3>2, <6>1, <6>2 DEF ToldAt, Vouched
        <5>2. CASE dirRun.degraded # {}
          BY <2>10, <5>2 DEF Unwatched
        <5> QED
          BY <5>1, <5>2
      <4>2. p \in DOMAIN dirRun.stamps /\ dirRun.stamps[p] = dirRun.before[p]
        <5> DEFINE before == Restrict(dirRun.before, DOMAIN dirRun.before \ dirRun.degraded)
                   after == Restrict(dirRun.stamps, DOMAIN dirRun.stamps \ dirRun.degraded)
        <5>1. before = after
          BY <2>1 DEF SnapshotsMatch
        <5>2. /\ DOMAIN before = DOMAIN dirRun.before \ dirRun.degraded
              /\ DOMAIN after = DOMAIN dirRun.stamps \ dirRun.degraded
              /\ \A q \in DOMAIN before : before[q] = dirRun.before[q]
              /\ \A q \in DOMAIN after : after[q] = dirRun.stamps[q]
          BY DEF Restrict
        <5> HIDE DEF before, after
        <5> QED
          BY <3>2, <4>1, <5>1, <5>2
      <4>3. dirRun.before[p] <= c /\ dirRun.before[p] \in Nat
        BY <2>5, <2>7, <4>1, StampingNatural DEF ToldAt, Moment, SecondSnapshot
      <4> QED
        BY <1>1, <2>5, <2>7, <4>1, <4>2, <4>3 DEF ToldAt, Vouched
    <3> QED
      BY <3>1, <3>2
  <2>11. Promoted(m)'
    <3>1. \A p \in Path : p \notin DOMAIN dirRun.rows => m[p] = NoValue
      BY <1>1, <2>7 DEF ToldAt, RowsAt, Walking, InEntry, NamesIn
    <3>2. dirRun'.rows = dirRun.rows /\ dirRun'.mode = dirRun.mode
          /\ dirRun'.degraded = dirRun.degraded /\ dirRun'.before = dirRun.before
      BY <2>2 DEF Only, RunFields
    <3> QED
      BY <2>10, <3>1, <3>2 DEF Promoted, Unwatched, Describes
  <2>12. EntryTrue(m, c)' /\ Vouched(m, c)'
    BY <2>2 DEF EntryTrue, InEntry, Vouched
  <2>13. Walked'
    BY <2>8, <2>9, <2>11, <2>12 DEF Walked, ToldAt
  <2> QED
    BY <2>3, <2>4, <2>6, <2>13
<1> QED
  BY <1>2, <1>3

-----------------------------------------------------------------------------
LEMMA DirectoryStays ==
  ASSUME DirectoryInv, UNCHANGED dirVars
  PROVE  DirectoryInv'
<1>1. tree' = tree /\ dirRun' = dirRun
  BY DEF dirVars
<1> USE DEF DirectoryInv
<1>2. IsTree' /\ IsRun' /\ FirstSnapshot' /\ SecondSnapshot'
  BY <1>1, TreeStays DEF IsRun, FirstSnapshot, SecondSnapshot, Kept, Listing, There
<1>3. ASSUME NEW m \in Nodes, NEW c \in Nat, ToldAt(m, c)
      PROVE  ToldAt(m, c)'
  <2>1. Moment(m, c)' /\ RowsAt(m, c)'
    BY <1>1, <1>3 DEF ToldAt, Moment, RowsAt, Changed, There, Aware, Describes
  <2>2. EntryTrue(m, c)'
    BY <1>1, <1>3 DEF ToldAt, EntryTrue, Next1, Changed, There, Aware
  <2>3. Vouched(m, c)' /\ Promoted(m)'
    BY <1>1, <1>3 DEF ToldAt, Vouched, Promoted, Unwatched, Describes
  <2> QED
    BY <2>1, <2>2, <2>3 DEF ToldAt
<1> QED
  BY <1>1, <1>2, <1>3 DEF Walked

LEMMA DirectorySteps ==
  ASSUME DirectoryInv, [DirectoryNext]_dirVars
  PROVE  DirectoryInv'
<1>1. CASE TreeChanges
  BY <1>1, TreeChangesKeeps
<1>2. CASE OpenPrevious \/ List \/ StampNext \/ Stamped \/ CountEntries \/ Walk
  BY <1>2, OpenPreviousKeeps, ListKeeps, StampNextKeeps, StampedKeeps, CountEntriesKeeps, WalkKeeps
<1>3. CASE StatEntry \/ ReadLink \/ CheckEntry \/ OpenEntry
  BY <1>3, StatEntryKeeps, ReadLinkKeeps, CheckEntryKeeps, OpenEntryKeeps
<1>4. CASE ReadFirst \/ ReadRest \/ RecheckEntry \/ WalkEnds \/ Compare
  BY <1>4, ReadFirstKeeps, ReadRestKeeps, RecheckEntryKeeps, WalkEndsKeeps, CompareKeeps
<1>5. CASE CancelRun
  BY <1>5, Ending DEF CancelRun, Ended
<1>6. CASE UNCHANGED dirVars
  BY <1>6, DirectoryStays
<1> QED
  BY <1>1, <1>2, <1>3, <1>4, <1>5, <1>6 DEF DirectoryNext, DirCommand

THEOREM DirectoryInvariant == DirectorySpec => []DirectoryInv
<1>1. DirectoryInv /\ [DirectoryNext]_dirVars => DirectoryInv'
  BY DirectorySteps
<1> QED
  BY <1>1, DirectoryStarts, PTL DEF DirectorySpec

\* A promoted index is the tree at one moment of the run, as processing it afresh
\* at that moment would have it, whatever changes while it is walked and whatever
\* the prior index holds.
THEOREM IndexIsPointInTime == DirectorySpec => []PointInTime
<1>1. DirectoryInv => PointInTime
  <2> SUFFICES ASSUME DirectoryInv, dirRun.step = "promoted"
               PROVE  \E m \in dirRun.moments : \A p \in Path :
                        IF p \in DOMAIN dirRun.rows
                        THEN Unwatched(p) \/ Describes(p, dirRun.rows[p], m[p])
                        ELSE m[p] = NoValue
    BY DEF PointInTime
  <2>1. dirRun.before # NoValue
    BY DEF DirectoryInv, FirstSnapshot, Ended
  <2>2. PICK m \in Nodes, c \in Nat : ToldAt(m, c)
    BY <2>1 DEF DirectoryInv, Walked, Ended
  <2> QED
    BY <2>2 DEF ToldAt, Moment, Promoted
<1> QED
  BY <1>1, DirectoryInvariant, PTL

-----------------------------------------------------------------------------
(***************************************************************************)
(* Archives.                                                               *)
(***************************************************************************)
\* A set of naturals has a least element.
LEMMA LeastNatural ==
  ASSUME NEW S \in SUBSET Nat, S # {}
  PROVE  \E m \in S : \A k \in S : m <= k
<1>1. PICK m \in S : \A k \in S : <<k, m>> \notin OpToRel(<, Nat)
  BY NatLessThanWellFounded, WFMin
<1>2. \A k \in S : ~(k < m)
  BY <1>1 DEF OpToRel
<1> QED
  BY <1>2

\* A set of positions that is not empty has a last one.
LEMMA LastPosition ==
  ASSUME NEW N \in Nat, NEW S \in SUBSET (1 .. N), S # {}
  PROVE  /\ Max(S) \in S
         /\ \A k \in S : k <= Max(S)
<1> DEFINE D == {d \in Nat : N - d \in S}
<1>1. D # {} /\ D \in SUBSET Nat
  <2>1. PICK k \in S : TRUE
    OBVIOUS
  <2>2. N - k \in Nat /\ N - (N - k) = k
    BY <2>1
  <2> QED
    BY <2>1, <2>2
<1>2. PICK d \in D : \A e \in D : d <= e
  <2> HIDE DEF D
  <2> QED
    BY <1>1, LeastNatural
<1>3. N - d \in S /\ d \in Nat
  BY <1>2
<1>4. ASSUME NEW k \in S PROVE N - d >= k
  <2>1. N - k \in Nat /\ N - (N - k) = k
    OBVIOUS
  <2>2. N - k \in D
    BY <2>1
  <2>3. d <= N - k
    <3> HIDE DEF D
    <3> QED
      BY <1>2, <2>2
  <2> QED
    BY <1>3, <2>1, <2>3
<1>5. \E k \in S : \A l \in S : k >= l
  BY <1>3, <1>4
<1>6. PICK k \in S : Max(S) = k /\ \A l \in S : k >= l
  BY <1>5 DEF Max
<1>7. \A l \in S : l <= k
  BY <1>6
<1> QED
  BY <1>6, <1>7

-----------------------------------------------------------------------------
(***************************************************************************)
(* What holds while the members are read: a row for each entry, in order.  *)
(***************************************************************************)
TarNames == DOMAIN Rendered
Rows ==
  [name : [text : TarNames, raw : TarNames \union {NoValue}], type : {"file"} \union LinkTypes,
   target : [text : TarNames \union {NoValue}, raw : TarNames \union {NoValue}],
   size : Nat \union {NoValue}, kind : RowKinds, hash : Bytes \union {NoValue}, flags : SUBSET RowFlags]

\* The row of a member.
IsRowOf(row, m) ==
  /\ row.name = Captured(NameOf(m))
  /\ "SHADOWED" \notin row.flags
  /\ m.type \in LinkTypes =>
       /\ row.type = m.type /\ row.target = Captured(m.target)
       /\ row.kind = "link" /\ row.hash = NoValue
  /\ m.type \in ContentTypes =>
       /\ row.type = "file"
       /\ m.pax.broken => "PAX_UNPARSED" \in row.flags
       /\ row.hash = NoValue =>
            tarRun.mode = "metadata-only" \/ row.flags \intersect {"READ_ERROR", "SPARSE"} # {}
       /\ row.hash # NoValue => row.hash = m.content /\ ~m.pax.sparse
       /\ row.kind = "text" /\ tarRun.mode = "full" => row.hash # NoValue

\* The k-th row is that of the member at of[k].
Ordered(of, rows, n) ==
  /\ of \in [1 .. Len(rows) -> Entries]
  /\ \A k \in 1 .. Len(rows) : of[k] <= n /\ IsRowOf(rows[k], archive[of[k]])
  /\ \A k, l \in 1 .. Len(rows) : k < l => of[k] < of[l]
  /\ \A i \in Entries : i <= n => \E k \in 1 .. Len(rows) : of[k] = i

WordCounts(h) == \A w \in DOMAIN h : h[w] \in Nat \X Nat
CountOf(h, w) == IF w \in DOMAIN h THEN h[w] ELSE <<0, 0>>

\* What is counted of a word and what is still buffered.
Counted(rows, w) ==
  /\ IsFiniteSet(Occurrences(rows, w))
  /\ CountOf(tarRun.freq, w)[1] + CountOf(tarRun.buffer, w)[1] = Cardinality(Occurrences(rows, w))
  /\ CountOf(tarRun.freq, w)[2] + CountOf(tarRun.buffer, w)[2] = Cardinality(Saying(rows, w))

AllWords == UNION {DOMAIN Words[c] : c \in Bytes}
Unparsed(rows) == {i \in DOMAIN rows : "PAX_UNPARSED" \in rows[i].flags}

Gathered ==
  tarRun.step = "members" =>
    /\ tarRun.at \in 1 .. Len(archive) + 1
    /\ \E of : Ordered(of, tarRun.rows, tarRun.at - 1)
    /\ tarRun.summary["unparsed"] = Cardinality(Unparsed(tarRun.rows))
    /\ tarRun.mode = "full" /\ tarRun.wordStats => \A w \in AllWords : Counted(tarRun.rows, w)

TarFields ==
  /\ tarRun = [step |-> tarRun.step, at |-> tarRun.at, mode |-> tarRun.mode,
               wordStats |-> tarRun.wordStats, rows |-> tarRun.rows, buffer |-> tarRun.buffer,
               freq |-> tarRun.freq, summary |-> tarRun.summary]
  /\ tarRun.rows \in Seq(Rows)
  /\ WordCounts(tarRun.buffer) /\ WordCounts(tarRun.freq)
  /\ tarRun.summary \in [Counters -> Nat]

ReadAsExtracted(m) ==
  m.type \in ContentTypes /\ m.content # NoValue /\ ~m.pax.sparse /\ ~m.pax.broken
    => m.leaves = m.content

IsArchive == archive \in Seq(ArchiveMember) /\ \A i \in DOMAIN archive : ReadAsExtracted(archive[i])

TarInv ==
  /\ IsArchive /\ TarFields /\ Gathered
  /\ tarRun.step \in {"complete", "promoted"} => AllTold /\ WordsTrue /\ RowsTrue

-----------------------------------------------------------------------------
LEMMA TarInitInv == TarInit => TarInv
<1> SUFFICES ASSUME TarInit PROVE TarInv
  OBVIOUS
<1>1. PICK i \in DOMAIN Archives : \E mode, wordStats :
        /\ archive \in Archives[i].members
        /\ tarRun = [step |-> "members", at |-> 1, mode |-> mode, wordStats |-> wordStats,
                     rows |-> <<>>, buffer |-> NoWords, freq |-> NoWords,
                     summary |-> [c \in Counters |-> 0]]
  BY DEF TarInit
<1>2. IsArchive
  <2>1. archive \in Seq(ArchiveMember) /\ \A m \in Range(archive) : ReadAsExtracted(m)
    BY <1>1, TarAssumption DEF ReadAsExtracted
  <2>2. \A j \in DOMAIN archive : archive[j] \in Range(archive)
    BY DEF Range
  <2> QED
    BY <2>1, <2>2 DEF IsArchive
<1>3. TarFields
  BY <1>1 DEF TarFields, NoWords, WordCounts
<1>4. Gathered
  <2>1. Len(archive) \in Nat
    BY <1>2 DEF IsArchive
  <2>2. Ordered([k \in 1 .. 0 |-> 0], <<>>, 0)
    <3>1. Entries \subseteq 1 .. Len(archive)
      BY <1>2 DEF Entries, IsArchive
    <3> QED
      BY <3>1 DEF Ordered
  <2>3. Unparsed(<<>>) = {} /\ \A w : Saying(<<>>, w) = {}
    BY DEF Unparsed, Saying
  <2>4. \A w : Occurrences(<<>>, w) = {}
    BY <2>3 DEF Occurrences
  <2>5. ASSUME NEW w PROVE Counted(<<>>, w)
    <3>1. CountOf(NoWords, w) = <<0, 0>>
      BY DEF CountOf, NoWords
    <3>2. tarRun.freq = NoWords /\ tarRun.buffer = NoWords
      BY <1>1
    <3>3. /\ CountOf(tarRun.freq, w)[1] = 0 /\ CountOf(tarRun.freq, w)[2] = 0
          /\ CountOf(tarRun.buffer, w)[1] = 0 /\ CountOf(tarRun.buffer, w)[2] = 0
      BY <3>1, <3>2
    <3>4. Saying(<<>>, w) = {} /\ Occurrences(<<>>, w) = {}
      BY <2>3, <2>4
    <3>5. IsFiniteSet({}) /\ Cardinality({}) = 0
      BY FS_EmptySet
    <3>6. /\ IsFiniteSet(Occurrences(<<>>, w)) /\ Cardinality(Occurrences(<<>>, w)) = 0
          /\ Cardinality(Saying(<<>>, w)) = 0
      BY <3>4, <3>5
    <3> QED
      BY <3>3, <3>6 DEF Counted
  <2>6. tarRun.summary["unparsed"] = 0
    BY <1>1 DEF Counters
  <2>7. tarRun.at = 1 /\ tarRun.rows = <<>>
    BY <1>1
  <2>8. \E of : Ordered(of, tarRun.rows, tarRun.at - 1)
    BY <2>2, <2>7
  <2>9. Cardinality(Unparsed(<<>>)) = 0
    BY <2>3, FS_EmptySet
  <2> QED
    BY <2>1, <2>5, <2>6, <2>7, <2>8, <2>9 DEF Gathered
<1> QED
  BY <1>1, <1>2, <1>3, <1>4 DEF TarInv

\* The counts of two tables of words.
LEMMA MergedCounts ==
  ASSUME NEW f, NEW g, WordCounts(f), WordCounts(g)
  PROVE  /\ WordCounts(Merged(f, g))
         /\ \A w : /\ CountOf(Merged(f, g), w)[1] = CountOf(f, w)[1] + CountOf(g, w)[1]
                   /\ CountOf(Merged(f, g), w)[2] = CountOf(f, w)[2] + CountOf(g, w)[2]
<1>1. \A h, w : WordCounts(h) => CountOf(h, w) \in Nat \X Nat
  BY DEF WordCounts, CountOf
<1>2. Merged(f, g) = [w \in DOMAIN f \union DOMAIN g |->
                        <<CountOf(f, w)[1] + CountOf(g, w)[1], CountOf(f, w)[2] + CountOf(g, w)[2]>>]
  BY DEF Merged, CountOf
<1> DEFINE m == Merged(f, g)
<1>3. \A w \in DOMAIN m :
        m[w] = <<CountOf(f, w)[1] + CountOf(g, w)[1], CountOf(f, w)[2] + CountOf(g, w)[2]>>
  BY <1>2
<1>4. WordCounts(m)
  BY <1>1, <1>3 DEF WordCounts
<1>5. ASSUME NEW w
      PROVE  /\ CountOf(m, w)[1] = CountOf(f, w)[1] + CountOf(g, w)[1]
             /\ CountOf(m, w)[2] = CountOf(f, w)[2] + CountOf(g, w)[2]
  <2>1. CASE w \in DOMAIN m
    BY <1>3, <2>1 DEF CountOf
  <2>2. CASE w \notin DOMAIN m
    BY <1>2, <2>2 DEF CountOf
  <2> QED
    BY <2>1, <2>2
<1> QED
  BY <1>4, <1>5

\* Words go from the buffer to the table, and those of one more text are added.
LEMMA WordsRecorded ==
  ASSUME NEW o, TarFields, o.hash \in Bytes, CountsWords(o)
  PROVE  /\ WordCounts(RecordWords(o).buffer) /\ WordCounts(RecordWords(o).freq)
         /\ \A w : LET says == w \in DOMAIN Words[o.hash] IN
              /\ CountOf(RecordWords(o).freq, w)[1] + CountOf(RecordWords(o).buffer, w)[1]
                   = CountOf(tarRun.freq, w)[1] + CountOf(tarRun.buffer, w)[1]
                       + (IF says THEN Words[o.hash][w] ELSE 0)
              /\ CountOf(RecordWords(o).freq, w)[2] + CountOf(RecordWords(o).buffer, w)[2]
                   = CountOf(tarRun.freq, w)[2] + CountOf(tarRun.buffer, w)[2]
                       + (IF says THEN 1 ELSE 0)
<1> DEFINE said == [w \in DOMAIN Words[o.hash] |-> <<Words[o.hash][w], 1>>]
           buffer == Merged(tarRun.buffer, said)
           r == RecordWords(o)
<1>1. WordCounts(said)
  BY TarAssumption DEF WordCounts
<1>2. \A h, w : WordCounts(h) => CountOf(h, w)[1] \in Nat /\ CountOf(h, w)[2] \in Nat
  BY DEF WordCounts, CountOf
<1>3. \A w : CountOf(said, w) = IF w \in DOMAIN Words[o.hash] THEN <<Words[o.hash][w], 1>> ELSE <<0, 0>>
  BY DEF CountOf
<1>4. WordCounts(NoWords) /\ \A w : CountOf(NoWords, w) = <<0, 0>>
  BY DEF WordCounts, CountOf, NoWords
<1>5. \/ r = [buffer |-> NoWords, freq |-> Merged(tarRun.freq, buffer)]
      \/ r = [buffer |-> buffer, freq |-> tarRun.freq]
  BY DEF RecordWords, AccumulateWords
<1> HIDE DEF said
<1>6. /\ WordCounts(buffer)
      /\ \A w : /\ CountOf(buffer, w)[1] = CountOf(tarRun.buffer, w)[1] + CountOf(said, w)[1]
                /\ CountOf(buffer, w)[2] = CountOf(tarRun.buffer, w)[2] + CountOf(said, w)[2]
  BY <1>1, MergedCounts DEF TarFields
<1> HIDE DEF buffer
<1>7. /\ WordCounts(Merged(tarRun.freq, buffer))
      /\ \A w :
           /\ CountOf(Merged(tarRun.freq, buffer), w)[1] = CountOf(tarRun.freq, w)[1] + CountOf(buffer, w)[1]
           /\ CountOf(Merged(tarRun.freq, buffer), w)[2] = CountOf(tarRun.freq, w)[2] + CountOf(buffer, w)[2]
  BY <1>6, MergedCounts DEF TarFields
<1> HIDE DEF r
<1>8. WordCounts(r.buffer) /\ WordCounts(r.freq)
  BY <1>4, <1>5, <1>6, <1>7 DEF TarFields
<1>9. ASSUME NEW w
      PROVE  /\ CountOf(r.freq, w)[1] + CountOf(r.buffer, w)[1]
                  = CountOf(tarRun.freq, w)[1] + CountOf(tarRun.buffer, w)[1] + CountOf(said, w)[1]
             /\ CountOf(r.freq, w)[2] + CountOf(r.buffer, w)[2]
                  = CountOf(tarRun.freq, w)[2] + CountOf(tarRun.buffer, w)[2] + CountOf(said, w)[2]
  <2>1. /\ CountOf(tarRun.freq, w)[1] \in Nat /\ CountOf(tarRun.freq, w)[2] \in Nat
        /\ CountOf(tarRun.buffer, w)[1] \in Nat /\ CountOf(tarRun.buffer, w)[2] \in Nat
        /\ CountOf(said, w)[1] \in Nat /\ CountOf(said, w)[2] \in Nat
    BY <1>1, <1>2 DEF TarFields
  <2>2. CASE r = [buffer |-> NoWords, freq |-> Merged(tarRun.freq, buffer)]
    BY <1>4, <1>6, <1>7, <2>1, <2>2
  <2>3. CASE r = [buffer |-> buffer, freq |-> tarRun.freq]
    BY <1>6, <2>1, <2>3
  <2> QED
    BY <1>5, <2>2, <2>3
<1> QED
  BY <1>3, <1>8, <1>9 DEF r

\* One more row says what its text says, in places of its own.
LEMMA OneMoreSaying ==
  ASSUME NEW rows \in Seq(Rows), NEW row \in Rows, NEW w
  PROVE  LET n == Len(rows) + 1
             new == IF row.kind = "text" /\ w \in DOMAIN Words[row.hash] THEN {n} ELSE {}
         IN /\ Saying(Append(rows, row), w) = Saying(rows, w) \union new
            /\ Occurrences(Append(rows, row), w)
                 = Occurrences(rows, w) \union UNION {{i} \X (1 .. Words[row.hash][w]) : i \in new}
            /\ Saying(rows, w) \subseteq 1 .. Len(rows)
            /\ \A e \in Occurrences(rows, w) : e[1] \in 1 .. Len(rows)
<1> DEFINE n == Len(rows) + 1
           all == Append(rows, row)
           new == IF row.kind = "text" /\ w \in DOMAIN Words[row.hash] THEN {n} ELSE {}
<1>1. /\ Len(rows) \in Nat /\ DOMAIN rows = 1 .. Len(rows) /\ DOMAIN all = 1 .. n
      /\ all[n] = row /\ \A i \in 1 .. Len(rows) : all[i] = rows[i]
  OBVIOUS
<1>2. \A i : i \in 1 .. n <=> i \in 1 .. Len(rows) \/ i = n
  BY <1>1
<1> HIDE DEF n, all
<1>3. Saying(rows, w) \subseteq 1 .. Len(rows)
  BY <1>1 DEF Saying
<1>4. Saying(all, w) = Saying(rows, w) \union new
  BY <1>1, <1>2 DEF Saying
<1>5. \A i \in Saying(rows, w) : all[i] = rows[i]
  BY <1>1, <1>3
<1>6. \A i \in new : all[i] = row
  BY <1>1
<1>7. Occurrences(all, w) = Occurrences(rows, w) \union UNION {{i} \X (1 .. Words[row.hash][w]) : i \in new}
  <2> HIDE DEF new
  <2>1. Occurrences(all, w) = UNION {{i} \X (1 .. Words[all[i].hash][w]) : i \in Saying(rows, w) \union new}
    BY <1>4 DEF Occurrences
  <2>2. {{i} \X (1 .. Words[all[i].hash][w]) : i \in Saying(rows, w) \union new}
          = {{i} \X (1 .. Words[rows[i].hash][w]) : i \in Saying(rows, w)}
              \union {{i} \X (1 .. Words[row.hash][w]) : i \in new}
    BY <1>5, <1>6
  <2> QED
    BY <2>1, <2>2 DEF Occurrences
<1>8. ASSUME NEW e \in Occurrences(rows, w) PROVE e[1] \in 1 .. Len(rows)
  <2>1. PICK i \in Saying(rows, w) : e \in {i} \X (1 .. Words[rows[i].hash][w])
    BY DEF Occurrences
  <2> QED
    BY <1>3, <2>1
<1> QED
  BY <1>3, <1>4, <1>7, <1>8 DEF n, all

LEMMA OneMoreCounted ==
  ASSUME NEW rows \in Seq(Rows), NEW row \in Rows, NEW w, IsFiniteSet(Occurrences(rows, w)),
         row.kind = "text" /\ w \in DOMAIN Words[row.hash] => Words[row.hash][w] \in Nat
  PROVE  LET says == row.kind = "text" /\ w \in DOMAIN Words[row.hash] IN
         /\ IsFiniteSet(Occurrences(Append(rows, row), w))
         /\ Cardinality(Occurrences(rows, w)) \in Nat /\ Cardinality(Saying(rows, w)) \in Nat
         /\ Cardinality(Occurrences(Append(rows, row), w))
              = Cardinality(Occurrences(rows, w)) + (IF says THEN Words[row.hash][w] ELSE 0)
         /\ Cardinality(Saying(Append(rows, row), w))
              = Cardinality(Saying(rows, w)) + (IF says THEN 1 ELSE 0)
<1> DEFINE n == Len(rows) + 1
           all == Append(rows, row)
           says == row.kind = "text" /\ w \in DOMAIN Words[row.hash]
           places == {n} \X (1 .. Words[row.hash][w])
<1>0. Len(rows) \in Nat
  OBVIOUS
<1>1. /\ Saying(rows, w) \subseteq 1 .. Len(rows)
      /\ \A e \in Occurrences(rows, w) : e[1] \in 1 .. Len(rows)
  BY OneMoreSaying
<1>2. IsFiniteSet(Saying(rows, w))
  <2>1. IsFiniteSet(1 .. Len(rows))
    BY <1>0, FS_Interval
  <2> QED
    BY <1>1, <2>1, FS_Subset
<1>3. Cardinality(Occurrences(rows, w)) \in Nat /\ Cardinality(Saying(rows, w)) \in Nat
  BY <1>2, FS_CardinalityType
<1>4. CASE says
  <2>1. /\ Saying(all, w) = Saying(rows, w) \union {n}
        /\ Occurrences(all, w) = Occurrences(rows, w) \union UNION {{i} \X (1 .. Words[row.hash][w]) : i \in {n}}
    BY <1>4, OneMoreSaying
  <2>2. UNION {{i} \X (1 .. Words[row.hash][w]) : i \in {n}} = places
    OBVIOUS
  <2>3. n \notin Saying(rows, w)
    BY <1>0, <1>1
  <2>4. Cardinality(Saying(all, w)) = Cardinality(Saying(rows, w)) + 1
    <3> HIDE DEF n, all
    <3> QED
      BY <1>2, <2>1, <2>3, FS_AddElement
  <2>5. Words[row.hash][w] \in Nat
    BY <1>4
  <2>6. IsFiniteSet(places) /\ Cardinality(places) = Words[row.hash][w]
    <3>1. IsFiniteSet({n}) /\ Cardinality({n}) = 1
      BY FS_Singleton
    <3>2. IsFiniteSet(1 .. Words[row.hash][w]) /\ Cardinality(1 .. Words[row.hash][w]) = Words[row.hash][w]
      <4> DEFINE k == Words[row.hash][w]
      <4>1. k \in Nat
        BY <2>5
      <4> HIDE DEF k
      <4>2. IsFiniteSet(1 .. k) /\ Cardinality(1 .. k) = k
        <5>1. IsFiniteSet(1 .. k) /\ Cardinality(1 .. k) = IF 1 > k THEN 0 ELSE k - 1 + 1
          <6>1. 1 \in Int /\ k \in Int
            BY <4>1
          <6> QED
            BY <6>1, FS_Interval
        <5> QED
          BY <4>1, <5>1
      <4> QED
        BY <4>2 DEF k
    <3>3. IsFiniteSet(places) /\ Cardinality(places) = 1 * Words[row.hash][w]
      <4> HIDE DEF n
      <4> QED
        BY <3>1, <3>2, FS_Product, ZenonT(40)
    <3> QED
      BY <2>5, <3>3
  <2>7. Occurrences(rows, w) \intersect places = {}
    BY <1>0, <1>1
  <2>8. /\ IsFiniteSet(Occurrences(rows, w) \union places)
        /\ Cardinality(Occurrences(rows, w) \union places)
             = Cardinality(Occurrences(rows, w)) + Cardinality(places)
    <3> HIDE DEF places
    <3>1. Cardinality(Occurrences(rows, w) \intersect places) = 0
      BY <2>7, FS_EmptySet
    <3>2. /\ IsFiniteSet(Occurrences(rows, w) \union places)
          /\ Cardinality(Occurrences(rows, w) \union places)
               = Cardinality(Occurrences(rows, w)) + Cardinality(places) - 0
      BY <2>6, <3>1, FS_Union
    <3>3. Cardinality(places) \in Nat
      BY <2>5, <2>6
    <3> QED
      BY <1>3, <3>2, <3>3
  <2>9. Occurrences(all, w) = Occurrences(rows, w) \union places
    BY <2>1, <2>2
  <2> HIDE DEF all, places, n
  <2> QED
    BY <1>3, <1>4, <2>4, <2>6, <2>8, <2>9 DEF all
<1>5. CASE ~says
  <2> DEFINE new == IF says THEN {n} ELSE {}
  <2>0. new = {}
    BY <1>5
  <2>1. /\ Saying(all, w) = Saying(rows, w) \union new
        /\ Occurrences(all, w) = Occurrences(rows, w) \union UNION {{i} \X (1 .. Words[row.hash][w]) : i \in new}
    BY OneMoreSaying
  <2>2. Saying(all, w) = Saying(rows, w) /\ Occurrences(all, w) = Occurrences(rows, w)
    <3> HIDE DEF new, all
    <3> QED
      BY <2>0, <2>1
  <2> QED
    BY <1>3, <1>5, <2>2
<1> QED
  BY <1>4, <1>5

-----------------------------------------------------------------------------
(***************************************************************************)
(* The steps of the run.                                                   *)
(***************************************************************************)
LEMMA EntriesAre ==
  ASSUME IsArchive
  PROVE  /\ Len(archive) \in Nat /\ DOMAIN archive = 1 .. Len(archive)
         /\ Entries \subseteq 1 .. Len(archive)
         /\ \A i \in 1 .. Len(archive) : archive[i] \in ArchiveMember /\ ReadAsExtracted(archive[i])
<1>1. Len(archive) \in Nat /\ DOMAIN archive = 1 .. Len(archive)
  BY DEF IsArchive
<1> QED
  BY <1>1 DEF IsArchive, Entries

\* A member that is no entry needs no row; an entry has one more.
LEMMA OrderedSkips ==
  ASSUME IsArchive, NEW of, NEW rows \in Seq(Rows), NEW n \in Nat, Ordered(of, rows, n),
         n + 1 \notin Entries
  PROVE  Ordered(of, rows, n + 1)
<1>1. \A i \in Entries : i <= n + 1 => i <= n
  BY EntriesAre
<1>2. \A k \in 1 .. Len(rows) : of[k] \in Nat
  BY EntriesAre DEF Ordered
<1>3. \A k \in 1 .. Len(rows) : of[k] <= n + 1
  BY <1>2 DEF Ordered
<1> QED
  BY <1>1, <1>3 DEF Ordered

LEMMA OrderedGrows ==
  ASSUME IsArchive, NEW of, NEW rows \in Seq(Rows), NEW n \in Nat, Ordered(of, rows, n),
         n + 1 \in Entries, NEW row \in Rows, IsRowOf(row, archive[n + 1])
  PROVE  \E f : Ordered(f, Append(rows, row), n + 1)
<1> DEFINE N == Len(rows)
           all == Append(rows, row)
           f == [k \in 1 .. N + 1 |-> IF k = N + 1 THEN n + 1 ELSE of[k]]
<1>0. N \in Nat /\ Entries \subseteq Nat
  BY EntriesAre
<1>1. /\ Len(all) = N + 1 /\ all[N + 1] = row
      /\ \A k \in 1 .. N : all[k] = rows[k]
  OBVIOUS
<1>2. \A k : k \in 1 .. N + 1 <=> k \in 1 .. N \/ k = N + 1
  BY <1>0
<1>3. f[N + 1] = n + 1 /\ \A k \in 1 .. N : f[k] = of[k]
  BY <1>0
<1>4. f \in [1 .. N + 1 -> Entries]
  BY <1>2 DEF Ordered
<1>5. f = [k \in 1 .. N + 1 |-> f[k]]
  OBVIOUS
<1> HIDE DEF f, all, N
<1>6. /\ of \in [1 .. N -> Entries]
      /\ \A k \in 1 .. N : of[k] <= n /\ IsRowOf(rows[k], archive[of[k]])
      /\ \A k, l \in 1 .. N : k < l => of[k] < of[l]
      /\ \A i \in Entries : i <= n => \E k \in 1 .. N : of[k] = i
  BY DEF Ordered, N
<1>7. ASSUME NEW k \in 1 .. N + 1 PROVE f[k] <= n + 1 /\ IsRowOf(all[k], archive[f[k]])
  <2>1. CASE k = N + 1
    BY <1>1, <1>3, <2>1
  <2>2. CASE k \in 1 .. N
    <3>1. f[k] = of[k] /\ of[k] \in Nat /\ of[k] <= n
      BY <1>0, <1>3, <1>6, <2>2
    <3> QED
      BY <1>1, <1>6, <2>2, <3>1
  <2> QED
    BY <1>2, <2>1, <2>2
<1>8. ASSUME NEW k \in 1 .. N + 1, NEW l \in 1 .. N + 1, k < l PROVE f[k] < f[l]
  <2>1. k \in 1 .. N
    BY <1>0, <1>8
  <2>2. of[k] \in Nat /\ of[k] <= n
    BY <1>0, <1>6, <2>1
  <2> QED
    BY <1>2, <1>3, <1>6, <1>8, <2>1, <2>2
<1>9. ASSUME NEW i \in Entries, i <= n + 1 PROVE \E k \in 1 .. N + 1 : f[k] = i
  <2>1. i = n + 1 \/ i <= n
    BY <1>0, <1>9
  <2> QED
    BY <1>2, <1>3, <1>6, <2>1
<1>10. Ordered(f, all, n + 1)
  BY <1>1, <1>4, <1>7, <1>8, <1>9 DEF Ordered
<1> QED
  BY <1>10 DEF all

LEMMA OneMoreUnparsed ==
  ASSUME NEW rows \in Seq(Rows), NEW row \in Rows
  PROVE  /\ Cardinality(Unparsed(rows)) \in Nat
         /\ Cardinality(Unparsed(Append(rows, row)))
              = Cardinality(Unparsed(rows)) + (IF "PAX_UNPARSED" \in row.flags THEN 1 ELSE 0)
<1> DEFINE n == Len(rows) + 1
           all == Append(rows, row)
<1>1. /\ Len(rows) \in Nat /\ DOMAIN rows = 1 .. Len(rows) /\ DOMAIN all = 1 .. n
      /\ all[n] = row /\ \A i \in 1 .. Len(rows) : all[i] = rows[i]
  OBVIOUS
<1>2. \A i : i \in 1 .. n <=> i \in 1 .. Len(rows) \/ i = n
  BY <1>1
<1>3. n \notin 1 .. Len(rows)
  BY <1>1
<1> HIDE DEF n, all
<1>4. Unparsed(rows) \subseteq 1 .. Len(rows)
  BY <1>1 DEF Unparsed
<1>5. IsFiniteSet(Unparsed(rows))
  <2>1. IsFiniteSet(1 .. Len(rows))
    BY <1>1, FS_Interval
  <2> QED
    BY <1>4, <2>1, FS_Subset
<1>6. Cardinality(Unparsed(rows)) \in Nat
  BY <1>5, FS_CardinalityType
<1>7. CASE "PAX_UNPARSED" \in row.flags
  <2>1. Unparsed(all) = Unparsed(rows) \union {n} /\ n \notin Unparsed(rows)
    BY <1>1, <1>2, <1>3, <1>4, <1>7 DEF Unparsed
  <2>2. Cardinality(Unparsed(all)) = Cardinality(Unparsed(rows)) + 1
    BY <1>5, <2>1, FS_AddElement
  <2> QED
    BY <1>6, <1>7, <2>2 DEF all
<1>8. CASE "PAX_UNPARSED" \notin row.flags
  <2>1. Unparsed(all) = Unparsed(rows)
    BY <1>1, <1>2, <1>8 DEF Unparsed
  <2> QED
    BY <1>6, <1>8, <2>1 DEF all
<1> QED
  BY <1>7, <1>8

\* What does not concern the rows.
LEMMA SameMembers ==
  ASSUME UNCHANGED archive, tarRun'.mode = tarRun.mode
  PROVE  /\ IsArchive => IsArchive'
         /\ \A of, rows, n : Ordered(of, rows, n) => Ordered(of, rows, n)'
<1>1. Entries' = Entries
  BY DEF Entries
<1>2. \A row, m : IsRowOf(row, m)' = IsRowOf(row, m)
  BY DEF IsRowOf
<1> QED
  BY <1>1, <1>2 DEF Ordered, IsArchive

\* A row is recorded, and the words of its text are.
LEMMA RecordKeeps ==
  ASSUME TarInv, AtMember(ContentTypes \union LinkTypes), NEW row \in Rows, NEW o, NEW sparse,
         Record(row, o, sparse), IsRowOf(row, Member),
         o # NoValue => o.kind = row.kind /\ o.hash = row.hash,
         o = NoValue => row.kind # "text" \/ tarRun.mode # "full"
  PROVE  TarInv'
<1> DEFINE words == IF o = NoValue THEN [buffer |-> tarRun.buffer, freq |-> tarRun.freq]
                    ELSE RecordWords(o)
           counts == [c \in DOMAIN tarRun.summary |->
                        IF c \in Told(row, o, sparse) THEN tarRun.summary[c] + 1 ELSE tarRun.summary[c]]
<1>0. /\ IsArchive /\ TarFields /\ UNCHANGED archive /\ tarRun.step = "members"
      /\ tarRun.at <= Len(archive) /\ Member.type \in ContentTypes \union LinkTypes
  BY DEF TarInv, AtMember
<1>a. PICK all, n : all = Append(tarRun.rows, row) /\ n = tarRun.at
  OBVIOUS
<1>1. tarRun' = [tarRun EXCEPT !.at = tarRun.at + 1, !.rows = all,
                   !.buffer = words.buffer, !.freq = words.freq, !.summary = counts]
  BY <1>a DEF Record
<1> HIDE DEF words, counts
<1>2. /\ tarRun' = [step |-> "members", at |-> tarRun.at + 1, mode |-> tarRun.mode,
                    wordStats |-> tarRun.wordStats, rows |-> all,
                    buffer |-> words.buffer, freq |-> words.freq, summary |-> counts]
  BY <1>0, <1>1 DEF TarFields
<1>3. /\ tarRun'.step = "members" /\ tarRun'.at = tarRun.at + 1 /\ tarRun'.mode = tarRun.mode
      /\ tarRun'.wordStats = tarRun.wordStats /\ tarRun'.rows = all
      /\ tarRun'.buffer = words.buffer /\ tarRun'.freq = words.freq /\ tarRun'.summary = counts
  BY <1>2
<1>4. /\ tarRun.at \in 1 .. Len(archive) + 1 /\ Len(archive) \in Nat
      /\ \E of : Ordered(of, tarRun.rows, tarRun.at - 1)
      /\ tarRun.summary["unparsed"] = Cardinality(Unparsed(tarRun.rows))
      /\ tarRun.mode = "full" /\ tarRun.wordStats => \A w \in AllWords : Counted(tarRun.rows, w)
  BY <1>0, EntriesAre DEF TarInv, Gathered
<1>5. /\ counts \in [Counters -> Nat]
      /\ counts["unparsed"] = Cardinality(Unparsed(all))
  <2>1. tarRun.summary \in [Counters -> Nat] /\ "unparsed" \in Counters /\ tarRun.rows \in Seq(Rows)
    BY <1>0 DEF TarFields, Counters
  <2>2. counts \in [Counters -> Nat]
    BY <2>1 DEF counts
  <2>3. "unparsed" \in Told(row, o, sparse) <=> "PAX_UNPARSED" \in row.flags
    BY DEF Told, Counters
  <2>4. counts["unparsed"] = tarRun.summary["unparsed"] + (IF "PAX_UNPARSED" \in row.flags THEN 1 ELSE 0)
    BY <2>1, <2>3 DEF counts
  <2> QED
    BY <1>a, <1>4, <2>1, <2>2, <2>4, OneMoreUnparsed
<1>6. \E of : Ordered(of, all, n)
  <2>1. PICK of : Ordered(of, tarRun.rows, tarRun.at - 1)
    BY <1>4
  <2>2. tarRun.at - 1 \in Nat /\ (tarRun.at - 1) + 1 = tarRun.at
    BY <1>4
  <2>3. tarRun.at \in Entries
    BY <1>0, <1>4, EntriesAre DEF Entries, Member
  <2>4. tarRun.rows \in Seq(Rows) /\ IsRowOf(row, archive[tarRun.at])
    BY <1>0 DEF TarFields, Member
  <2>5. \E f : Ordered(f, Append(tarRun.rows, row), (tarRun.at - 1) + 1)
    BY <1>0, <2>1, <2>2, <2>3, <2>4, OrderedGrows
  <2> QED
    BY <1>a, <2>2, <2>5
<1>7. WordCounts(words.buffer) /\ WordCounts(words.freq)
  <2>1. CASE words = [buffer |-> tarRun.buffer, freq |-> tarRun.freq]
    BY <1>0, <2>1 DEF TarFields
  <2>2. CASE words = RecordWords(o) /\ o # NoValue /\ CountsWords(o)
    <3>1. o.hash \in Bytes
      <4>1. row.hash # NoValue
        BY <1>0, <2>2 DEF IsRowOf, CountsWords, ContentTypes, LinkTypes
      <4> QED
        BY <2>2, <4>1 DEF Rows
    <3> QED
      BY <1>0, <2>2, <3>1, WordsRecorded
  <2>3. CASE words = RecordWords(o) /\ ~CountsWords(o)
    BY <2>1, <2>3 DEF RecordWords
  <2> QED
    BY <2>1, <2>2, <2>3 DEF words
<1>8. ASSUME tarRun.mode = "full", tarRun.wordStats, NEW w \in AllWords
      PROVE  Counted(tarRun.rows, w)'
  <2> DEFINE says == row.kind = "text" /\ w \in DOMAIN Words[row.hash]
  <2>1. /\ IsFiniteSet(Occurrences(tarRun.rows, w))
        /\ CountOf(tarRun.freq, w)[1] + CountOf(tarRun.buffer, w)[1] = Cardinality(Occurrences(tarRun.rows, w))
        /\ CountOf(tarRun.freq, w)[2] + CountOf(tarRun.buffer, w)[2] = Cardinality(Saying(tarRun.rows, w))
    BY <1>4, <1>8 DEF Counted
  <2>2. row.kind = "text" => row.hash \in Bytes
    <3>1. row.kind = "text" => row.hash # NoValue
      BY <1>0, <1>8 DEF IsRowOf
    <3> QED
      BY <3>1 DEF Rows
  <2>3. ASSUME row.kind = "text", w \in DOMAIN Words[row.hash] PROVE Words[row.hash][w] \in Nat
    BY <2>2, <2>3, TarAssumption
  <2>4. /\ IsFiniteSet(Occurrences(all, w))
        /\ Cardinality(Occurrences(tarRun.rows, w)) \in Nat /\ Cardinality(Saying(tarRun.rows, w)) \in Nat
        /\ Cardinality(Occurrences(all, w))
             = Cardinality(Occurrences(tarRun.rows, w)) + (IF says THEN Words[row.hash][w] ELSE 0)
        /\ Cardinality(Saying(all, w)) = Cardinality(Saying(tarRun.rows, w)) + (IF says THEN 1 ELSE 0)
    BY <1>0, <1>a, <2>1, <2>3, OneMoreCounted DEF TarFields
  <2>5. Saying(tarRun.rows, w)' = Saying(all, w) /\ Occurrences(tarRun.rows, w)' = Occurrences(all, w)
    <3>1. Saying(tarRun.rows, w)' = Saying(all, w)
      BY <1>3 DEF Saying
    <3> QED
      BY <1>3, <3>1 DEF Occurrences
  <2>6. /\ CountOf(tarRun.freq, w)' = CountOf(words.freq, w)
        /\ CountOf(tarRun.buffer, w)' = CountOf(words.buffer, w)
    BY <1>3 DEF CountOf
  <2>7. CASE row.kind = "text"
    <3>1. words = RecordWords(o) /\ o.hash = row.hash /\ o.hash \in Bytes /\ CountsWords(o)
      BY <1>8, <2>2, <2>7 DEF words, CountsWords
    <3>2. /\ CountOf(words.freq, w)[1] + CountOf(words.buffer, w)[1]
               = CountOf(tarRun.freq, w)[1] + CountOf(tarRun.buffer, w)[1]
                   + (IF w \in DOMAIN Words[row.hash] THEN Words[row.hash][w] ELSE 0)
          /\ CountOf(words.freq, w)[2] + CountOf(words.buffer, w)[2]
               = CountOf(tarRun.freq, w)[2] + CountOf(tarRun.buffer, w)[2]
                   + (IF w \in DOMAIN Words[row.hash] THEN 1 ELSE 0)
      BY <1>0, <3>1, WordsRecorded
    <3>3. /\ CountOf(words.freq, w)[1] + CountOf(words.buffer, w)[1] = Cardinality(Occurrences(all, w))
          /\ CountOf(words.freq, w)[2] + CountOf(words.buffer, w)[2] = Cardinality(Saying(all, w))
      BY <2>1, <2>4, <2>7, <3>2
    <3> QED
      BY <2>4, <2>5, <2>6, <3>3 DEF Counted
  <2>8. CASE row.kind # "text"
    <3>1. words.freq = tarRun.freq /\ words.buffer = tarRun.buffer
      BY <2>8 DEF words, RecordWords, CountsWords
    <3>2. /\ CountOf(words.freq, w)[1] + CountOf(words.buffer, w)[1] = Cardinality(Occurrences(all, w))
          /\ CountOf(words.freq, w)[2] + CountOf(words.buffer, w)[2] = Cardinality(Saying(all, w))
      BY <2>1, <2>4, <2>8, <3>1
    <3> QED
      BY <2>4, <2>5, <2>6, <3>2 DEF Counted
  <2> QED
    BY <2>7, <2>8
<1>9. TarFields'
  <2>1. Append(tarRun.rows, row) \in Seq(Rows)
    BY <1>0 DEF TarFields
  <2>2. tarRun' = [step |-> tarRun'.step, at |-> tarRun'.at, mode |-> tarRun'.mode,
                   wordStats |-> tarRun'.wordStats, rows |-> tarRun'.rows, buffer |-> tarRun'.buffer,
                   freq |-> tarRun'.freq, summary |-> tarRun'.summary]
    BY <1>2, <1>3
  <2> QED
    BY <1>a, <1>3, <1>5, <1>7, <2>1, <2>2 DEF TarFields, WordCounts
<1>10. Gathered'
  <2>1. tarRun'.at \in 1 .. Len(archive) + 1 /\ tarRun'.at - 1 = n
    BY <1>0, <1>a, <1>3, <1>4
  <2>2. PICK of : Ordered(of, all, n)
    BY <1>6
  <2>3. Ordered(of, all, n)'
    BY <1>0, <1>3, <2>2, SameMembers
  <2>4. (\E f : Ordered(f, tarRun.rows, tarRun.at - 1))'
    BY <1>3, <2>1, <2>3
  <2>5. tarRun'.summary["unparsed"] = Cardinality(Unparsed(tarRun'.rows))
    BY <1>3, <1>5
  <2> QED
    BY <1>0, <1>3, <1>8, <2>1, <2>4, <2>5 DEF Gathered
<1>11. IsArchive'
  BY <1>0, <1>3, SameMembers
<1> QED
  BY <1>3, <1>9, <1>10, <1>11 DEF TarInv

\* The types of what rows are made of.
LEMMA CapturedText ==
  /\ \A n \in TarNames : Captured(n) \in [text : TarNames, raw : TarNames \union {NoValue}]
  /\ \A n \in TarNames \union {NoValue} : Captured(n) \in [text : TarNames \union {NoValue}, raw : TarNames \union {NoValue}]
  /\ \A n \in TarNames : /\ Captured(n).text = Rendered[n]
                      /\ n = IF Captured(n).raw = NoValue THEN Captured(n).text ELSE Captured(n).raw
  /\ Captured(NoValue).text = NoValue
<1>1. \A n \in TarNames : Rendered[n] \in TarNames /\ n # NoValue
  BY TarAssumption DEF TarNames
<1>2. ASSUME NEW n \in TarNames
      PROVE  /\ Captured(n).text = Rendered[n]
             /\ n = IF Captured(n).raw = NoValue THEN Captured(n).text ELSE Captured(n).raw
  <2>1. Captured(n) = [text |-> Rendered[n], raw |-> IF Rendered[n] = n THEN NoValue ELSE n]
    BY <1>1 DEF Captured
  <2> QED
    BY <1>1, <2>1
<1> QED
  BY <1>1, <1>2 DEF Captured

Outcomes == [hash : Bytes \union {NoValue}, kind : RowKinds, flags : SUBSET RowFlags]

LEMMA FreshOutcome ==
  ASSUME NEW p, NEW c \in Bytes
  PROVE  /\ Fresh(p, c) \in Outcomes /\ Fresh(p, c).hash = c
         /\ "SHADOWED" \notin Fresh(p, c).flags
<1> DEFINE o == Fresh(p, c)
<1>1. PICK over \in BOOLEAN :
        \/ o = Outcome(c, "empty", {})
        \/ o = Outcome(c, "image", IF over THEN {"IMAGE_OVER_CAP"}
                                   ELSE IF c \in Decodes THEN {} ELSE {"DECODE_FAILED"})
        \/ Media[p] \in {"heic", "raw", "video"} /\ o = Outcome(c, MediaKind(p), {})
        \/ o = Outcome(c, "binary", {})
        \/ o = Outcome(c, "text", IF over THEN {"FTS_TRUNCATED"} ELSE {})
  BY DEF Fresh
<1>2. PICK kind \in RowKinds, flags \in SUBSET {"IMAGE_OVER_CAP", "DECODE_FAILED", "FTS_TRUNCATED"} :
        o = Outcome(c, kind, flags)
  <2>1. Media[p] \in {"heic", "raw", "video"} => MediaKind(p) \in RowKinds
    BY DEF MediaKind, RowKinds
  <2> HIDE DEF o
  <2> QED
    BY <1>1, <2>1 DEF RowKinds
<1> HIDE DEF o
<1>3. o \in Outcomes /\ o.hash = c /\ "SHADOWED" \notin o.flags
  BY <1>2 DEF Outcome, Outcomes, RowFlags
<1> QED
  BY <1>3 DEF o

\* A member has its name.
LEMMA MemberName ==
  ASSUME NEW m \in ArchiveMember
  PROVE  /\ NameOf(m) \in TarNames /\ m.path \in TarNames /\ m.target \in TarNames \union {NoValue}
         /\ m.type \in ContentTypes => NameOf(m) = RealName(m) /\ RealSize(m) \in Nat
         /\ m.type \in LinkTypes => NameOf(m) = m.path
         /\ m.content \in Bytes \union {NoValue} /\ m.size \in Nat
         /\ ContentTypes \intersect LinkTypes = {}
<1>1. /\ m.path \in TarNames /\ m.target \in TarNames \union {NoValue} /\ m.size \in Nat
      /\ m.content \in Bytes \union {NoValue}
      /\ m.pax.name \in TarNames \union {NoValue} /\ m.pax.size \in Nat \union {NoValue}
  BY DEF ArchiveMember, TarNames
<1> QED
  BY <1>1 DEF NameOf, RealName, RealSize, ContentTypes, LinkTypes

LEMMA LinkKeeps == TarInv /\ LinkMember => TarInv'
<1> SUFFICES ASSUME TarInv, LinkMember PROVE TarInv'
  OBVIOUS
<1> DEFINE m == Member
           row == TarRow(m.path, m.type, m.target, 0, Outcome(NoValue, "link", {}))
<1>1. /\ AtMember(LinkTypes) /\ Record(row, NoValue, FALSE)
      /\ AtMember(ContentTypes \union LinkTypes)
  BY DEF LinkMember, AtMember
<1>2. m \in ArchiveMember /\ m.type \in LinkTypes
  BY <1>1, EntriesAre DEF TarInv, Gathered, AtMember, Member
<1> HIDE DEF m
<1>3. row = [name |-> Captured(m.path), type |-> m.type, target |-> Captured(m.target), size |-> 0,
             kind |-> "link", hash |-> NoValue, flags |-> {}]
  BY DEF TarRow, Outcome
<1>4. /\ Captured(m.path) \in [text : TarNames, raw : TarNames \union {NoValue}]
      /\ Captured(m.target) \in [text : TarNames \union {NoValue}, raw : TarNames \union {NoValue}]
  BY <1>2, MemberName, CapturedText
<1>5. row \in Rows
  BY <1>2, <1>3, <1>4 DEF Rows, RowKinds
<1>6. IsRowOf(row, m)
  BY <1>2, <1>3, MemberName DEF IsRowOf
<1>7. row.kind = "link"
  BY <1>3
<1> HIDE DEF row
<1> QED
  BY <1>1, <1>5, <1>6, <1>7, RecordKeeps DEF m

LEMMA UnreadKeeps == TarInv /\ UnreadMember => TarInv'
<1> SUFFICES ASSUME TarInv, UnreadMember PROVE TarInv'
  OBVIOUS
<1> DEFINE m == Member
           kind == IF tarRun.mode = "metadata-only"
                   THEN MetadataKind(Rendered[RealName(m)], RealSize(m)) ELSE "binary"
           row == TarRow(RealName(m), "file", NoValue, RealSize(m), Outcome(NoValue, kind, PaxFlags(m)))
<1>1. /\ AtMember(ContentTypes) /\ Record(row, NoValue, m.pax.sparse)
      /\ AtMember(ContentTypes \union LinkTypes)
      /\ tarRun.mode = "metadata-only" \/ m.pax.sparse
  BY DEF UnreadMember, AtMember
<1>2. m \in ArchiveMember /\ m.type \in ContentTypes
  BY <1>1, EntriesAre DEF TarInv, Gathered, AtMember, Member
<1> HIDE DEF m
<1>3. row = [name |-> Captured(NameOf(m)), type |-> "file", target |-> Captured(NoValue),
             size |-> RealSize(m), kind |-> kind, hash |-> NoValue, flags |-> PaxFlags(m)]
  BY <1>2, MemberName DEF TarRow, Outcome
<1>4. /\ Captured(NameOf(m)) \in [text : TarNames, raw : TarNames \union {NoValue}]
      /\ Captured(NoValue) \in [text : TarNames \union {NoValue}, raw : TarNames \union {NoValue}]
  BY <1>2, MemberName, CapturedText
<1>5. kind \in RowKinds
  <2>1. NameOf(m) \in TarNames /\ NameOf(m) = RealName(m)
    BY <1>2, MemberName
  <2>2. Media[Rendered[RealName(m)]] \in {"image", "heic", "raw", "video", "other"}
    BY <2>1, TarAssumption DEF TarNames
  <2> QED
    BY <2>2 DEF MetadataKind, MediaKind, RowKinds
<1>6. tarRun.mode # "metadata-only" => kind = "binary"
  OBVIOUS
<1> HIDE DEF kind
<1>7. PaxFlags(m) \in SUBSET RowFlags /\ "SHADOWED" \notin PaxFlags(m)
  BY DEF PaxFlags, RowFlags
<1>8. RealSize(m) \in Nat
  BY <1>2, MemberName
<1>9. row \in Rows
  BY <1>3, <1>4, <1>5, <1>7, <1>8 DEF Rows
<1>10. m.pax.broken => "PAX_UNPARSED" \in PaxFlags(m)
  BY DEF PaxFlags
<1>11. tarRun.mode = "metadata-only" \/ "SPARSE" \in PaxFlags(m)
  BY <1>1 DEF PaxFlags
<1>12. /\ row.name = Captured(NameOf(m)) /\ row.type = "file" /\ row.hash = NoValue
       /\ row.flags = PaxFlags(m) /\ row.kind = kind
  BY <1>3
<1>13. row.kind # "text" \/ tarRun.mode # "full"
  BY <1>6, <1>12
<1> HIDE DEF row
<1>14. m.type \notin LinkTypes
  BY <1>2, MemberName
<1>15. IsRowOf(row, m)
  BY <1>2, <1>7, <1>10, <1>11, <1>12, <1>13, <1>14 DEF IsRowOf
<1> QED
  BY <1>1, <1>9, <1>13, <1>15, RecordKeeps DEF m

LEMMA ReadKeeps == TarInv /\ ReadMember => TarInv'
<1> SUFFICES ASSUME TarInv, ReadMember PROVE TarInv'
  OBVIOUS
<1> DEFINE m == Member
           o == IF m.content = NoValue THEN ReadFailed ELSE Fresh(Rendered[m.path], m.content)
           row == TarRow(m.path, "file", NoValue, m.size, [o EXCEPT !.flags = o.flags \union PaxFlags(m)])
<1>1. /\ AtMember(ContentTypes) /\ Record(row, o, FALSE) /\ AtMember(ContentTypes \union LinkTypes)
      /\ ~m.pax.sparse
  BY DEF ReadMember, AtMember
<1>2. m \in ArchiveMember /\ m.type \in ContentTypes
  BY <1>1, EntriesAre DEF TarInv, Gathered, AtMember, Member
<1> HIDE DEF m
<1>3. /\ o \in Outcomes /\ "SHADOWED" \notin o.flags
      /\ o.hash = NoValue => "READ_ERROR" \in o.flags /\ o.kind # "text"
      /\ o.hash # NoValue => o.hash = m.content
  <2>1. CASE m.content = NoValue
    BY <2>1 DEF ReadFailed, Outcome, Outcomes, RowKinds, RowFlags
  <2>2. CASE m.content # NoValue
    <3>1. m.content \in Bytes
      BY <1>2, <2>2, MemberName
    <3> QED
      BY <2>2, <3>1, FreshOutcome, TarAssumption
  <2> QED
    BY <2>1, <2>2
<1>4. o # NoValue
  BY <1>3, TarAssumption DEF Outcomes
<1> HIDE DEF o
<1>5. row = [name |-> Captured(NameOf(m)), type |-> "file", target |-> Captured(NoValue),
             size |-> m.size, kind |-> o.kind, hash |-> o.hash, flags |-> o.flags \union PaxFlags(m)]
  <2>1. NameOf(m) = m.path
    BY <1>1, <1>2, MemberName DEF RealName
  <2> QED
    BY <1>3, <2>1 DEF TarRow, Outcomes
<1>6. /\ Captured(NameOf(m)) \in [text : TarNames, raw : TarNames \union {NoValue}]
      /\ Captured(NoValue) \in [text : TarNames \union {NoValue}, raw : TarNames \union {NoValue}]
      /\ m.size \in Nat
  BY <1>2, MemberName, CapturedText
<1>7. PaxFlags(m) \in SUBSET RowFlags /\ "SHADOWED" \notin PaxFlags(m)
  BY DEF PaxFlags, RowFlags
<1>8. row \in Rows
  BY <1>3, <1>5, <1>6, <1>7, SMTT(30) DEF Rows, Outcomes
<1>9. m.pax.broken => "PAX_UNPARSED" \in PaxFlags(m)
  BY DEF PaxFlags
<1>10. /\ row.name = Captured(NameOf(m)) /\ row.type = "file" /\ row.hash = o.hash
       /\ row.flags = o.flags \union PaxFlags(m) /\ row.kind = o.kind
  BY <1>5
<1> HIDE DEF row
<1>11. m.type \notin LinkTypes
  BY <1>2, MemberName
<1>12. IsRowOf(row, m)
  BY <1>1, <1>2, <1>3, <1>7, <1>9, <1>10, <1>11 DEF IsRowOf
<1> QED
  BY <1>1, <1>4, <1>8, <1>10, <1>12, RecordKeeps DEF m

LEMMA SkipKeeps == TarInv /\ SkipMember => TarInv'
<1> SUFFICES ASSUME TarInv, SkipMember PROVE TarInv'
  OBVIOUS
<1>1. /\ IsArchive /\ TarFields /\ UNCHANGED archive /\ tarRun.step = "members"
      /\ tarRun.at <= Len(archive) /\ Member.type = "other"
      /\ tarRun' = [tarRun EXCEPT !.at = tarRun.at + 1]
  BY DEF TarInv, SkipMember, AtMember
<1>2. TarFields' /\ tarRun'.step = "members" /\ tarRun'.at = tarRun.at + 1 /\ tarRun'.mode = tarRun.mode
      /\ tarRun'.wordStats = tarRun.wordStats /\ tarRun'.rows = tarRun.rows
      /\ tarRun'.buffer = tarRun.buffer /\ tarRun'.freq = tarRun.freq /\ tarRun'.summary = tarRun.summary
  BY <1>1 DEF TarFields, WordCounts
<1>3. /\ tarRun.at \in 1 .. Len(archive) + 1 /\ Len(archive) \in Nat
      /\ \E of : Ordered(of, tarRun.rows, tarRun.at - 1)
      /\ tarRun.summary["unparsed"] = Cardinality(Unparsed(tarRun.rows))
      /\ tarRun.mode = "full" /\ tarRun.wordStats => \A w \in AllWords : Counted(tarRun.rows, w)
  BY <1>1, EntriesAre DEF TarInv, Gathered
<1>4. PICK of, rows, n : Ordered(of, rows, n) /\ rows = tarRun.rows /\ n = tarRun.at - 1
  BY <1>3
<1>5. Ordered(of, rows, n + 1)
  <2>1. n \in Nat /\ n + 1 = tarRun.at
    BY <1>3, <1>4
  <2>2. n + 1 \notin Entries
    BY <1>1, <2>1 DEF Entries, Member, ContentTypes, LinkTypes
  <2>3. rows \in Seq(Rows)
    BY <1>1, <1>4 DEF TarFields
  <2> QED
    BY <1>1, <1>4, <2>1, <2>2, <2>3, OrderedSkips
<1>6. PICK k : k = n + 1
  OBVIOUS
<1>7. Ordered(of, rows, k)'
  BY <1>1, <1>2, <1>5, <1>6, SameMembers
<1>8. tarRun'.at - 1 = k /\ tarRun'.at \in 1 .. Len(archive) + 1
  BY <1>1, <1>2, <1>3, <1>4, <1>6
<1>9. (\E f : Ordered(f, tarRun.rows, tarRun.at - 1))'
  BY <1>2, <1>4, <1>7, <1>8
<1>10. ASSUME NEW w PROVE Counted(tarRun.rows, w) => Counted(tarRun.rows, w)'
  BY <1>2 DEF Counted, CountOf, Occurrences, Saying
<1>11. Unparsed(tarRun.rows)' = Unparsed(tarRun.rows)
  BY <1>2 DEF Unparsed
<1>12. Gathered'
  BY <1>1, <1>2, <1>3, <1>8, <1>9, <1>10, <1>11 DEF Gathered
<1> QED
  BY <1>1, <1>2, <1>12, SameMembers DEF TarInv

\* Steps of the run alone.
LEMMA EndedKeeps ==
  ASSUME TarInv, UNCHANGED archive, NEW step \in {"failed", "cancelled"},
         tarRun' = [tarRun EXCEPT !.step = step]
  PROVE  TarInv'
<1>1. TarFields' /\ tarRun'.step = step /\ tarRun'.mode = tarRun.mode
  BY DEF TarInv, TarFields, WordCounts
<1> QED
  BY <1>1, SameMembers DEF TarInv, Gathered

LEMMA PromoteKeeps == TarInv /\ PromoteTar => TarInv'
<1> SUFFICES ASSUME TarInv, PromoteTar PROVE TarInv'
  OBVIOUS
<1>1. /\ tarRun.step = "complete" /\ UNCHANGED archive
      /\ tarRun' = [tarRun EXCEPT !.step = "promoted"]
  BY DEF PromoteTar
<1>2. /\ TarFields' /\ tarRun'.step = "promoted" /\ tarRun'.mode = tarRun.mode
      /\ tarRun'.rows = tarRun.rows /\ tarRun'.summary = tarRun.summary
      /\ tarRun'.freq = tarRun.freq /\ tarRun'.wordStats = tarRun.wordStats
  BY <1>1 DEF TarInv, TarFields, WordCounts
<1>3. AllTold /\ WordsTrue /\ RowsTrue
  BY <1>1 DEF TarInv
<1>4. AllTold'
  BY <1>1, <1>2, <1>3 DEF AllTold, Entries
<1>5. WordsTrue'
  <2>1. \A w : /\ Saying(tarRun.rows, w)' = Saying(tarRun.rows, w)
               /\ Occurrences(tarRun.rows, w)' = Occurrences(tarRun.rows, w)
    BY <1>2 DEF Saying, Occurrences
  <2> QED
    BY <1>2, <1>3, <2>1 DEF WordsTrue
<1>6. RowsTrue'
  <2>1. Entries' = Entries /\ Links' = Links /\ Extracted' = Extracted
    BY <1>1 DEF Links, Entries, Extracted
  <2>2. Plainly' = Plainly
    BY <1>1, <2>1 DEF Plainly, Replaced, LookAlike, HiddenMap
  <2>3. \A i : MayNotKnow(i)' = MayNotKnow(i)
    BY <1>2, <2>1 DEF MayNotKnow
  <2> QED
    BY <1>2, <1>3, <2>1, <2>2, <2>3 DEF RowsTrue
<1>7. Gathered'
  BY <1>2 DEF Gathered
<1> QED
  BY <1>1, <1>2, <1>4, <1>5, <1>6, <1>7, SameMembers DEF TarInv

-----------------------------------------------------------------------------
(***************************************************************************)
(* What extraction leaves, member by member.                               *)
(***************************************************************************)
Extracting(left, n) ==
  left = [k \in 0 .. n |-> IF k = 0 THEN [q \in {} |-> NoValue]
                           ELSE ExtractOne(left[k - 1], archive[k])]

LEMMA ExtractingExists ==
  ASSUME NEW N \in Nat
  PROVE  \E left : Extracting(left, N)
<1> DEFINE T == {n \in Nat : ~ \E left : Extracting(left, n)}
<1> SUFFICES ASSUME T # {} PROVE FALSE
  OBVIOUS
<1>1. PICK m \in T : \A k \in T : m <= k
  <2>1. T \in SUBSET Nat /\ T # {}
    OBVIOUS
  <2> HIDE DEF T
  <2> QED
    BY <2>1, LeastNatural
<1>2. m # 0
  <2>1. Extracting([k \in 0 .. 0 |-> [q \in {} |-> NoValue]], 0)
    BY DEF Extracting
  <2> QED
    BY <1>1, <2>1
<1>3. m \in Nat /\ m - 1 \in Nat /\ m - 1 \notin T
  BY <1>1, <1>2
<1>4. PICK f : Extracting(f, m - 1)
  BY <1>3
<1> DEFINE g == [k \in 0 .. m |-> IF k = m THEN ExtractOne(f[m - 1], archive[m]) ELSE f[k]]
           start == [q \in {} |-> NoValue]
<1>5. f = [k \in 0 .. m - 1 |-> IF k = 0 THEN start ELSE ExtractOne(f[k - 1], archive[k])]
  BY <1>4 DEF Extracting
<1> HIDE DEF start
<1>6. \A k \in 0 .. m - 1 : g[k] = f[k]
  BY <1>3
<1>7. ASSUME NEW k \in 0 .. m, k # 0 PROVE g[k] = ExtractOne(g[k - 1], archive[k])
  <2>1. CASE k = m
    BY <1>2, <1>3, <1>6, <2>1
  <2>2. CASE k # m
    <3>1. k \in 0 .. m - 1 /\ k - 1 \in 0 .. m - 1
      BY <1>3, <1>7, <2>2
    <3>2. f[k] = ExtractOne(f[k - 1], archive[k])
      BY <1>5, <1>7, <3>1
    <3> QED
      BY <1>6, <3>1, <3>2
  <2> QED
    BY <2>1, <2>2
<1>8. g[0] = start
  BY <1>2, <1>3, <1>5, <1>6
<1>9. g = [k \in 0 .. m |-> g[k]]
  OBVIOUS
<1> HIDE DEF g
<1>10. Extracting(g, m)
  BY <1>7, <1>8, <1>9 DEF Extracting, start
<1> QED
  BY <1>1, <1>10

\* The files that are left after each number of members.
Stages(left) ==
  /\ Extracted = left[Len(archive)]
  /\ left[0] = [q \in {} |-> NoValue]
  /\ \A k \in 1 .. Len(archive) : left[k] = ExtractOne(left[k - 1], archive[k])

LEMMA StagesExist ==
  ASSUME IsArchive
  PROVE  \E left : Stages(left)
<1> DEFINE N == Len(archive)
           left == CHOOSE f : Extracting(f, N)
<1>0. N \in Nat
  BY EntriesAre
<1>1. Extracted = left[N]
  BY DEF Extracted, Extracting
<1>2. Extracting(left, N)
  BY <1>0, ExtractingExists
<1> HIDE DEF left
<1>3. left = [k \in 0 .. N |-> IF k = 0 THEN [q \in {} |-> NoValue] ELSE ExtractOne(left[k - 1], archive[k])]
  BY <1>2 DEF Extracting
<1>4. left[0] = [q \in {} |-> NoValue]
  BY <1>0, <1>3
<1>5. ASSUME NEW k \in 1 .. N PROVE left[k] = ExtractOne(left[k - 1], archive[k])
  <2>1. k \in 0 .. N /\ k # 0
    BY <1>0
  <2> QED
    BY <1>3, <2>1
<1> QED
  BY <1>1, <1>4, <1>5 DEF Stages

\* A member of another name, or none, leaves a file alone.
LEMMA ExtractOneKeeps ==
  ASSUME NEW files, NEW m \in ArchiveMember, NEW p,
         m.type \in ContentTypes \union LinkTypes => NameOf(m) # p
  PROVE  LET after == ExtractOne(files, m) IN
         /\ p \in DOMAIN after <=> p \in DOMAIN files
         /\ p \in DOMAIN files => after[p] = files[p]
<1> DEFINE put(q, c) == [r \in DOMAIN files \union {q} |-> IF r = q THEN c ELSE files[r]]
           after == ExtractOne(files, m)
<1>1. \/ m.type \in ContentTypes /\ after = put(RealName(m), m.leaves)
      \/ m.type = "hardlink" /\ after = put(m.path, files[m.target])
      \/ m.type = "symlink" /\ after = Restrict(files, DOMAIN files \ {m.path})
      \/ after = files
  BY DEF ExtractOne
<1>2. \A q, c : q # p => (p \in DOMAIN put(q, c) <=> p \in DOMAIN files)
                          /\ (p \in DOMAIN files => put(q, c)[p] = files[p])
  OBVIOUS
<1>3. m.type \in ContentTypes => RealName(m) # p
  BY MemberName
<1>4. m.type \in LinkTypes => m.path # p
  BY MemberName
<1>5. "hardlink" \in LinkTypes /\ "symlink" \in LinkTypes
  BY DEF LinkTypes
<1> HIDE DEF put, after
<1>6. CASE m.type = "symlink" /\ after = Restrict(files, DOMAIN files \ {m.path})
  <2>1. after = [q \in DOMAIN files \ {m.path} |-> files[q]]
    BY <1>6 DEF Restrict
  <2> QED
    BY <1>4, <1>5, <1>6, <2>1 DEF after
<1>7. CASE \/ m.type \in ContentTypes /\ after = put(RealName(m), m.leaves)
           \/ m.type = "hardlink" /\ after = put(m.path, files[m.target])
           \/ after = files
  BY <1>2, <1>3, <1>4, <1>5, <1>7 DEF after
<1> QED
  BY <1>1, <1>6, <1>7

\* A file stays while no entry of its name is extracted.
LEMMA FileStays ==
  ASSUME IsArchive, NEW left, Stages(left), NEW a \in 0 .. Len(archive), NEW b \in 0 .. Len(archive),
         a <= b, NEW p, \A j \in Entries : a < j /\ j <= b => NameOf(archive[j]) # p
  PROVE  /\ p \in DOMAIN left[a] <=> p \in DOMAIN left[b]
         /\ p \in DOMAIN left[a] => left[a][p] = left[b][p]
<1> DEFINE Stays(n) == /\ p \in DOMAIN left[a] <=> p \in DOMAIN left[n]
                       /\ p \in DOMAIN left[a] => left[a][p] = left[n][p]
           T == {n \in Nat : a <= n /\ n <= b /\ ~Stays(n)}
<1>0. Len(archive) \in Nat /\ a \in Nat /\ b \in Nat
  BY EntriesAre
<1>1. T = {}
  <2> SUFFICES ASSUME T # {} PROVE FALSE
    OBVIOUS
  <2>1. PICK n \in T : \A k \in T : n <= k
    <3>1. T \in SUBSET Nat
      OBVIOUS
    <3> HIDE DEF T
    <3> QED
      BY <3>1, LeastNatural
  <2>2. n \in Nat /\ a <= n /\ n <= b /\ ~Stays(n)
    BY <2>1
  <2>3. n # a
    BY <2>2
  <2>4. n - 1 \in Nat /\ a <= n - 1 /\ n - 1 <= b /\ n - 1 \notin T
    BY <1>0, <2>1, <2>2, <2>3
  <2>5. Stays(n - 1)
    BY <2>4
  <2>6. n \in 1 .. Len(archive)
    BY <1>0, <2>2, <2>3
  <2>7. left[n] = ExtractOne(left[n - 1], archive[n]) /\ archive[n] \in ArchiveMember
    BY <2>6, EntriesAre DEF Stages
  <2>8. archive[n].type \in ContentTypes \union LinkTypes => NameOf(archive[n]) # p
    <3>1. a < n /\ n <= b
      BY <1>0, <2>2, <2>3
    <3>2. archive[n].type \in ContentTypes \union LinkTypes => n \in Entries
      BY <2>6, EntriesAre DEF Entries
    <3> QED
      BY <3>1, <3>2
  <2>9. /\ p \in DOMAIN left[n] <=> p \in DOMAIN left[n - 1]
        /\ p \in DOMAIN left[n - 1] => left[n][p] = left[n - 1][p]
    BY <2>7, <2>8, ExtractOneKeeps
  <2> QED
    BY <2>2, <2>5, <2>9
<1>2. Stays(b)
  BY <1>0, <1>1
<1> QED
  BY <1>2

-----------------------------------------------------------------------------
(***************************************************************************)
(* The passes that resolve links.  The rows keep all but the hashes of     *)
(* links.                                                                  *)
(***************************************************************************)
Resolves(rows, raw) ==
  /\ rows \in Seq(Rows) /\ Len(rows) = Len(raw)
  /\ \A k \in 1 .. Len(raw) :
       /\ rows[k].name = raw[k].name /\ rows[k].type = raw[k].type /\ rows[k].target = raw[k].target
       /\ rows[k].kind = raw[k].kind /\ rows[k].flags = raw[k].flags
       /\ raw[k].type # "hardlink" => rows[k].hash = raw[k].hash

\* Row f is the latest of the name that row k links to.
LatestOf(rows, k, f) ==
  /\ rows[k].target.text # NoValue /\ rows[f].name.text = rows[k].target.text
  /\ \A l \in 1 .. Len(rows) : rows[l].name.text = rows[k].target.text => l <= f

LEMMA TargetHashType ==
  ASSUME NEW rows \in Seq(Rows), NEW k \in 1 .. Len(rows)
  PROVE  /\ TargetHash(rows, k) \in Bytes \union {NoValue}
         /\ TargetHash(rows, k) # NoValue => \E f \in 1 .. Len(rows) : LatestOf(rows, k, f)
         /\ \A f \in 1 .. Len(rows) : LatestOf(rows, k, f) => TargetHash(rows, k) = rows[f].hash
<1> DEFINE S == RowsNamed(rows, rows[k].target.text)
<1>1. /\ Len(rows) \in Nat /\ DOMAIN rows = 1 .. Len(rows)
      /\ \A l \in 1 .. Len(rows) : rows[l].hash \in Bytes \union {NoValue}
  <2>1. Len(rows) \in Nat /\ DOMAIN rows = 1 .. Len(rows) /\ \A l \in 1 .. Len(rows) : rows[l] \in Rows
    OBVIOUS
  <2> QED
    BY <2>1 DEF Rows
<1>2. \A l : l \in S <=> l \in 1 .. Len(rows) /\ rows[l].name.text = rows[k].target.text
  BY <1>1 DEF RowsNamed
<1> HIDE DEF S
<1>3. CASE rows[k].target.text = NoValue \/ S = {}
  <2>1. TargetHash(rows, k) = NoValue
    BY <1>3 DEF TargetHash, S
  <2> QED
    BY <1>2, <1>3, <2>1 DEF LatestOf
<1>4. CASE rows[k].target.text # NoValue /\ S # {}
  <2>1. TargetHash(rows, k) = rows[Max(S)].hash
    BY <1>4 DEF TargetHash, S
  <2>2. S \in SUBSET (1 .. Len(rows))
    BY <1>2
  <2>3. Max(S) \in S /\ \A l \in S : l <= Max(S)
    BY <1>1, <1>4, <2>2, LastPosition
  <2>4. Max(S) \in 1 .. Len(rows)
    BY <2>2, <2>3
  <2>5. LatestOf(rows, k, Max(S))
    BY <1>2, <1>4, <2>3 DEF LatestOf
  <2>6. ASSUME NEW f \in 1 .. Len(rows), LatestOf(rows, k, f) PROVE f = Max(S)
    <3>1. f \in S /\ Max(S) <= f
      BY <1>2, <2>3, <2>4, <2>6 DEF LatestOf
    <3> QED
      BY <1>1, <2>3, <2>4, <3>1
  <2> QED
    BY <1>1, <2>1, <2>4, <2>5, <2>6
<1> QED
  BY <1>3, <1>4

LEMMA ResolveOnceKeeps ==
  ASSUME NEW raw \in Seq(Rows), NEW rows, Resolves(rows, raw)
  PROVE  /\ Resolves(ResolveOnce(rows), raw)
         /\ \A k \in 1 .. Len(raw) :
              ResolveOnce(rows)[k].hash = IF rows[k].type = "hardlink" /\ rows[k].hash = NoValue
                                          THEN TargetHash(rows, k) ELSE rows[k].hash
<1> DEFINE next == ResolveOnce(rows)
           N == Len(raw)
<1>1. /\ N \in Nat /\ Len(rows) = N /\ DOMAIN rows = 1 .. N
      /\ \A k \in 1 .. N : rows[k] \in Rows /\ TargetHash(rows, k) \in Bytes \union {NoValue}
  BY TargetHashType DEF Resolves
<1>2. next = [k \in 1 .. N |->
                IF rows[k].type = "hardlink" /\ rows[k].hash = NoValue
                THEN [rows[k] EXCEPT !.hash = TargetHash(rows, k)] ELSE rows[k]]
  BY <1>1 DEF ResolveOnce
<1> HIDE DEF next, N
<1>3. ASSUME NEW k \in 1 .. N
      PROVE  /\ next[k] \in Rows
             /\ next[k].name = rows[k].name /\ next[k].type = rows[k].type
             /\ next[k].target = rows[k].target /\ next[k].kind = rows[k].kind
             /\ next[k].flags = rows[k].flags
             /\ next[k].hash = IF rows[k].type = "hardlink" /\ rows[k].hash = NoValue
                               THEN TargetHash(rows, k) ELSE rows[k].hash
  <2>1. CASE rows[k].type = "hardlink" /\ rows[k].hash = NoValue
    <3>1. next[k] = [rows[k] EXCEPT !.hash = TargetHash(rows, k)]
      BY <1>2, <2>1
    <3> QED
      BY <1>1, <2>1, <3>1, SMTT(30) DEF Rows
  <2>2. CASE ~(rows[k].type = "hardlink" /\ rows[k].hash = NoValue)
    BY <1>1, <1>2, <2>2
  <2> QED
    BY <2>1, <2>2
<1>4. next \in Seq(Rows) /\ Len(next) = N
  <2>1. next \in [1 .. N -> Rows]
    BY <1>2, <1>3
  <2> QED
    BY <1>1, <2>1
<1>5. Resolves(next, raw)
  BY <1>3, <1>4 DEF Resolves, N
<1> QED
  BY <1>3, <1>5 DEF next, N

\* There are five passes.
LEMMA FivePasses ==
  ASSUME NEW raw
  PROVE  \E a, b, c, d : /\ a = ResolveOnce(raw) /\ b = ResolveOnce(a) /\ c = ResolveOnce(b)
                         /\ d = ResolveOnce(c) /\ ResolveLinks(raw) = ResolveOnce(d)
<1> DEFINE a == ResolveOnce(raw)
           b == ResolveOnce(a)
           c == ResolveOnce(b)
           d == ResolveOnce(c)
           e == ResolveOnce(d)
           pass == CHOOSE f : f = [n \in 0 .. LinkPasses |-> IF n = 0 THEN raw ELSE ResolveOnce(f[n - 1])]
           g == [n \in 0 .. 5 |-> IF n = 0 THEN raw ELSE IF n = 1 THEN a ELSE IF n = 2 THEN b
                                  ELSE IF n = 3 THEN c ELSE IF n = 4 THEN d ELSE e]
<1>1. ResolveLinks(raw) = pass[5]
  BY DEF ResolveLinks, LinkPasses
<1>2. a = ResolveOnce(raw) /\ b = ResolveOnce(a) /\ c = ResolveOnce(b) /\ d = ResolveOnce(c) /\ e = ResolveOnce(d)
  OBVIOUS
<1> HIDE DEF a, b, c, d, e
<1>3. g[0] = raw /\ g[1] = a /\ g[2] = b /\ g[3] = c /\ g[4] = d /\ g[5] = e
  OBVIOUS
<1>4. \A n : n \in 0 .. 5 <=> n \in {0, 1, 2, 3, 4, 5}
  OBVIOUS
<1>5. g = [n \in 0 .. 5 |-> g[n]]
  OBVIOUS
<1> HIDE DEF g
<1>6. ASSUME NEW n \in 0 .. 5 PROVE g[n] = IF n = 0 THEN raw ELSE ResolveOnce(g[n - 1])
  <2>1. n = 0 \/ n = 1 \/ n = 2 \/ n = 3 \/ n = 4 \/ n = 5
    BY <1>4
  <2> QED
    BY <1>2, <1>3, <2>1
<1>7. g = [n \in 0 .. LinkPasses |-> IF n = 0 THEN raw ELSE ResolveOnce(g[n - 1])]
  BY <1>5, <1>6 DEF LinkPasses
<1>8. pass = [n \in 0 .. LinkPasses |-> IF n = 0 THEN raw ELSE ResolveOnce(pass[n - 1])]
  BY <1>7
<1> HIDE DEF pass
<1>9. pass[0] = raw /\ \A n \in 1 .. 5 : pass[n] = ResolveOnce(pass[n - 1])
  <2>1. \A n \in 0 .. 5 : pass[n] = IF n = 0 THEN raw ELSE ResolveOnce(pass[n - 1])
    BY <1>8 DEF LinkPasses
  <2> QED
    BY <2>1
<1>10. pass[1] = ResolveOnce(pass[0]) /\ pass[2] = ResolveOnce(pass[1]) /\ pass[3] = ResolveOnce(pass[2])
  <2>1. pass[1] = ResolveOnce(pass[1 - 1]) /\ pass[2] = ResolveOnce(pass[2 - 1]) /\ pass[3] = ResolveOnce(pass[3 - 1])
    BY <1>9
  <2> QED
    BY <2>1
<1>11. pass[4] = ResolveOnce(pass[3]) /\ pass[5] = ResolveOnce(pass[4])
  <2>1. pass[4] = ResolveOnce(pass[4 - 1]) /\ pass[5] = ResolveOnce(pass[5 - 1])
    BY <1>9
  <2> QED
    BY <2>1
<1> QED
  BY <1>1, <1>9, <1>10, <1>11

-----------------------------------------------------------------------------
(***************************************************************************)
(* A hash that a link takes is that of the file extraction leaves there.   *)
(***************************************************************************)
Last(e) == \A j \in Entries : NameOf(archive[j]) = NameOf(archive[e]) => j <= e

\* The rows of an archive that was read to its end.
Read(of, raw) ==
  /\ IsArchive /\ raw \in Seq(Rows) /\ Ordered(of, raw, Len(archive))
  /\ ~Replaced /\ ~LookAlike

LEMMA RowOfEntry ==
  ASSUME NEW of, NEW raw, Read(of, raw)
  PROVE  /\ Len(raw) \in Nat
         /\ \A k \in 1 .. Len(raw) :
              /\ of[k] \in Entries /\ of[k] \in 1 .. Len(archive) /\ archive[of[k]] \in ArchiveMember
              /\ IsRowOf(raw[k], archive[of[k]])
              /\ raw[k].type = "hardlink" <=> of[k] \in Links
         /\ \A k, l \in 1 .. Len(raw) : k < l => of[k] < of[l]
         /\ \A e \in Entries : \E k \in 1 .. Len(raw) : of[k] = e
<1>1. \A e \in Entries : e \in 1 .. Len(archive) /\ archive[e] \in ArchiveMember /\ e <= Len(archive)
  BY EntriesAre DEF Read
<1>2. Len(raw) \in Nat
  BY DEF Read
<1>3. ASSUME NEW k \in 1 .. Len(raw)
      PROVE  /\ of[k] \in Entries /\ IsRowOf(raw[k], archive[of[k]])
             /\ raw[k].type = "hardlink" <=> of[k] \in Links
  <2>1. of[k] \in Entries /\ IsRowOf(raw[k], archive[of[k]])
    BY DEF Read, Ordered
  <2>2. archive[of[k]].type \in ContentTypes \union LinkTypes
    BY <2>1 DEF Entries
  <2>3. raw[k].type = "hardlink" <=> archive[of[k]].type = "hardlink"
    BY <2>1, <2>2 DEF IsRowOf, ContentTypes, LinkTypes
  <2> QED
    BY <2>1, <2>3 DEF Links
<1> QED
  BY <1>1, <1>2, <1>3 DEF Read, Ordered

\* The names and targets of rows are those of their entries, and not alike.
LEMMA TextOfRow ==
  ASSUME NEW of, NEW raw, Read(of, raw), NEW rows, Resolves(rows, raw)
  PROVE  /\ \A k \in 1 .. Len(raw) :
              /\ rows[k].name.text = Rendered[NameOf(archive[of[k]])]
              /\ NameOf(archive[of[k]]) =
                   IF rows[k].name.raw = NoValue THEN rows[k].name.text ELSE rows[k].name.raw
         /\ \A k, l \in 1 .. Len(raw) :
              rows[k].name.text = rows[l].name.text => NameOf(archive[of[k]]) = NameOf(archive[of[l]])
         /\ \A k, l \in 1 .. Len(raw) :
              of[k] \in Links /\ rows[k].target.text # NoValue =>
                (rows[l].name.text = rows[k].target.text <=> NameOf(archive[of[l]]) = archive[of[k]].target)
<1>1. ASSUME NEW k \in 1 .. Len(raw)
      PROVE  /\ rows[k].name = Captured(NameOf(archive[of[k]]))
             /\ of[k] \in Links => rows[k].target = Captured(archive[of[k]].target)
             /\ NameOf(archive[of[k]]) \in TarNames /\ NameOf(archive[of[k]]) # NoValue
             /\ archive[of[k]].target \in TarNames \union {NoValue}
  <2>1. IsRowOf(raw[k], archive[of[k]]) /\ archive[of[k]] \in ArchiveMember
    BY RowOfEntry
  <2>2. rows[k].name = raw[k].name /\ rows[k].target = raw[k].target
    BY DEF Resolves
  <2>3. of[k] \in Links => archive[of[k]].type \in LinkTypes
    BY DEF Links, LinkTypes
  <2> QED
    BY <2>1, <2>2, <2>3, MemberName, TarAssumption DEF IsRowOf, TarNames
<1>2. ASSUME NEW k \in 1 .. Len(raw)
      PROVE  /\ rows[k].name.text = Rendered[NameOf(archive[of[k]])]
             /\ NameOf(archive[of[k]]) = IF rows[k].name.raw = NoValue THEN rows[k].name.text ELSE rows[k].name.raw
  BY <1>1, CapturedText
<1>3. \A k \in 1 .. Len(raw) : of[k] \in Links /\ rows[k].target.text # NoValue =>
        archive[of[k]].target # NoValue /\ rows[k].target.text = Rendered[archive[of[k]].target]
  BY <1>1, CapturedText
<1>4. \A k, l \in 1 .. Len(raw) :
        Rendered[NameOf(archive[of[k]])] = Rendered[NameOf(archive[of[l]])]
          => NameOf(archive[of[k]]) = NameOf(archive[of[l]])
  <2>1. \A p, q \in {NameOf(archive[i]) : i \in Entries} : Rendered[p] = Rendered[q] => p = q
    BY DEF Read, LookAlike
  <2>2. \A k \in 1 .. Len(raw) : NameOf(archive[of[k]]) \in {NameOf(archive[i]) : i \in Entries}
    BY RowOfEntry
  <2> QED
    BY <2>1, <2>2
<1>5. \A k, l \in 1 .. Len(raw) :
        of[k] \in Links /\ archive[of[k]].target # NoValue
          /\ Rendered[NameOf(archive[of[l]])] = Rendered[archive[of[k]].target]
          => NameOf(archive[of[l]]) = archive[of[k]].target
  <2>1. \A p \in {NameOf(archive[i]) : i \in Entries}, q \in {archive[i].target : i \in Links} \ {NoValue} :
          Rendered[p] = Rendered[q] => p = q
    BY DEF Read, LookAlike
  <2>2. \A k \in 1 .. Len(raw) : NameOf(archive[of[k]]) \in {NameOf(archive[i]) : i \in Entries}
    BY RowOfEntry
  <2> QED
    BY <2>1, <2>2
<1> QED
  BY <1>2, <1>3, <1>4, <1>5

\* The row a link takes its hash of is the last of its target's name, and before it.
LEMMA TargetRow ==
  ASSUME NEW of, NEW raw, Read(of, raw), NEW rows, Resolves(rows, raw), NEW k \in 1 .. Len(raw),
         rows[k].type = "hardlink", rows[k].hash = NoValue, TargetHash(rows, k) # NoValue
  PROVE  \E f \in 1 .. Len(raw) :
           /\ TargetHash(rows, k) = rows[f].hash /\ LatestOf(rows, k, f)
           /\ NameOf(archive[of[f]]) = archive[of[k]].target
           /\ Last(of[f]) /\ of[f] < of[k]
<1>1. rows \in Seq(Rows) /\ Len(rows) = Len(raw) /\ of[k] \in Links
  <2>1. raw[k].type = "hardlink"
    BY DEF Resolves
  <2> QED
    BY <2>1, RowOfEntry DEF Resolves
<1>2. PICK f \in 1 .. Len(raw) :
        /\ LatestOf(rows, k, f) /\ rows[k].target.text # NoValue
        /\ TargetHash(rows, k) = rows[f].hash /\ rows[f].name.text = rows[k].target.text
        /\ \A l \in 1 .. Len(raw) : rows[l].name.text = rows[k].target.text => l <= f
  BY <1>1, TargetHashType DEF LatestOf
<1>3. NameOf(archive[of[f]]) = archive[of[k]].target
  BY <1>1, <1>2, TextOfRow
<1>4. Last(of[f])
  <2> SUFFICES ASSUME NEW j \in Entries, NameOf(archive[j]) = NameOf(archive[of[f]]) PROVE j <= of[f]
    BY DEF Last
  <2>1. PICK l \in 1 .. Len(raw) : of[l] = j
    BY RowOfEntry
  <2>2. l <= f
    BY <1>1, <1>2, <1>3, <2>1, TextOfRow
  <2>3. l < f \/ l = f
    BY <2>2, RowOfEntry
  <2>4. of[l] <= of[f]
    BY <2>3, RowOfEntry
  <2> QED
    BY <2>1, <2>4
<1>5. of[f] # of[k]
  <2>1. f # k
    BY <1>2
  <2>2. f < k \/ k < f
    BY <2>1, RowOfEntry
  <2>3. of[f] \in Nat /\ of[k] \in Nat
    BY RowOfEntry
  <2> QED
    BY <2>2, <2>3, RowOfEntry
<1>6. ~(of[k] < of[f])
  BY <1>1, <1>3, RowOfEntry DEF Read, Replaced
<1>7. of[f] < of[k]
  BY <1>5, <1>6, RowOfEntry
<1> QED
  BY <1>2, <1>3, <1>4, <1>7

\* The last entry of a name says what is left there.
LEMMA LeftByLast ==
  ASSUME IsArchive, NEW left, Stages(left), NEW e \in Entries, Last(e)
  PROVE  LET p == NameOf(archive[e]) IN
         /\ p \in DOMAIN Extracted <=> p \in DOMAIN left[e]
         /\ p \in DOMAIN left[e] => Extracted[p] = left[e][p]
<1>1. e \in 0 .. Len(archive) /\ Len(archive) \in 0 .. Len(archive) /\ e <= Len(archive)
  BY EntriesAre
<1>2. \A j \in Entries : e < j => NameOf(archive[j]) # NameOf(archive[e])
  BY <1>1, EntriesAre DEF Last
<1>3. LET p == NameOf(archive[e]) IN
      /\ p \in DOMAIN left[e] <=> p \in DOMAIN left[Len(archive)]
      /\ p \in DOMAIN left[e] => left[e][p] = left[Len(archive)][p]
  BY <1>1, <1>2, FileStays
<1> QED
  BY <1>3 DEF Stages

LEMMA LeftByContent ==
  ASSUME IsArchive, NEW left, Stages(left), NEW e \in Entries, archive[e].type \in ContentTypes
  PROVE  /\ NameOf(archive[e]) \in DOMAIN left[e]
         /\ left[e][NameOf(archive[e])] = archive[e].leaves
<1>1. e \in 1 .. Len(archive) /\ archive[e] \in ArchiveMember
  BY EntriesAre
<1>2. left[e] = ExtractOne(left[e - 1], archive[e])
  BY <1>1 DEF Stages
<1>3. NameOf(archive[e]) = RealName(archive[e])
  BY <1>1, MemberName
<1>4. archive[e].type # "hardlink" /\ archive[e].type # "symlink"
  BY DEF ContentTypes
<1>5. left[e] = [q \in DOMAIN left[e - 1] \union {RealName(archive[e])} |->
                   IF q = RealName(archive[e]) THEN archive[e].leaves ELSE left[e - 1][q]]
  BY <1>2, <1>4 DEF ExtractOne
<1> QED
  BY <1>3, <1>5

LEMMA LeftByLink ==
  ASSUME IsArchive, NEW left, Stages(left), NEW e \in Links,
         archive[e].target \in DOMAIN left[e - 1]
  PROVE  /\ NameOf(archive[e]) \in DOMAIN left[e]
         /\ left[e][NameOf(archive[e])] = left[e - 1][archive[e].target]
<1>1. e \in 1 .. Len(archive) /\ archive[e] \in ArchiveMember /\ archive[e].type = "hardlink"
  BY EntriesAre DEF Links
<1>2. left[e] = ExtractOne(left[e - 1], archive[e])
  BY <1>1 DEF Stages
<1>3. NameOf(archive[e]) = archive[e].path
  BY <1>1, MemberName DEF LinkTypes
<1>4. archive[e].type \notin ContentTypes
  BY <1>1 DEF ContentTypes
<1>5. left[e] = [q \in DOMAIN left[e - 1] \union {archive[e].path} |->
                   IF q = archive[e].path THEN left[e - 1][archive[e].target] ELSE left[e - 1][q]]
  BY <1>1, <1>2, <1>4 DEF ExtractOne
<1> QED
  BY <1>3, <1>5

\* What is known of the last entries of their names is true.
Hidden(m) == m.type \in ContentTypes /\ m.pax.broken
HashesTrue(of, rows) ==
  \A k \in 1 .. Len(rows) :
    LET e == of[k]
        p == NameOf(archive[e])
    IN Last(e) /\ rows[k].hash # NoValue /\ ~Hidden(archive[e])
         => p \in DOMAIN Extracted /\ Extracted[p] = rows[k].hash

LEMMA HashesTrueFirst ==
  ASSUME NEW of, NEW raw, Read(of, raw)
  PROVE  HashesTrue(of, raw)
<1> SUFFICES ASSUME NEW k \in 1 .. Len(raw), Last(of[k]), raw[k].hash # NoValue, ~Hidden(archive[of[k]])
             PROVE  /\ NameOf(archive[of[k]]) \in DOMAIN Extracted
                    /\ Extracted[NameOf(archive[of[k]])] = raw[k].hash
  BY DEF HashesTrue
<1> DEFINE e == of[k]
           m == archive[e]
<1>1. PICK left : Stages(left)
  BY StagesExist DEF Read
<1>2. e \in Entries /\ IsRowOf(raw[k], m) /\ IsArchive /\ m.type \in ContentTypes \union LinkTypes
  BY RowOfEntry DEF Read, Entries
<1>3. m.type \in ContentTypes /\ ~m.pax.broken /\ raw[k].hash = m.content /\ ~m.pax.sparse
  BY <1>2 DEF IsRowOf, Hidden
<1>4. m.leaves = raw[k].hash
  <2>1. ReadAsExtracted(m)
    BY <1>2, EntriesAre
  <2> QED
    BY <1>3, <2>1 DEF ReadAsExtracted
<1>5. NameOf(m) \in DOMAIN left[e] /\ left[e][NameOf(m)] = m.leaves
  BY <1>1, <1>2, <1>3, LeftByContent
<1> QED
  BY <1>1, <1>2, <1>4, <1>5, LeftByLast

LEMMA HashesTrueNext ==
  ASSUME NEW of, NEW raw, Read(of, raw), NEW rows, Resolves(rows, raw), HashesTrue(of, rows),
         ~(HiddenMap /\ Links # {})
  PROVE  HashesTrue(of, ResolveOnce(rows))
<1> DEFINE next == ResolveOnce(rows)
<1>1. /\ Resolves(next, raw) /\ Len(next) = Len(raw) /\ Len(rows) = Len(raw)
      /\ \A k \in 1 .. Len(raw) :
           next[k].hash = IF rows[k].type = "hardlink" /\ rows[k].hash = NoValue
                          THEN TargetHash(rows, k) ELSE rows[k].hash
  BY ResolveOnceKeeps DEF Read, Resolves
<1> HIDE DEF next
<1>2. SUFFICES ASSUME NEW k \in 1 .. Len(raw), Last(of[k]), next[k].hash # NoValue, ~Hidden(archive[of[k]])
               PROVE  /\ NameOf(archive[of[k]]) \in DOMAIN Extracted
                      /\ Extracted[NameOf(archive[of[k]])] = next[k].hash
  BY <1>1 DEF HashesTrue, next
<1>3. CASE ~(rows[k].type = "hardlink" /\ rows[k].hash = NoValue)
  <2>1. next[k].hash = rows[k].hash
    BY <1>1, <1>3
  <2> QED
    BY <1>1, <1>2, <2>1 DEF HashesTrue
<1>4. CASE rows[k].type = "hardlink" /\ rows[k].hash = NoValue
  <2> DEFINE e == of[k]
             t == archive[e].target
  <2>1. next[k].hash = TargetHash(rows, k) /\ TargetHash(rows, k) # NoValue
    BY <1>1, <1>2, <1>4
  <2>2. PICK f \in 1 .. Len(raw) :
          /\ TargetHash(rows, k) = rows[f].hash /\ NameOf(archive[of[f]]) = t
          /\ Last(of[f]) /\ of[f] < e
    BY <1>4, <2>1, TargetRow
  <2>3. e \in Links /\ IsArchive
    <3>1. raw[k].type = "hardlink"
      BY <1>4 DEF Resolves
    <3> QED
      BY <3>1, RowOfEntry DEF Read
  <2>4. of[f] \in Entries /\ ~Hidden(archive[of[f]])
    BY <2>3, RowOfEntry DEF HiddenMap, Hidden
  <2>5. t \in DOMAIN Extracted /\ Extracted[t] = TargetHash(rows, k)
    BY <1>1, <2>1, <2>2, <2>4 DEF HashesTrue
  <2>6. PICK left : Stages(left)
    BY <2>3, StagesExist
  <2>7. t \in DOMAIN left[e - 1] /\ left[e - 1][t] = Extracted[t]
    <3>1. e \in 1 .. Len(archive) /\ Len(archive) \in Nat /\ of[f] \in Nat
      BY <2>3, RowOfEntry, EntriesAre
    <3>2. e - 1 \in 0 .. Len(archive) /\ Len(archive) \in 0 .. Len(archive) /\ e - 1 <= Len(archive)
      BY <3>1
    <3>3. ASSUME NEW j \in Entries, e - 1 < j, j <= Len(archive) PROVE NameOf(archive[j]) # t
      <4>1. j \in Nat /\ ~(j <= of[f])
        BY <2>2, <2>3, <3>1, <3>3, EntriesAre
      <4> QED
        BY <2>2, <4>1 DEF Last
    <3> HIDE DEF e, t
    <3>4. /\ t \in DOMAIN left[e - 1] <=> t \in DOMAIN left[Len(archive)]
          /\ t \in DOMAIN left[e - 1] => left[e - 1][t] = left[Len(archive)][t]
      BY <2>3, <2>6, <3>2, <3>3, FileStays
    <3> QED
      BY <2>5, <2>6, <3>4 DEF Stages
  <2>8. NameOf(archive[e]) \in DOMAIN left[e] /\ left[e][NameOf(archive[e])] = left[e - 1][t]
    BY <2>3, <2>6, <2>7, LeftByLink
  <2>9. e \in Entries
    BY <2>3 DEF Links
  <2> QED
    BY <1>2, <2>1, <2>3, <2>5, <2>6, <2>7, <2>8, <2>9, LeftByLast
<1> QED
  BY <1>3, <1>4

\* A link that the next pass would resolve, after n passes, is the last of more than
\* n links in a row.
LinksTo(e) == {j \in Links : j <= e}
Late(of, rows, n) ==
  \A k \in 1 .. Len(rows) :
    rows[k].type = "hardlink" /\ rows[k].hash = NoValue /\ TargetHash(rows, k) # NoValue
      => n < Cardinality(LinksTo(of[k]))

LEMMA LinksToFinite ==
  ASSUME IsArchive, NEW e
  PROVE  /\ IsFiniteSet(LinksTo(e)) /\ IsFiniteSet(Links)
         /\ Cardinality(LinksTo(e)) \in Nat /\ Cardinality(Links) \in Nat
         /\ Cardinality(LinksTo(e)) <= Cardinality(Links)
<1>1. IsFiniteSet(1 .. Len(archive)) /\ Links \subseteq 1 .. Len(archive) /\ LinksTo(e) \subseteq Links
  <2>1. Len(archive) \in Nat /\ Entries \subseteq 1 .. Len(archive)
    BY EntriesAre
  <2>2. IsFiniteSet(1 .. Len(archive))
    BY <2>1, FS_Interval
  <2> QED
    BY <2>1, <2>2 DEF Links, LinksTo
<1>2. IsFiniteSet(Links)
  BY <1>1, FS_Subset
<1>3. IsFiniteSet(LinksTo(e)) /\ Cardinality(LinksTo(e)) <= Cardinality(Links)
  BY <1>1, <1>2, FS_Subset
<1> QED
  BY <1>2, <1>3, FS_CardinalityType

LEMMA LateFirst ==
  ASSUME NEW of, NEW raw, Read(of, raw)
  PROVE  Late(of, raw, 0)
<1> SUFFICES ASSUME NEW k \in 1 .. Len(raw), raw[k].type = "hardlink"
             PROVE  0 < Cardinality(LinksTo(of[k]))
  BY DEF Late
<1>1. of[k] \in LinksTo(of[k])
  BY RowOfEntry DEF LinksTo
<1>2. Cardinality(LinksTo(of[k])) # 0
  BY <1>1, LinksToFinite, FS_EmptySet DEF Read
<1> QED
  BY <1>2, LinksToFinite DEF Read

LEMMA LateNext ==
  ASSUME NEW of, NEW raw, Read(of, raw), NEW rows, Resolves(rows, raw), NEW n \in Nat, Late(of, rows, n)
  PROVE  Late(of, ResolveOnce(rows), n + 1)
<1> DEFINE next == ResolveOnce(rows)
<1>1. /\ Resolves(next, raw) /\ Len(next) = Len(raw) /\ Len(rows) = Len(raw)
      /\ rows \in Seq(Rows) /\ next \in Seq(Rows)
      /\ \A k \in 1 .. Len(raw) :
           next[k].hash = IF rows[k].type = "hardlink" /\ rows[k].hash = NoValue
                          THEN TargetHash(rows, k) ELSE rows[k].hash
  BY ResolveOnceKeeps DEF Read, Resolves
<1> HIDE DEF next
<1>2. SUFFICES ASSUME NEW k \in 1 .. Len(raw), next[k].type = "hardlink", next[k].hash = NoValue,
                      TargetHash(next, k) # NoValue
               PROVE  n + 1 < Cardinality(LinksTo(of[k]))
  BY <1>1 DEF Late, next
<1>3. PICK f \in 1 .. Len(raw) :
        TargetHash(next, k) = next[f].hash /\ LatestOf(next, k, f) /\ of[f] < of[k]
  BY <1>1, <1>2, TargetRow
<1>4. LatestOf(rows, k, f)
  BY <1>1, <1>3 DEF LatestOf, Resolves
<1>5. TargetHash(rows, k) = rows[f].hash
  BY <1>1, <1>4, TargetHashType
<1>6. rows[k].type = "hardlink"
  BY <1>1, <1>2 DEF Resolves
<1>7. rows[f].hash = NoValue
  BY <1>1, <1>2, <1>5, <1>6
<1>8. rows[f].type = "hardlink" /\ TargetHash(rows, f) # NoValue
  BY <1>1, <1>2, <1>3, <1>7
<1>9. n < Cardinality(LinksTo(of[f]))
  BY <1>1, <1>7, <1>8 DEF Late
<1>10. /\ IsArchive /\ of[k] \in Links /\ of[k] \in Nat /\ of[f] \in Nat
       /\ Links \subseteq Nat
  <2>1. raw[k].type = "hardlink"
    BY <1>6 DEF Resolves
  <2>2. IsArchive
    BY DEF Read
  <2> QED
    BY <2>1, <2>2, RowOfEntry, EntriesAre DEF Links
<1>11. of[k] \notin LinksTo(of[f]) /\ LinksTo(of[f]) \union {of[k]} \in SUBSET LinksTo(of[k])
  <2>1. \A j \in Nat : j <= of[f] => j <= of[k]
    BY <1>3, <1>10
  <2>2. ~(of[k] <= of[f]) /\ of[k] <= of[k]
    BY <1>3, <1>10
  <2> QED
    BY <1>10, <2>1, <2>2 DEF LinksTo
<1>12. Cardinality(LinksTo(of[f]) \union {of[k]}) = Cardinality(LinksTo(of[f])) + 1
  BY <1>10, <1>11, LinksToFinite, FS_AddElement
<1>13. Cardinality(LinksTo(of[f]) \union {of[k]}) <= Cardinality(LinksTo(of[k]))
  BY <1>10, <1>11, LinksToFinite, FS_Subset
<1>14. Cardinality(LinksTo(of[f])) \in Nat /\ Cardinality(LinksTo(of[k])) \in Nat
  BY <1>10, LinksToFinite
<1> QED
  BY <1>9, <1>12, <1>13, <1>14

\* After the last pass, what is known is true and what is not known is far away.
LEMMA AllPasses ==
  ASSUME NEW of, NEW raw, Read(of, raw), ~(HiddenMap /\ Links # {})
  PROVE  /\ HashesTrue(of, ResolveLinks(raw)) /\ Late(of, ResolveLinks(raw), LinkPasses)
         /\ Resolves(ResolveLinks(raw), raw)
<1>1. PICK a, b, c, d : /\ a = ResolveOnce(raw) /\ b = ResolveOnce(a) /\ c = ResolveOnce(b)
                        /\ d = ResolveOnce(c) /\ ResolveLinks(raw) = ResolveOnce(d)
  BY FivePasses
<1> DEFINE Good(rows, n) == HashesTrue(of, rows) /\ Late(of, rows, n) /\ Resolves(rows, raw)
<1>2. ASSUME NEW rows, NEW n \in Nat, Good(rows, n) PROVE Good(ResolveOnce(rows), n + 1)
  BY <1>2, HashesTrueNext, LateNext, ResolveOnceKeeps DEF Read
<1>3. Good(raw, 0)
  BY HashesTrueFirst, LateFirst DEF Read, Resolves
<1> HIDE DEF Good
<1>4. Good(a, 0 + 1)
  BY <1>1, <1>2, <1>3
<1>5. Good(b, 1 + 1)
  BY <1>1, <1>2, <1>4
<1>6. Good(c, 2 + 1)
  BY <1>1, <1>2, <1>5
<1>7. Good(d, 3 + 1)
  BY <1>1, <1>2, <1>6
<1>8. Good(ResolveLinks(raw), 4 + 1)
  BY <1>1, <1>2, <1>7
<1> QED
  BY <1>8 DEF Good, LinkPasses

-----------------------------------------------------------------------------
(***************************************************************************)
(* The rows of the finished index.                                         *)
(***************************************************************************)
\* Only marks are added to rows, and the latest row of a name has none.
Marks(marked, rows) ==
  /\ marked \in Seq(Rows) /\ Len(marked) = Len(rows)
  /\ \A k \in 1 .. Len(rows) :
       /\ marked[k].name = rows[k].name /\ marked[k].type = rows[k].type
       /\ marked[k].target = rows[k].target /\ marked[k].kind = rows[k].kind
       /\ marked[k].hash = rows[k].hash
       /\ marked[k].flags \ {"SHADOWED"} = rows[k].flags \ {"SHADOWED"}
       /\ "SHADOWED" \notin marked[k].flags <=>
            "SHADOWED" \notin rows[k].flags
              /\ \A l \in 1 .. Len(rows) : rows[l].name.text = rows[k].name.text => l <= k

LEMMA MarkShadowedMarks ==
  ASSUME NEW rows \in Seq(Rows)
  PROVE  Marks(MarkShadowed(rows), rows)
<1> DEFINE N == Len(rows)
           marked == MarkShadowed(rows)
           latest(k) == k = Max(RowsNamed(rows, rows[k].name.text))
<1>1. N \in Nat /\ DOMAIN rows = 1 .. N /\ \A k \in 1 .. N : rows[k] \in Rows
  OBVIOUS
<1>2. marked = [k \in 1 .. N |-> IF latest(k) THEN rows[k]
                                 ELSE [rows[k] EXCEPT !.flags = rows[k].flags \union {"SHADOWED"}]]
  BY <1>1 DEF MarkShadowed
<1>3. ASSUME NEW k \in 1 .. N
      PROVE  latest(k) <=> \A l \in 1 .. N : rows[l].name.text = rows[k].name.text => l <= k
  <2> DEFINE S == RowsNamed(rows, rows[k].name.text)
  <2>1. \A l : l \in S <=> l \in 1 .. N /\ rows[l].name.text = rows[k].name.text
    BY <1>1 DEF RowsNamed
  <2> HIDE DEF S
  <2>2. S \in SUBSET (1 .. N) /\ k \in S
    BY <2>1
  <2>3. Max(S) \in S /\ \A l \in S : l <= Max(S)
    BY <1>1, <2>2, LastPosition
  <2>4. k = Max(S) <=> \A l \in S : l <= k
    <3>1. PICK n \in S : n = Max(S) /\ \A l \in S : l <= n
      BY <2>3
    <3>2. n \in Nat /\ k \in Nat /\ k <= n
      BY <1>1, <2>2, <3>1
    <3>3. n <= k => n = k
      BY <3>2
    <3> QED
      BY <3>1, <3>3
  <2> QED
    BY <2>1, <2>4 DEF S
<1> HIDE DEF latest, marked, N
<1>4. ASSUME NEW k \in 1 .. N
      PROVE  /\ marked[k] \in Rows
             /\ marked[k].name = rows[k].name /\ marked[k].type = rows[k].type
             /\ marked[k].target = rows[k].target /\ marked[k].kind = rows[k].kind
             /\ marked[k].hash = rows[k].hash
             /\ marked[k].flags = IF latest(k) THEN rows[k].flags ELSE rows[k].flags \union {"SHADOWED"}
  <2>1. CASE latest(k)
    BY <1>1, <1>2, <2>1
  <2>2. CASE ~latest(k)
    <3>1. marked[k] = [rows[k] EXCEPT !.flags = rows[k].flags \union {"SHADOWED"}]
      BY <1>2, <2>2
    <3> QED
      BY <1>1, <2>2, <3>1, ZenonT(40) DEF Rows, RowFlags
  <2> QED
    BY <2>1, <2>2
<1>5. marked \in Seq(Rows) /\ Len(marked) = N
  <2>1. marked \in [1 .. N -> Rows]
    BY <1>2, <1>4
  <2> QED
    BY <1>1, <2>1
<1>6. ASSUME NEW k \in 1 .. N
      PROVE  /\ marked[k].flags \ {"SHADOWED"} = rows[k].flags \ {"SHADOWED"}
             /\ "SHADOWED" \notin marked[k].flags <=> "SHADOWED" \notin rows[k].flags /\ latest(k)
  BY <1>4
<1>7. Marks(marked, rows)
  BY <1>3, <1>4, <1>5, <1>6 DEF Marks, N
<1> QED
  BY <1>7 DEF marked

\* What the index knows of a row's file.
Known(rows, k, bytes) ==
  \/ rows[k].hash = bytes
  \/ /\ rows[k].hash = NoValue
     /\ \/ tarRun.mode = "metadata-only"
        \/ rows[k].flags \intersect {"READ_ERROR", "SPARSE"} # {}
        \/ /\ rows[k].type = "hardlink"
           /\ TargetHash(rows, k) = NoValue \/ Cardinality(Links) > LinkPasses
  \/ "PAX_UNPARSED" \in rows[k].flags

LEMMA KnownRow ==
  ASSUME NEW of, NEW raw, Read(of, raw), ~(HiddenMap /\ Links # {}), NEW p \in DOMAIN Extracted
  PROVE  \E k \in 1 .. Len(raw) :
           NameOf(archive[of[k]]) = p /\ Last(of[k]) /\ Known(ResolveLinks(raw), k, Extracted[p])
<1>0. IsArchive /\ Len(archive) \in Nat /\ Entries \subseteq 1 .. Len(archive)
  BY EntriesAre DEF Read
<1>1. PICK left : Stages(left)
  BY <1>0, StagesExist
<1> DEFINE S == {j \in Entries : NameOf(archive[j]) = p}
<1>2. S # {}
  <2> SUFFICES ASSUME S = {} PROVE FALSE
    OBVIOUS
  <2>1. 0 \in 0 .. Len(archive) /\ Len(archive) \in 0 .. Len(archive) /\ 0 <= Len(archive)
    BY <1>0
  <2>2. \A j \in Entries : 0 < j /\ j <= Len(archive) => NameOf(archive[j]) # p
    OBVIOUS
  <2>3. p \in DOMAIN left[0] <=> p \in DOMAIN left[Len(archive)]
    BY <1>0, <1>1, <2>1, <2>2, FileStays
  <2> QED
    BY <1>1, <2>3 DEF Stages
<1> DEFINE e == Max(S)
<1>3. e \in S /\ \A j \in S : j <= e
  <2>1. S \in SUBSET (1 .. Len(archive))
    BY <1>0
  <2> HIDE DEF S
  <2> QED
    BY <1>0, <1>2, <2>1, LastPosition
<1> HIDE DEF e
<1>4. e \in Entries /\ NameOf(archive[e]) = p /\ Last(e)
  BY <1>3 DEF Last
<1>5. PICK k \in 1 .. Len(raw) : of[k] = e
  BY <1>4, RowOfEntry
<1> DEFINE rows == ResolveLinks(raw)
<1>6. HashesTrue(of, rows) /\ Late(of, rows, LinkPasses) /\ Resolves(rows, raw) /\ Len(rows) = Len(raw)
  BY AllPasses DEF Resolves
<1> HIDE DEF rows
<1>7. IsRowOf(raw[k], archive[e]) /\ (raw[k].type = "hardlink" <=> e \in Links)
  BY <1>5, RowOfEntry
<1>8. ASSUME rows[k].hash # NoValue /\ ~Hidden(archive[e]) PROVE Known(rows, k, Extracted[p])
  BY <1>4, <1>5, <1>6, <1>8 DEF HashesTrue, Known
<1>9. ASSUME Hidden(archive[e]) PROVE Known(rows, k, Extracted[p])
  <2>1. rows[k].flags = raw[k].flags
    BY <1>6 DEF Resolves
  <2> QED
    BY <1>7, <1>9, <2>1 DEF Hidden, IsRowOf, Known
<1>10. ASSUME rows[k].hash = NoValue /\ archive[e].type \in ContentTypes PROVE Known(rows, k, Extracted[p])
  <2>1. rows[k].flags = raw[k].flags /\ rows[k].hash = raw[k].hash
    <3>1. raw[k].type # "hardlink"
      BY <1>7, <1>10 DEF IsRowOf
    <3> QED
      BY <1>6, <3>1 DEF Resolves
  <2> QED
    BY <1>7, <1>10, <2>1 DEF IsRowOf, Known
<1>11. ASSUME rows[k].hash = NoValue /\ archive[e].type = "hardlink" PROVE Known(rows, k, Extracted[p])
  <2>1. rows[k].type = "hardlink"
    <3>1. raw[k].type = "hardlink"
      BY <1>4, <1>7, <1>11 DEF Links
    <3> QED
      BY <1>6, <3>1 DEF Resolves
  <2>2. CASE TargetHash(rows, k) = NoValue
    BY <1>11, <2>1, <2>2 DEF Known
  <2>3. CASE TargetHash(rows, k) # NoValue
    <3>1. LinkPasses < Cardinality(LinksTo(of[k]))
      BY <1>6, <1>11, <2>1, <2>3 DEF Late
    <3>2. Cardinality(Links) > LinkPasses
      BY <1>0, <3>1, LinksToFinite DEF LinkPasses
    <3> QED
      BY <1>11, <2>1, <3>2 DEF Known
  <2> QED
    BY <2>2, <2>3
<1>12. archive[e].type # "symlink"
  <2> SUFFICES ASSUME archive[e].type = "symlink" PROVE FALSE
    OBVIOUS
  <2>1. left[e] = ExtractOne(left[e - 1], archive[e]) /\ archive[e] \in ArchiveMember
    BY <1>0, <1>1, <1>4, EntriesAre DEF Stages
  <2>2. archive[e].type \notin ContentTypes /\ archive[e].type # "hardlink"
    BY DEF ContentTypes
  <2>3. left[e] = Restrict(left[e - 1], DOMAIN left[e - 1] \ {archive[e].path})
    BY <2>1, <2>2 DEF ExtractOne
  <2>4. archive[e].path \notin DOMAIN left[e]
    BY <2>3 DEF Restrict
  <2>5. NameOf(archive[e]) = archive[e].path
    BY <2>1, MemberName DEF LinkTypes
  <2> QED
    BY <1>0, <1>1, <1>4, <2>4, <2>5, LeftByLast
<1>13. archive[e].type \in ContentTypes \/ archive[e].type = "hardlink"
  BY <1>4, <1>12 DEF Entries, LinkTypes
<1>14. Known(rows, k, Extracted[p])
  BY <1>8, <1>9, <1>10, <1>11, <1>13
<1> QED
  BY <1>4, <1>5, <1>14 DEF rows

\* Rows of all entries are as many as the entries.
LEMMA OneRowEach ==
  ASSUME IsArchive, NEW of, NEW raw \in Seq(Rows), Ordered(of, raw, Len(archive))
  PROVE  Len(raw) = Cardinality(Entries)
<1> DEFINE N == Len(raw)
<1>0. N \in Nat /\ Entries \subseteq Nat
  BY EntriesAre
<1>1. of \in [1 .. N -> Entries]
  BY DEF Ordered
<1>2. \A e \in Entries : \E k \in 1 .. N : of[k] = e
  BY EntriesAre DEF Ordered
<1>3. of \in Surjection(1 .. N, Entries)
  BY <1>1, <1>2 DEF Surjection
<1>4. \A k, l \in 1 .. N : of[k] = of[l] => k = l
  <2> SUFFICES ASSUME NEW k \in 1 .. N, NEW l \in 1 .. N, of[k] = of[l], k # l PROVE FALSE
    OBVIOUS
  <2>1. k < l \/ l < k
    BY <1>0
  <2>2. of[k] \in Nat /\ of[l] \in Nat
    BY <1>0, <1>1
  <2>3. of[k] < of[l] \/ of[l] < of[k]
    BY <2>1 DEF Ordered
  <2> QED
    BY <2>2, <2>3
<1>5. of \in Injection(1 .. N, Entries)
  BY <1>1, <1>4 DEF Injection, IsInjective
<1>6. IsFiniteSet(1 .. N) /\ Cardinality(1 .. N) = N
  <2>1. IsFiniteSet(1 .. N) /\ Cardinality(1 .. N) = IF 1 > N THEN 0 ELSE N - 1 + 1
    <3>1. 1 \in Int /\ N \in Int
      BY <1>0
    <3> QED
      BY <3>1, FS_Interval
  <2> QED
    BY <1>0, <2>1
<1>7. Cardinality(Entries) = Cardinality(1 .. N)
  BY <1>3, <1>5, <1>6, FS_Surjection
<1> QED
  BY <1>6, <1>7

LEMMA FinishKeeps == TarInv /\ Finish => TarInv'
<1> SUFFICES ASSUME TarInv, Finish PROVE TarInv'
  OBVIOUS
<1>0. /\ IsArchive /\ TarFields /\ UNCHANGED archive /\ tarRun.step = "members"
      /\ tarRun.at > Len(archive)
      /\ tarRun' = [FlushWords(tarRun) EXCEPT !.step = "complete",
                      !.rows = MarkShadowed(ResolveLinks(FlushWords(tarRun).rows))]
  BY DEF TarInv, Finish
<1>a. PICK raw, rows, freq, flushed :
        /\ raw = tarRun.rows /\ rows = MarkShadowed(ResolveLinks(raw))
        /\ freq = Merged(tarRun.freq, tarRun.buffer) /\ flushed = FlushWords(tarRun)
  OBVIOUS
<1>1. flushed = [step |-> "members", at |-> tarRun.at, mode |-> tarRun.mode,
                 wordStats |-> tarRun.wordStats, rows |-> raw, buffer |-> NoWords,
                 freq |-> freq, summary |-> tarRun.summary]
  <2>1. PICK at, mode, wordStats, buffer, old, summary :
          /\ at = tarRun.at /\ mode = tarRun.mode /\ wordStats = tarRun.wordStats
          /\ buffer = tarRun.buffer /\ old = tarRun.freq /\ summary = tarRun.summary
    OBVIOUS
  <2>2. tarRun = [step |-> "members", at |-> at, mode |-> mode, wordStats |-> wordStats,
                  rows |-> raw, buffer |-> buffer, freq |-> old, summary |-> summary]
    BY <1>0, <1>a, <2>1 DEF TarFields
  <2>3. flushed = [tarRun EXCEPT !.freq = freq, !.buffer = NoWords]
    BY <1>a, <2>1 DEF FlushWords
  <2>4. flushed = [step |-> "members", at |-> at, mode |-> mode, wordStats |-> wordStats,
                   rows |-> raw, buffer |-> NoWords, freq |-> freq, summary |-> summary]
    BY <2>2, <2>3
  <2> QED
    BY <2>1, <2>4
<1>2. tarRun' = [step |-> "complete", at |-> tarRun.at, mode |-> tarRun.mode,
                 wordStats |-> tarRun.wordStats, rows |-> rows, buffer |-> NoWords, freq |-> freq,
                 summary |-> tarRun.summary]
  <2>1. tarRun' = [flushed EXCEPT !.step = "complete", !.rows = rows]
    BY <1>0, <1>a, <1>1
  <2> QED
    BY <1>1, <2>1
<1>3. /\ tarRun'.step = "complete" /\ tarRun'.mode = tarRun.mode /\ tarRun'.wordStats = tarRun.wordStats
      /\ tarRun'.rows = rows /\ tarRun'.freq = freq /\ tarRun'.summary = tarRun.summary
      /\ tarRun'.buffer = NoWords
  BY <1>2
<1>4. /\ raw \in Seq(Rows) /\ Len(raw) \in Nat /\ DOMAIN raw = 1 .. Len(raw)
      /\ \E of : Ordered(of, raw, Len(archive))
      /\ tarRun.summary["unparsed"] = Cardinality(Unparsed(raw))
      /\ tarRun.mode = "full" /\ tarRun.wordStats => \A w \in AllWords : Counted(raw, w)
  <2>1. tarRun.at - 1 = Len(archive)
    BY <1>0, EntriesAre DEF TarInv, Gathered
  <2>2. raw \in Seq(Rows)
    BY <1>0, <1>a DEF TarFields
  <2> QED
    BY <1>0, <1>a, <2>1, <2>2 DEF TarInv, Gathered
<1>5. PICK of : Ordered(of, raw, Len(archive))
  BY <1>4
<1>6. PICK known : known = ResolveLinks(raw) /\ Resolves(known, raw)
  <2>1. PICK a, b, c, d : /\ a = ResolveOnce(raw) /\ b = ResolveOnce(a) /\ c = ResolveOnce(b)
                          /\ d = ResolveOnce(c) /\ ResolveLinks(raw) = ResolveOnce(d)
    BY FivePasses
  <2>2. Resolves(raw, raw)
    BY <1>4 DEF Resolves
  <2>3. Resolves(a, raw) /\ Resolves(b, raw)
    BY <1>4, <2>1, <2>2, ResolveOnceKeeps
  <2>4. Resolves(c, raw) /\ Resolves(d, raw)
    BY <1>4, <2>1, <2>3, ResolveOnceKeeps
  <2> QED
    BY <1>4, <2>1, <2>4, ResolveOnceKeeps
<1>7. Marks(rows, known)
  BY <1>a, <1>6, MarkShadowedMarks DEF Resolves
<1>8. /\ rows \in Seq(Rows) /\ Len(rows) = Len(raw) /\ DOMAIN rows = 1 .. Len(raw)
      /\ Len(known) = Len(raw) /\ known \in Seq(Rows)
  <2>1. rows \in Seq(Rows) /\ Len(rows) = Len(raw)
    BY <1>6, <1>7 DEF Marks, Resolves
  <2> QED
    BY <1>6, <2>1 DEF Resolves
<1>9. TarFields'
  <2>1. WordCounts(NoWords) /\ WordCounts(freq)
    BY <1>0, <1>a, MergedCounts DEF TarFields, WordCounts, NoWords
  <2>2. tarRun' = [step |-> tarRun'.step, at |-> tarRun'.at, mode |-> tarRun'.mode,
                   wordStats |-> tarRun'.wordStats, rows |-> tarRun'.rows, buffer |-> tarRun'.buffer,
                   freq |-> tarRun'.freq, summary |-> tarRun'.summary]
    BY <1>2
  <2>3. tarRun.summary \in [Counters -> Nat]
    BY <1>0 DEF TarFields
  <2> QED
    BY <1>3, <1>8, <2>1, <2>2, <2>3 DEF TarFields, WordCounts
<1>10. AllTold'
  <2>1. Len(raw) = Cardinality(Entries)
    BY <1>0, <1>4, <1>5, OneRowEach
  <2>2. \A k \in 1 .. Len(raw) : "PAX_UNPARSED" \in rows[k].flags <=> "PAX_UNPARSED" \in raw[k].flags
    BY <1>6, <1>7, <1>8 DEF Marks, Resolves
  <2>3. {i \in DOMAIN rows : "PAX_UNPARSED" \in rows[i].flags} = Unparsed(raw)
    BY <1>4, <1>8, <2>2 DEF Unparsed
  <2>4. Entries' = Entries
    BY <1>0 DEF Entries
  <2> QED
    BY <1>3, <1>4, <1>8, <2>1, <2>3, <2>4 DEF AllTold
<1>11. WordsTrue'
  <2> SUFFICES ASSUME tarRun.mode = "full", tarRun.wordStats, NEW w \in AllWords, Saying(rows, w) # {}
               PROVE  /\ w \in DOMAIN freq
                      /\ freq[w] = <<Cardinality(Occurrences(rows, w)), Cardinality(Saying(rows, w))>>
    <3>1. \A w : Saying(tarRun.rows, w)' = Saying(rows, w)
      BY <1>3 DEF Saying
    <3>2. \A w : Occurrences(tarRun.rows, w)' = Occurrences(rows, w)
      BY <1>3, <3>1 DEF Occurrences
    <3> QED
      BY <1>3, <3>1, <3>2 DEF WordsTrue, AllWords
  <2>1. ASSUME NEW k \in 1 .. Len(raw)
        PROVE  rows[k].kind = raw[k].kind /\ (raw[k].kind = "text" => rows[k].hash = raw[k].hash)
    <3>1. IsRowOf(raw[k], archive[of[k]]) /\ of[k] \in Entries
      BY <1>5 DEF Ordered
    <3>2. raw[k].kind = "text" => archive[of[k]].type \notin LinkTypes
      BY <3>1 DEF IsRowOf
    <3>3. raw[k].kind = "text" => archive[of[k]].type \in ContentTypes
      BY <3>1, <3>2 DEF Entries
    <3>4. raw[k].kind = "text" => raw[k].type # "hardlink"
      BY <3>1, <3>3 DEF IsRowOf
    <3> QED
      BY <1>6, <1>7, <1>8, <3>4 DEF Marks, Resolves
  <2>2. Saying(rows, w) = Saying(raw, w)
    BY <1>4, <1>8, <2>1 DEF Saying
  <2>3. \A i \in Saying(raw, w) : rows[i].hash = raw[i].hash
    BY <1>4, <2>1 DEF Saying
  <2>4. Occurrences(rows, w) = Occurrences(raw, w)
    BY <2>2, <2>3 DEF Occurrences
  <2>5. /\ CountOf(tarRun.freq, w)[1] + CountOf(tarRun.buffer, w)[1] = Cardinality(Occurrences(raw, w))
        /\ CountOf(tarRun.freq, w)[2] + CountOf(tarRun.buffer, w)[2] = Cardinality(Saying(raw, w))
    BY <1>4 DEF Counted
  <2>6. /\ WordCounts(freq)
        /\ CountOf(freq, w)[1] = CountOf(tarRun.freq, w)[1] + CountOf(tarRun.buffer, w)[1]
        /\ CountOf(freq, w)[2] = CountOf(tarRun.freq, w)[2] + CountOf(tarRun.buffer, w)[2]
    BY <1>0, <1>a, MergedCounts DEF TarFields
  <2>7. /\ CountOf(freq, w)[1] = Cardinality(Occurrences(rows, w))
        /\ CountOf(freq, w)[2] = Cardinality(Saying(rows, w))
    BY <2>2, <2>4, <2>5, <2>6
  <2>8. w \in DOMAIN freq
    <3>1. Cardinality(Saying(rows, w)) # 0
      <4>1. Saying(rows, w) \subseteq 1 .. Len(raw)
        BY <1>8 DEF Saying
      <4>2. IsFiniteSet(1 .. Len(raw))
        <5>1. 1 \in Int /\ Len(raw) \in Int
          BY <1>4
        <5> QED
          BY <5>1, FS_Interval
      <4>3. IsFiniteSet(Saying(rows, w))
        BY <4>1, <4>2, FS_Subset
      <4> QED
        BY <4>3, FS_EmptySet
    <3>2. CountOf(freq, w)[2] # 0
      BY <2>7, <3>1
    <3> QED
      BY <3>2 DEF CountOf
  <2>9. freq[w] \in Nat \X Nat /\ CountOf(freq, w) = freq[w]
    BY <2>6, <2>8 DEF WordCounts, CountOf
  <2>10. freq[w] = <<CountOf(freq, w)[1], CountOf(freq, w)[2]>>
    BY <2>9
  <2> QED
    BY <2>7, <2>8, <2>10
<1>12. RowsTrue'
  <2>1. Entries' = Entries /\ Links' = Links /\ Extracted' = Extracted
    BY <1>0 DEF Links, Entries, Extracted
  <2>2. Plainly' = Plainly
    BY <1>0, <2>1 DEF Plainly, Replaced, LookAlike, HiddenMap
  <2> DEFINE nameOf(i) == IF rows[i].name.raw = NoValue THEN rows[i].name.text ELSE rows[i].name.raw
             final == {i \in DOMAIN rows : "SHADOWED" \notin rows[i].flags}
  <2>3. SUFFICES ASSUME Plainly, NEW p \in DOMAIN Extracted
                 PROVE  \E i \in final :
                          /\ nameOf(i) = p /\ \A j \in final : nameOf(j) = p => j = i
                          /\ \/ rows[i].hash = Extracted[p]
                             \/ rows[i].hash = NoValue /\ MayNotKnow(i)'
                             \/ "PAX_UNPARSED" \in rows[i].flags
    <3> HIDE DEF final, nameOf
    <3>1. final = {i \in DOMAIN rows : "SHADOWED" \notin rows[i].flags}
      BY DEF final
    <3>2. \A i : nameOf(i) = IF rows[i].name.raw = NoValue THEN rows[i].name.text ELSE rows[i].name.raw
      BY DEF nameOf
    <3> QED
      BY <1>3, <2>1, <2>2, <3>1, <3>2 DEF RowsTrue
  <2>4. Read(of, raw) /\ ~(HiddenMap /\ Links # {})
    BY <1>0, <1>4, <1>5, <2>3 DEF Read, Plainly
  <2>5. PICK k \in 1 .. Len(raw) :
          NameOf(archive[of[k]]) = p /\ Last(of[k]) /\ Known(known, k, Extracted[p])
    BY <1>6, <2>4, KnownRow
  <2>6. \A i \in 1 .. Len(raw) : rows[i].name = known[i].name /\ nameOf(i) = NameOf(archive[of[i]])
    <3>1. \A i \in 1 .. Len(raw) : rows[i].name = known[i].name
      BY <1>7, <1>8 DEF Marks
    <3> QED
      BY <1>6, <2>4, <3>1, TextOfRow
  <2>7. \A i, j \in 1 .. Len(raw) :
          NameOf(archive[of[i]]) = NameOf(archive[of[j]]) => known[i].name.text = known[j].name.text
    BY <1>6, <2>4, TextOfRow
  <2>8. ASSUME NEW j \in 1 .. Len(raw)
        PROVE  j \in final <=> \A l \in 1 .. Len(raw) : known[l].name.text = known[j].name.text => l <= j
    <3>1. IsRowOf(raw[j], archive[of[j]])
      BY <1>5 DEF Ordered
    <3>2. "SHADOWED" \notin raw[j].flags /\ known[j].flags = raw[j].flags
      <4>1. Len(raw) \in Nat /\ of[j] \in Entries
        BY <1>4, <1>5 DEF Ordered
      <4> QED
        BY <1>6, <3>1 DEF IsRowOf, Resolves
    <3> QED
      BY <1>7, <1>8, <3>2 DEF Marks
  <2>9. k \in final
    <3> SUFFICES ASSUME NEW l \in 1 .. Len(raw), known[l].name.text = known[k].name.text PROVE l <= k
      BY <2>8
    <3>1. NameOf(archive[of[l]]) = NameOf(archive[of[k]])
      BY <1>6, <2>4, TextOfRow
    <3>2. of[l] <= of[k] /\ of[l] \in Nat /\ of[k] \in Nat
      BY <2>4, <2>5, <3>1, RowOfEntry DEF Last
    <3>3. ~(of[k] < of[l])
      BY <3>2
    <3>4. ~(k < l)
      BY <2>4, <3>3, RowOfEntry
    <3> QED
      BY <1>4, <3>4
  <2>10. ASSUME NEW j \in final, nameOf(j) = p PROVE j = k
    <3>1. j \in 1 .. Len(raw)
      BY <1>8
    <3>2. known[j].name.text = known[k].name.text
      BY <2>5, <2>6, <2>7, <2>10, <3>1
    <3>3. j <= k /\ k <= j
      BY <2>8, <2>9, <3>1, <3>2
    <3> QED
      BY <1>4, <3>1, <3>3
  <2>11. /\ rows[k].hash = known[k].hash /\ rows[k].type = known[k].type
         /\ \A f \in {"READ_ERROR", "SPARSE", "PAX_UNPARSED"} : f \in known[k].flags => f \in rows[k].flags
    BY <1>7, <1>8 DEF Marks
  <2>12. TargetHash(rows, k) = TargetHash(known, k)
    <3>1. \A l \in 1 .. Len(raw) : /\ rows[l].name = known[l].name /\ rows[l].target = known[l].target
                                   /\ rows[l].hash = known[l].hash
      BY <1>7, <1>8 DEF Marks
    <3>2. DOMAIN known = 1 .. Len(raw)
      BY <1>8
    <3>3. RowsNamed(rows, rows[k].target.text) = RowsNamed(known, known[k].target.text)
      BY <1>8, <3>1, <3>2 DEF RowsNamed
    <3>4. RowsNamed(rows, rows[k].target.text) \in SUBSET (1 .. Len(raw))
      BY <1>8 DEF RowsNamed
    <3>5. RowsNamed(rows, rows[k].target.text) # {} =>
            rows[Max(RowsNamed(rows, rows[k].target.text))].hash
              = known[Max(RowsNamed(rows, rows[k].target.text))].hash
      BY <1>4, <3>1, <3>4, LastPosition
    <3> QED
      BY <3>1, <3>3, <3>5 DEF TargetHash
  <2>13. \/ rows[k].hash = Extracted[p]
         \/ rows[k].hash = NoValue /\ MayNotKnow(k)'
         \/ "PAX_UNPARSED" \in rows[k].flags
    BY <1>3, <2>1, <2>5, <2>11, <2>12 DEF Known, MayNotKnow, TargetHash
  <2>14. nameOf(k) = p
    BY <2>5, <2>6
  <2> HIDE DEF final, nameOf
  <2> QED
    BY <2>9, <2>10, <2>13, <2>14
<1>13. Gathered'
  BY <1>3 DEF Gathered
<1> QED
  BY <1>0, <1>3, <1>9, <1>10, <1>11, <1>12, <1>13, SameMembers DEF TarInv

LEMMA TarNextInv == TarInv /\ [TarNext]_tarVars => TarInv'
<1> SUFFICES ASSUME TarInv, [TarNext]_tarVars PROVE TarInv'
  OBVIOUS
<1>1. CASE CorruptMember
  BY <1>1, EndedKeeps DEF CorruptMember, AtMember
<1>2. CASE CancelTar
  BY <1>2, EndedKeeps DEF CancelTar
<1>3. CASE UNCHANGED tarVars
  <2>1. TarInv' = TarInv
    BY <1>3, SMTT(30) DEF tarVars, TarInv, IsArchive, TarFields, WordCounts, Gathered, Ordered, IsRowOf, Entries,
       Unparsed, Counted, CountOf, Occurrences, Saying, AllTold, WordsTrue, RowsTrue, MayNotKnow,
       Plainly, Replaced, LookAlike, HiddenMap, Links, Extracted
  <2> QED
    BY <2>1
<1> QED
  BY <1>1, <1>2, <1>3, SkipKeeps, LinkKeeps, UnreadKeeps, ReadKeeps, FinishKeeps, PromoteKeeps
     DEF TarNext

\* The inductive invariant holds of every run over every archive.
THEOREM TarInvariant == TarSpec => []TarInv
<1> QED
  BY TarInitInv, TarNextInv, PTL DEF TarSpec

\* A promoted index tells what the archive holds and what its extraction leaves
\* (index_tar and finalize_v3).
THEOREM TarIsTrue == TarSpec => []TarTrue
<1>1. TarInv => TarTrue
  BY DEF TarInv, TarTrue
<1> QED
  BY <1>1, TarInvariant, PTL

=============================================================================
