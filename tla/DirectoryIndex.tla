--------------------------- MODULE DirectoryIndex ---------------------------
(***************************************************************************)
(* Indexing a directory (src/core/source_dir.rs, source_dir/reuse.rs): the *)
(* tree is stamped, walked and stamped again while other programs change   *)
(* it, and what was derived of a file before is used again when its bytes  *)
(* hash to the same.  A stamp stands for device, inode, size, mode, links, *)
(* mtime and ctime; every change makes a new one.  Stages and promotion    *)
(* are those of IndexFile.                                                 *)
(***************************************************************************)
EXTENDS Processing, FiniteSetsExt, Functions

CONSTANTS
  Path,  \* the numbers of the names in the directory, in their order
  Walks  \* sequence of the trees, modes, prior indexes and changes explored

VARIABLES
  tree,   \* the directory
  dirRun  \* the index run

dirVars == <<tree, dirRun>>

NodeTypes == {"file", "link", "fifo"}
CannotStat == 0
Clock0 == 9

Node ==
  [type : NodeTypes, bytes : Bytes, ino : Nat, stamp : Nat, stats : BOOLEAN, opens : BOOLEAN]

There(p) == tree.node[p] # NoValue
StampAt(p) == IF There(p) /\ tree.node[p].stats THEN tree.node[p].stamp ELSE CannotStat
Listing == {p \in Path : There(p)}

-----------------------------------------------------------------------------
\* Results that were complete and that this version understands.
Reusable(o) == o.hash # NoValue /\ o.flags \subseteq {"FTS_TRUNCATED", "IMAGE_OVER_CAP"}

\* Who wrote results of this version with the same rules processed the bytes as
\* would be done now.
Sound(prior) ==
  prior.sameRules =>
    \A p \in DOMAIN prior.rows :
      Reusable(prior.rows[p]) => prior.rows[p] = Fresh(p, prior.rows[p].hash)

ASSUME DirectoryAssumption ==
  /\ Path \subseteq Nat
  /\ NoValue \notin Node /\ NoValue \notin Bytes
  /\ \A names \in SUBSET Path : NoValue \notin [names -> Nat]
  /\ \A i \in DOMAIN Walks :
       /\ Walks[i].nodes \subseteq [Path -> Node \union {NoValue}]
       /\ \A nodes \in Walks[i].nodes, p \in Path :
            nodes[p] # NoValue => nodes[p].stamp \in 1 .. Clock0
       /\ Walks[i].changes \subseteq Node \union {NoValue}
       /\ \A prior \in Walks[i].priors \ {NoValue} : Sound(prior)

SeedCompatible(prior, mode) == prior # NoValue /\ mode = "full" /\ prior.sameRules

Cached(prior, p) ==
  IF prior # NoValue /\ p \in DOMAIN prior.rows /\ Reusable(prior.rows[p])
  THEN prior.rows[p] ELSE NoValue

Process(p, c, cached) == IF cached # NoValue /\ cached.hash = c THEN cached ELSE Fresh(p, c)

-----------------------------------------------------------------------------
(***************************************************************************)
(* The run.                                                                *)
(***************************************************************************)
DirAt(step) == dirRun.step = step /\ UNCHANGED tree
DirGoes(step) == dirRun' = [dirRun EXCEPT !.step = step]
DirFails == DirGoes("failed")

OpenPrevious ==
  /\ DirAt("prior")
  /\ dirRun' = [dirRun EXCEPT !.step = "list",
                  !.prior = IF SeedCompatible(@, dirRun.mode) THEN @ ELSE NoValue]

\* snapshot_tree, and the walks: the names, then one after the other.
List ==
  /\ DirAt("list")
  /\ dirRun' = [dirRun EXCEPT !.step = "stamp", !.todo = Listing, !.stamps = <<>>,
                              !.dirStamp = tree.stamp]

Next1 == Min(dirRun.todo)
WithStamp(f, p, s) == [q \in DOMAIN f \union {p} |-> IF q = p THEN s ELSE f[q]]

StampNext ==
  /\ DirAt("stamp") /\ dirRun.todo # {}
  /\ dirRun' = [dirRun EXCEPT !.todo = @ \ {Next1}, !.stamps = WithStamp(@, Next1, StampAt(Next1))]

\* Between the snapshots the files are counted, and walked.
Stamped ==
  /\ DirAt("stamp") /\ dirRun.todo = {}
  /\ dirRun' = IF dirRun.before = NoValue
               THEN [dirRun EXCEPT !.step = "count", !.before = dirRun.stamps,
                                   !.dirBefore = dirRun.dirStamp]
               ELSE [dirRun EXCEPT !.step = "compare"]

CountEntries ==
  /\ DirAt("count")
  /\ dirRun' = [dirRun EXCEPT !.step = "walk", !.total = Cardinality(Listing)]

Walk ==
  /\ DirAt("walk")
  /\ dirRun' = [dirRun EXCEPT !.step = "entry", !.todo = Listing]

Recorded(row) ==
  [dirRun EXCEPT !.rows = WithStamp(@, Next1, row), !.todo = @ \ {Next1}, !.step = "entry"]
Row(type, o, stamp) == [type |-> type, outcome |-> o, stamp |-> stamp]
Degrade ==
  dirRun' = [Recorded(Row("file", ReadFailed, CannotStat)) EXCEPT !.degraded = @ \union {Next1}]

\* The stat of an entry, and what it leads to.
StatEntry ==
  /\ DirAt("entry") /\ dirRun.todo # {}
  /\ LET p == Next1 IN
     IF StampAt(p) = CannotStat THEN Degrade
     ELSE LET n == tree.node[p]
              to(step) == dirRun' = [dirRun EXCEPT !.step = step, !.md = n] IN
          IF n.type = "link" THEN to("link")
          ELSE IF n.type # "file" \/ (p \in DOMAIN dirRun.before /\ dirRun.before[p] = CannotStat)
               THEN Degrade
          ELSE IF dirRun.mode = "metadata-only"
               THEN dirRun' = Recorded(Row("file", NoValue, n.stamp))
          ELSE to("check")

ReadLink ==
  /\ DirAt("link")
  /\ LET n == tree.node[Next1]
         target == IF There(Next1) /\ n.type = "link" THEN n.bytes ELSE NoValue
     IN dirRun' = Recorded(Row("link", Outcome(target, "link", {}), dirRun.md.stamp))

\* open_regular: a look, an open that neither waits nor follows, a look.
CheckEntry ==
  /\ DirAt("check")
  /\ IF StampAt(Next1) # CannotStat /\ tree.node[Next1].type = "file" THEN DirGoes("open") ELSE Degrade

OpenEntry ==
  /\ DirAt("open")
  /\ IF There(Next1) /\ tree.node[Next1].type = "file" /\ tree.node[Next1].opens
     THEN dirRun' = [dirRun EXCEPT !.step = "first", !.handle = tree.node[Next1]]
     ELSE Degrade

SameInode == There(Next1) /\ tree.node[Next1].ino = dirRun.handle.ino
HandleBytes == IF SameInode THEN tree.node[Next1].bytes ELSE dirRun.handle.bytes
\* The stamp of the handle still tells of a file that was unlinked.
HandleStamp == IF SameInode THEN tree.node[Next1].stamp ELSE CannotStat

Expected(before, p, stamp) == p \in DOMAIN before /\ before[p] = stamp

ReadFirst ==
  /\ DirAt("first")
  /\ IF HandleStamp = dirRun.handle.stamp /\ Expected(dirRun.before, Next1, HandleStamp)
     THEN dirRun' = [dirRun EXCEPT !.step = "rest", !.half = HandleBytes]
     ELSE DirFails

ReadRest ==
  /\ DirAt("rest")
  /\ LET c == IF HandleBytes = dirRun.half THEN dirRun.half ELSE Torn
         cached == Cached(dirRun.prior, Next1) IN
     \/ dirRun' = [dirRun EXCEPT !.step = "recheck", !.read = Process(Next1, c, cached)]
     \/ /\ dirRun.readErrors
        /\ dirRun' = [dirRun EXCEPT !.step = "recheck", !.read = ReadFailed]

RecheckEntry ==
  /\ DirAt("recheck")
  /\ IF HandleStamp = dirRun.handle.stamp /\ StampAt(Next1) = dirRun.handle.stamp
     THEN dirRun' = Recorded(Row("file", dirRun.read, dirRun.md.stamp))
     ELSE DirFails

WalkEnds ==
  /\ DirAt("entry") /\ dirRun.todo = {} /\ DirGoes("list")

\* Faulty variant: only the names of the two snapshots are compared.
NamesMatch(before, after, degraded, dirSame) ==
  DOMAIN before \ degraded = DOMAIN after \ degraded
\* A degraded row claims nothing: its path is ignored, and with it the stamp
\* of the directory that holds it.
SnapshotsMatch(before, after, degraded, dirSame) ==
  /\ Restrict(before, DOMAIN before \ degraded) = Restrict(after, DOMAIN after \ degraded)
  /\ dirSame \/ degraded # {}

\* The prior index may turn out to have changed while it was in use.
Compare ==
  /\ DirAt("compare")
  /\ \/ dirRun.prior # NoValue /\ DirFails
     \/ IF SnapshotsMatch(dirRun.before, dirRun.stamps, dirRun.degraded,
                          dirRun.dirBefore = dirRun.dirStamp)
        THEN DirGoes("promoted") ELSE DirFails

CancelRun ==
  /\ dirRun.step \in {"list", "stamp", "count", "entry", "rest", "compare"} /\ UNCHANGED tree
  /\ dirRun.cancels /\ DirGoes("cancelled")

DirCommand ==
  \/ OpenPrevious \/ List \/ StampNext \/ Stamped \/ CountEntries \/ Walk \/ StatEntry \/ ReadLink
  \/ CheckEntry \/ OpenEntry \/ ReadFirst \/ ReadRest \/ RecheckEntry \/ WalkEnds \/ Compare
  \/ CancelRun

\* A file is written in place, replaced, created, removed, closed to the user.
\* A link has its target for life.
TreeChanges ==
  /\ dirRun.step \notin {"none", "prior", "promoted", "failed", "cancelled"} /\ tree.left > 0
  /\ \E p \in Path, n \in dirRun.changes :
       LET clock == tree.clock + 1
           old == tree.node[p]
           inPlace == /\ n # NoValue /\ old # NoValue /\ n.ino = 0 /\ n.type = old.type
                      /\ n.type = "link" => n.bytes = old.bytes /\ n.stats = old.stats
           new == IF n = NoValue THEN n
                  ELSE [n EXCEPT !.stamp = clock, !.ino = IF inPlace THEN old.ino ELSE clock]
       IN /\ new # old
          /\ tree' = [tree EXCEPT !.node[p] = new, !.clock = clock, !.left = @ - 1,
                                  !.stamp = IF inPlace THEN @ ELSE clock]
          /\ dirRun' = [dirRun EXCEPT !.moments = @ \union {tree'.node}]

DirectoryIdle == tree = NoValue /\ dirRun = [step |-> "none"]

DirectoryInit ==
  \E i \in DOMAIN Walks : LET w == Walks[i] IN
  \E nodes \in w.nodes, mode \in w.modes, prior \in w.priors :
    /\ tree = [node |-> nodes, stamp |-> 1, clock |-> Clock0, left |-> w.left]
    /\ dirRun = [step |-> "prior", mode |-> mode, prior |-> prior, readErrors |-> w.readErrors,
                 cancels |-> w.cancels, changes |-> w.changes,
                 todo |-> {}, stamps |-> <<>>, dirStamp |-> 0, before |-> NoValue,
                 dirBefore |-> 0, total |-> 0, md |-> NoValue, handle |-> NoValue,
                 half |-> NoValue, read |-> NoValue, rows |-> <<>>, degraded |-> {},
                 moments |-> {nodes}]

DirectoryNext == DirCommand \/ TreeChanges

DirectorySpec == DirectoryInit /\ [][DirectoryNext]_dirVars

-----------------------------------------------------------------------------
\* A row says of a node what processing it afresh would.
Describes(p, row, n) ==
  \/ row.outcome = ReadFailed
  \/ /\ n # NoValue /\ row.type = n.type /\ row.stamp = n.stamp
     /\ CASE n.type = "link" -> row.outcome.hash = n.bytes
          [] OTHER -> row.outcome = IF dirRun.mode = "metadata-only" THEN NoValue
                                    ELSE Fresh(p, n.bytes)

\* An entry that no snapshot could stamp, in a directory whose own stamp is
\* ignored for the sake of a degraded one.
Unwatched(p) ==
  dirRun.degraded # {} /\ ~(p \in DOMAIN dirRun.before /\ dirRun.before[p] # CannotStat)

\* A promoted index is the tree at one moment, as processing all of it afresh at
\* that moment would have it, but for the entries whose rows claim nothing and
\* those that nothing watched.
PointInTime ==
  dirRun.step = "promoted" =>
    \E m \in dirRun.moments : \A p \in Path :
      IF p \in DOMAIN dirRun.rows THEN Unwatched(p) \/ Describes(p, dirRun.rows[p], m[p])
      ELSE m[p] = NoValue

=============================================================================
