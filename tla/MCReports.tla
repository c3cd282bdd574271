----------------------------- MODULE MCReports -----------------------------
(***************************************************************************)
(* Finite instances of Reports for TLC: two sources, or two indexes to     *)
(* compare, of up to two entries.                                          *)
(***************************************************************************)
EXTENDS Reports

CONSTANTS photo, note, bad, worse, garbled, small, large, empty

Lengths == [c \in {small, large, empty} |->
              CASE c = small -> 1 [] c = large -> 2 [] c = empty -> 0]
\* Two names that are not UTF-8 and the text that both are shown as.
Renderings == [n \in {photo, note, bad, worse, garbled} |-> IF n \in {bad, worse} THEN garbled ELSE n]

FileOf(n, c) ==
  [name |-> n, entry |-> "file", content |-> c, hash |-> c, size |-> Lengths[c],
   flags |-> {}, stat |-> 1, kind |-> "text"]
Other(n, c, entry) == [FileOf(n, c) EXCEPT !.entry = entry]
NotHashed(n, c) == [FileOf(n, c) EXCEPT !.hash = None, !.kind = None]
ReadError(n, c, hash) == [FileOf(n, c) EXCEPT !.hash = hash, !.flags = {"READ_ERROR"}, !.size = 1]
Pax(n, c, hash) == [FileOf(n, c) EXCEPT !.hash = hash, !.flags = {"PAX_UNPARSED"}, !.size = 2]
Sparse(n, c, hash) == [FileOf(n, c) EXCEPT !.hash = hash, !.flags = {"SPARSE"}, !.size = 1]

Whole(held) ==
  [uuid |-> 1, readable |-> TRUE, schema |-> TRUE, algo |-> TRUE, signed |-> TRUE,
   completed |-> TRUE, mode |-> "full", pathRaw |-> TRUE, entries |-> held,
   indexed |-> Len(held), type |-> "archive", source |-> "exact", stat |-> 1]

UpTo2(alphabet) == {<<>>} \union {<<x>> : x \in alphabet} \union {<<x, y>> : x, y \in alphabet}

-----------------------------------------------------------------------------
(* What diff compares. *)
PlainFiles == {FileOf(photo, small), FileOf(photo, large), FileOf(note, small), FileOf(bad, small), FileOf(worse, small),
          [FileOf(photo, small) EXCEPT !.stat = 2]}
Single == {FileOf(photo, empty), FileOf(note, empty), FileOf(garbled, small), [FileOf(photo, small) EXCEPT !.stat = None]}
Doubtful == {NotHashed(photo, small), ReadError(photo, small, large), Pax(photo, large, small),
             Sparse(note, large, None), Sparse(photo, large, large), Other(note, small, "symlink"),
             Other(note, large, "hardlink")}

Whole2 == {Whole(e) : e \in UpTo2(PlainFiles)} \union {Whole(<<x>>) : x \in Single \union Doubtful}
          \union {Whole(<<x, y>>) : x \in Doubtful, y \in {FileOf(note, small), FileOf(photo, large)}}
\* An archive whose second entry of a name was not read.
Twice == [Whole(<<FileOf(photo, small), FileOf(photo, large)>>) EXCEPT !.completed = FALSE, !.indexed = 1]
OddIndexes == UNION {{[x EXCEPT !.completed = FALSE, !.indexed = 1],
               [x EXCEPT !.readable = FALSE], [x EXCEPT !.algo = FALSE]}
              : x \in {Whole(<<FileOf(note, small), FileOf(photo, small)>>)}}
       \union {Twice}
       \union {[Whole(e) EXCEPT !.pathRaw = FALSE] :
               e \in UpTo2({FileOf(bad, small), FileOf(worse, large), FileOf(photo, large)})}

AtHome == [kind |-> "file", opens |-> TRUE, stat |-> 1]
Idle == [kind |-> "file", links |-> 1, sidecar |-> FALSE, signed |-> TRUE, version |-> 1,
         status |-> <<"ok", "ok">>]

Second2(indexes) == {[x EXCEPT !.uuid = 2] : x \in indexes}
Job(first, xs, ys) ==
  [first |-> first, idx |-> xs \X Second2(ys), live |-> {<<AtHome, AtHome>>}, master |-> {Idle},
   events |-> {"none"}, archives |-> {<<>>}, protected |-> {<<>>}, paths |-> {<<1, 2>>}]

Diffs == <<Job("before", Whole2 \union OddIndexes, Whole2 \union OddIndexes)>>

-----------------------------------------------------------------------------
(* What coverage reads. *)
Held == {<<FileOf(photo, small)>>, <<FileOf(photo, small), FileOf(note, large)>>, <<FileOf(photo, small), FileOf(photo, large)>>,
         <<FileOf(photo, empty), FileOf(note, small)>>, <<ReadError(photo, small, None), FileOf(note, small)>>,
         <<ReadError(photo, small, large), FileOf(note, large)>>, <<Pax(photo, small, large), FileOf(note, small)>>,
         <<Sparse(photo, large, None), FileOf(note, large)>>, <<NotHashed(photo, large), FileOf(note, small)>>,
         <<Sparse(photo, large, large)>>, <<NotHashed(photo, small)>>,
         <<FileOf(photo, small), Other(note, small, "hardlink")>>, <<FileOf(photo, large), Other(note, small, "hardlink")>>,
         <<Other(photo, small, "symlink")>>}
OldEntries == {<<FileOf(bad, small), FileOf(worse, large)>>, <<FileOf(photo, large), FileOf(bad, small)>>,
        <<Sparse(photo, large, small)>>}
FirstIndexes == {Whole(e) : e \in Held}
         \union {[Whole(e) EXCEPT !.pathRaw = FALSE, !.mode = None] : e \in OldEntries}
         \union {[Whole(<<FileOf(photo, small), FileOf(note, large)>>) EXCEPT !.completed = FALSE, !.indexed = 1],
                 Twice,
                 [Whole(<<FileOf(photo, small)>>) EXCEPT !.readable = FALSE],
                 [Whole(<<FileOf(photo, small)>>) EXCEPT !.algo = FALSE],
                 [Whole(<<NotHashed(photo, small)>>) EXCEPT !.mode = "metadata-only"],
                 [Whole(<<FileOf(photo, small)>>) EXCEPT !.mode = "metadata-only"],
                 Whole(<<Other(photo, small, "unsupported"), FileOf(note, small)>>)}
SecondIndexes == {Whole(<<FileOf(photo, small)>>), Whole(<<FileOf(note, small), FileOf(photo, large)>>),
           Whole(<<ReadError(note, large, None)>>)}

Lives == {AtHome, [AtHome EXCEPT !.kind = "gone"], [AtHome EXCEPT !.kind = "denied"],
          [AtHome EXCEPT !.opens = FALSE], [AtHome EXCEPT !.stat = 2],
          [AtHome EXCEPT !.kind = "other"]}

One == {Whole(<<FileOf(photo, small)>>)}
Ones == {[x EXCEPT !.source = from, !.stat = stat] :
           x \in One, from \in {"exact", "lossy", None}, stat \in {1, None}}
Dirs == {[x EXCEPT !.type = "dir", !.stat = None] : x \in One}
HereOr(states) == {<<l, AtHome>> : l \in states}
OfKind == {[AtHome EXCEPT !.kind = k] : k \in LiveKinds}
Recording(statuses) == {[Idle EXCEPT !.status[1] = status] : status \in statuses}

Adhoc == Job("given", FirstIndexes, SecondIndexes)
RegisteredJob == [Job("check", One, SecondIndexes) EXCEPT
  !.master = Recording(Statuses \union ReplicaOnly \union {"unheard-of"})]
Chosen2 == {<<>>, <<{1}>>, <<{1}, {1}>>, <<{1, 2}>>}

AllJobs == Diffs \o
  <<Adhoc,
    [Job("given", Ones, SecondIndexes) EXCEPT !.live = HereOr(Lives)],
    [Job("given", Dirs, SecondIndexes) EXCEPT !.live = HereOr(OfKind)],
    RegisteredJob,
    [RegisteredJob EXCEPT !.master = {[Idle EXCEPT !.sidecar = TRUE], [Idle EXCEPT !.kind = "symlink"],
                                   [Idle EXCEPT !.links = 2], [Idle EXCEPT !.signed = FALSE]}],
    [Adhoc EXCEPT !.paths = {<<1, 1>>}],
    [Adhoc EXCEPT !.idx = {<<x, x>> : x \in FirstIndexes}],
    [Adhoc EXCEPT !.archives = Chosen2, !.protected = Chosen2 \union {<<{2}>>}],
    [RegisteredJob EXCEPT !.events = {"source", "index", "master"}, !.master = Recording({"ok", "stale_replica"})],
    [Job("given", One \union Dirs, SecondIndexes) EXCEPT !.events = {"source", "index"}]>>

SomeIndexes == {[Whole(<<FileOf(note, large)>>) EXCEPT !.uuid = 3]}
SomeStatuses == {"ok", "stale_index"}
NoFilter == [minCopies |-> 2, minSize |-> 0, includeEmpty |-> FALSE, protected |-> {},
             kind |-> None, paths |-> {photo, note, bad, worse, garbled}]
SomeParams == {NoFilter, [NoFilter EXCEPT !.minCopies = 1], [NoFilter EXCEPT !.minCopies = 0],
               [NoFilter EXCEPT !.includeEmpty = TRUE, !.minSize = 1],
               [NoFilter EXCEPT !.minSize = 2], [NoFilter EXCEPT !.paths = {note}],
               [NoFilter EXCEPT !.kind = "text"], [NoFilter EXCEPT !.kind = "song"]}

-----------------------------------------------------------------------------
(* No report is made: one was refused. *)
ReportsIdle ==
  /\ idx = [s \in Source |-> Whole(<<>>)]
  /\ live = [s \in Source |-> AtHome] /\ master = Idle
  /\ world = [left |-> "none", live |-> [s \in Source |-> {AtHome}], registry |-> {Idle.status}]
  /\ cmd = [step |-> "refused", stamp |-> 0, todo |-> {}, seen |-> [s \in Source |-> None],
            loaded |-> [s \in Source |-> None]]
=============================================================================
