-------------------------------- MODULE Diff --------------------------------
(***************************************************************************)
(* The comparison of two loaded indexes (src/core/diff.rs) and what it     *)
(* says of move inference (diff_input.rs).  The report is about what the   *)
(* two sources held when they were indexed, and says so only when it can.  *)
(***************************************************************************)
EXTENDS Evidence

Change(kind, old, new) == [kind |-> kind, before |-> old, after |-> new]

SamePath(old, new) ==
  IF old.entry # "file" \/ new.entry # "file" THEN "Inconclusive"
  ELSE LET a == TrustedHash(old)
           b == TrustedHash(new)
       IN CASE a = None \/ b = None -> "Inconclusive"
            [] a # None /\ b # None /\ a # b -> "ContentChanged"
            [] a # None /\ a = b /\ old.size # new.size -> "Inconclusive"
            [] OTHER -> IF old.stat = None \/ new.stat = None THEN "Inconclusive"
                        ELSE IF old.stat = new.stat THEN "ByteIdentical"
                        ELSE "MetadataOnlyChanged"

\* Faulty variant: a lossy name is at no other path.
CouldHoldNothing(rows, path) == FALSE

\* Whether a row of unknown name could be the one at path.
CouldHold(rows, path) == \E r \in Uncertain(rows) : CouldBe(r.path, path)

\* Faulty variant: a hash that occurs more than once will do for a move.
UniqueOrNot(s) ==
  IF s.state # "Complete" \/ \E r \in s.rows : TrustedHash(r) = None THEN {} ELSE s.rows

\* Rows that are the only ones with their content: shadowed rows count, and
\* one row of unknown content is enough for there to be none.
Unique(s) ==
  IF s.state # "Complete" \/ \E r \in s.rows : TrustedHash(r) = None THEN {}
  ELSE {r \in s.rows : \A q \in s.rows : q # r => TrustedHash(q) # TrustedHash(r)}

Both(before, after) == before.compatible /\ after.compatible

InPlace(before, after) ==
  {p \in Visible(before.rows) \X Visible(after.rows) : p[1].path = p[2].path}

Missing(rows, other) == {r \in Visible(rows) : \A q \in Visible(other) : q.path # r.path}

IsMove(before, after, o, n) ==
  /\ Both(before, after)
  /\ ~CouldHold(after.rows, o.path) /\ ~CouldHold(before.rows, n.path)
  /\ o.size > 0 /\ o.size = n.size
  /\ \E u \in Unique(before) : TrustedHash(u) = TrustedHash(o)
  /\ n \in Unique(after) /\ TrustedHash(n) = TrustedHash(o)

Moves(before, after) ==
  {p \in Missing(before.rows, after.rows) \X Missing(after.rows, before.rows) :
     IsMove(before, after, p[1], p[2])}

\* An addition or removal that the other index can and cannot establish.
Absence(other, before, after, kind) ==
  IF other.state \in {"Unavailable", "Incomplete"} \/ ~Both(before, after)
  THEN "Inconclusive" ELSE kind

Changes(before, after) ==
  LET place == InPlace(before, after)
      moves == Moves(before, after)
      movedFrom == {m[1] : m \in moves}
      movedTo == {m[2] : m \in moves}
      kindIn(other, r, kind) ==
        IF CouldHold(other.rows, r.path) THEN "Inconclusive"
        ELSE Absence(other, before, after, kind)
  IN {Change(IF Both(before, after) THEN SamePath(p[1], p[2]) ELSE "Inconclusive", p[1], p[2])
        : p \in place}
     \union {Change("Moved", m[1], m[2]) : m \in moves}
     \union {Change(kindIn(after, o, "Removed"), o, None)
        : o \in Missing(before.rows, after.rows) \ movedFrom}
     \union {Change(kindIn(before, n, "Added"), None, n)
        : n \in Missing(after.rows, before.rows) \ movedTo}
     \union {Change("Inconclusive", o, None) : o \in Uncertain(before.rows)}
     \union {Change("Inconclusive", None, n) : n \in Uncertain(after.rows)}

\* Faulty variant: rows that prove nothing do not count.
ComparisonStateOfIndexes(before, after, changes) ==
  IF "Unavailable" \in {before.state, after.state} THEN "Unavailable"
  ELSE IF ~Both(before, after) THEN "Incompatible"
  ELSE IF "Incomplete" \in {before.state, after.state} THEN "Incomplete" ELSE "Complete"

ComparisonState(before, after, changes) ==
  IF "Unavailable" \in {before.state, after.state} THEN "Unavailable"
  ELSE IF ~Both(before, after) THEN "Incompatible"
  ELSE IF \/ "Incomplete" \in {before.state, after.state}
          \/ \E c \in changes : c.kind = "Inconclusive"
  THEN "Incomplete" ELSE "Complete"

\* Why no move could be looked for: both indexes whole, every hash trusted.
MoveInference(before, after) ==
  \A s \in {before, after} :
    s.state = "Complete" /\ \A r \in s.rows : TrustedHash(r) # None

DiffReport(before, after) ==
  LET changes == Changes(before, after) IN
  [changes |-> changes,
   excludedBefore |-> Shadowed(before.rows), excludedAfter |-> Shadowed(after.rows),
   state |-> ComparisonState(before, after, changes),
   moves |-> MoveInference(before, after)]

-----------------------------------------------------------------------------
(***************************************************************************)
(* What a report of the indexes x and y says against what their sources    *)
(* held.                                                                   *)
(***************************************************************************)
\* A path reported as gone or as new is not in the other source, under any
\* name that its index could have recorded.
AbsenceTrue(report, x, y) ==
  \A c \in report.changes :
    /\ c.kind \in {"Removed", "Moved"} => At(y, x.entries[c.before.id].name) = {}
    /\ c.kind \in {"Added", "Moved"} => At(x, y.entries[c.after.id].name) = {}

\* Contents said to be equal are equal, and those said to differ do, as far as
\* the indexes were read; a moved file is the only one of its content on each
\* side.
ContentTrue(report, x, y) ==
  \A c \in report.changes :
    c.kind \in {"ByteIdentical", "MetadataOnlyChanged", "ContentChanged", "Moved"} =>
      LET old == x.entries[c.before.id]
          new == y.entries[c.after.id]
      IN /\ (old.content = new.content) = (c.kind # "ContentChanged")
         /\ Stands(x, c.before.id) /\ Stands(y, c.after.id)
         /\ c.kind = "Moved" =>
              /\ \A i \in DOMAIN x.entries \ {c.before.id} : x.entries[i].content # old.content
              /\ \A i \in DOMAIN y.entries \ {c.after.id} : y.entries[i].content # old.content

\* A complete comparison tells the whole difference: what it lists, applied
\* to the files of one source, gives those of the other.
CompleteTells(report, x, y) ==
  report.state = "Complete" =>
    \A n \in Name :
      LET old == {x.entries[i].content : i \in At(x, n)}
          new == {y.entries[i].content : i \in At(y, n)}
          here == {c \in report.changes :
                     \/ c.before # None /\ x.entries[c.before.id].name = n
                     \/ c.after # None /\ y.entries[c.after.id].name = n}
      IN old # new <=> \E c \in here : c.kind \in {"Added", "Removed", "Moved", "ContentChanged"}

\* No row of either index is lost or told twice.
RowsTold(report, before, after) ==
  /\ \A r \in before.rows :
       Cardinality({c \in report.changes : c.before = r})
         = IF r \in report.excludedBefore THEN 0 ELSE 1
  /\ \A r \in after.rows :
       Cardinality({c \in report.changes : c.after = r})
         = IF r \in report.excludedAfter THEN 0 ELSE 1

=============================================================================
