--------------------------- MODULE ReportsProofs ---------------------------
(***************************************************************************)
(* The reports are true, and so are the files they are written to.         *)
(*                                                                         *)
(* The reports say what they say whatever the indexes hold and whatever    *)
(* happens while they are read.  First what a row proves of the entry it   *)
(* is of, then what each report makes of the rows; the rest is that the    *)
(* command carries the evidence unchanged to the report.                   *)
(*                                                                         *)
(* The files: first lookups, name by name, in two file systems of which    *)
(* one has more than the other; then the command, whose invariant is       *)
(* OutputInv; then what it says of the inputs.                             *)
(***************************************************************************)
EXTENDS Reports, OutputFiles, OrderProofs

\* An index as an index file can be.
Sound(x) == x \in Index /\ WellFormed(x)

LEMMA EntryOfSound ==
  ASSUME NEW x, Sound(x), NEW i \in 1 .. x.indexed
  PROVE  /\ i \in DOMAIN x.entries /\ i \in Nat /\ x.entries[i] \in Entry
         /\ FaithfullyStored(x.entries[i], x.mode)
<1>1. x.entries \in Seq(Entry) /\ x.indexed \in Nat /\ x.indexed <= Len(x.entries)
  BY DEF Sound, Index, WellFormed
<1>2. i \in DOMAIN x.entries /\ i \in Nat
  BY <1>1
<1> QED
  BY <1>1, <1>2 DEF Sound, WellFormed

LEMMA RowOfTyped ==
  ASSUME NEW x, Sound(x), NEW i \in 1 .. x.indexed
  PROVE  RowOf(x, i) \in IndexRow
<1> DEFINE m == x.entries[i]
<1>1. m \in Entry /\ i \in Nat
  BY EntryOfSound
<1>2. StoredName(x, m) \in Name
  BY <1>1, EvidenceAssumption DEF StoredName, Entry
<1>3. m.flags \in SUBSET Flags /\ "LOSSY_PATH" \in Flags
  BY <1>1 DEF Entry, Flags
<1> QED
  BY <1>1, <1>2, <1>3 DEF RowOf, IndexRow, Entry

\* What a loaded row says of the entry it is of.
LEMMA RowTells ==
  ASSUME NEW x, Sound(x), NEW r \in Loaded(x).rows
  PROVE  LET m == x.entries[r.id] IN
         /\ r \in IndexRow /\ r.id \in 1 .. x.indexed /\ r.id \in DOMAIN x.entries
         /\ r = RowOf(x, r.id) /\ r.entry = m.entry
         /\ m \in Entry
         /\ ~NameUncertain(r) => r.path = m.name
         /\ NameUncertain(r) => CouldBe(r.path, m.name)
         /\ TrustedHash(r) \in Content \union {None}
         /\ TrustedHash(r) # None => m.entry = "file" /\ TrustedHash(r) = m.content
         /\ TrustedSize(r) # None /\ m.entry = "file" => TrustedSize(r) = Length[m.content]
<1>1. State(x) # "Unavailable" /\ r \in RowsOf(x)
  BY DEF Loaded
<1>2. PICK i \in 1 .. x.indexed : r = RowOf(x, i)
  BY <1>1 DEF RowsOf
<1>3. r.id = i /\ r \in IndexRow
  BY <1>2, RowOfTyped DEF RowOf
<1> DEFINE m == x.entries[i]
<1>4. i \in DOMAIN x.entries /\ m \in Entry /\ FaithfullyStored(m, x.mode)
  BY EntryOfSound
<1>5. /\ r.entry = m.entry /\ r.hash = m.hash /\ r.size = m.size /\ r.path = StoredName(x, m)
      /\ r.flags = IF ~x.pathRaw /\ StoredName(x, m) \in Garbled
                   THEN m.flags \union {"LOSSY_PATH"} ELSE m.flags
  BY <1>2 DEF RowOf
<1>6. m.flags \subseteq Flags \ {"LOSSY_PATH"} /\ m.name \in Name /\ m.hash \in Content \union {None}
  BY <1>4 DEF Entry
<1>7. NameUncertain(r) <=> ~x.pathRaw /\ StoredName(x, m) \in Garbled
  BY <1>5, <1>6 DEF NameUncertain
<1>8. ~NameUncertain(r) => r.path = m.name
  BY <1>5, <1>6, <1>7, EvidenceAssumption DEF StoredName
<1>9. NameUncertain(r) => CouldBe(r.path, m.name)
  BY <1>5, <1>7 DEF StoredName, CouldBe
<1>10. "SPARSE" \in r.flags <=> "SPARSE" \in m.flags
  BY <1>5
<1>11. r.flags \intersect Unproven = {} => m.flags \intersect Unproven = {}
  BY <1>5
<1>12. r.flags \intersect Unsized = {} => m.flags \intersect Unsized = {}
  BY <1>5
<1>13. ~(x.mode = None /\ "SPARSE" \in m.flags)
  BY <1>1, <1>10 DEF State, LegacySparse
<1>14. TrustedHash(r) # None => m.entry = "file" /\ TrustedHash(r) = m.content
  BY <1>4, <1>5, <1>11, <1>13 DEF TrustedHash, FaithfullyStored
<1>15. TrustedHash(r) \in Content \union {None}
  BY <1>5, <1>6 DEF TrustedHash
<1>16. TrustedSize(r) # None /\ m.entry = "file" => TrustedSize(r) = Length[m.content]
  BY <1>4, <1>5, <1>12 DEF TrustedSize, FaithfullyStored
<1> QED
  BY <1>2, <1>3, <1>4, <1>5, <1>8, <1>9, <1>14, <1>15, <1>16

LEMMA RowsDiffer ==
  ASSUME NEW x, Sound(x), NEW r \in Loaded(x).rows, NEW q \in Loaded(x).rows, r.id = q.id
  PROVE  r = q
BY RowTells

\* Only one row with a name is visible, and no entry that was read replaces it.
LEMMA VisibleOnce ==
  ASSUME NEW x, Sound(x), NEW r \in Visible(Loaded(x).rows), NEW q \in Visible(Loaded(x).rows),
         r.path = q.path
  PROVE  r = q
<1>1. r \in Loaded(x).rows /\ q \in Loaded(x).rows /\ r.id <= q.id /\ q.id <= r.id
  BY DEF Visible
<1>2. r.id \in Nat /\ q.id \in Nat
  BY <1>1, RowTells DEF IndexRow
<1> QED
  BY <1>1, <1>2, RowsDiffer

LEMMA SameNameSamePath ==
  ASSUME NEW x, Sound(x), NEW r \in Loaded(x).rows, NEW j \in 1 .. x.indexed,
         x.entries[j].name = x.entries[r.id].name
  PROVE  /\ RowOf(x, j) \in Loaded(x).rows /\ RowOf(x, j).id = j
         /\ RowOf(x, j).path = r.path /\ (NameUncertain(RowOf(x, j)) <=> NameUncertain(r))
<1>1. RowOf(x, j) \in Loaded(x).rows
  BY DEF Loaded, RowsOf
<1>2. r = RowOf(x, r.id) /\ r.id \in 1 .. x.indexed
  BY RowTells
<1>3. x.entries[j].flags \subseteq Flags \ {"LOSSY_PATH"} /\ x.entries[r.id].flags \subseteq Flags \ {"LOSSY_PATH"}
  BY <1>2, EntryOfSound DEF Entry
<1>4. StoredName(x, x.entries[j]) = StoredName(x, x.entries[r.id])
  BY DEF StoredName
<1>5. \A i : RowOf(x, i).path = StoredName(x, x.entries[i]) /\ RowOf(x, i).id = i
  BY DEF RowOf
<1>6. \A i : RowOf(x, i).flags = IF ~x.pathRaw /\ StoredName(x, x.entries[i]) \in Garbled
                                 THEN x.entries[i].flags \union {"LOSSY_PATH"} ELSE x.entries[i].flags
  BY DEF RowOf
<1>7. \A i : "LOSSY_PATH" \notin x.entries[i].flags =>
               (NameUncertain(RowOf(x, i)) <=> ~x.pathRaw /\ StoredName(x, x.entries[i]) \in Garbled)
  BY <1>6 DEF NameUncertain
<1> QED
  BY <1>1, <1>2, <1>3, <1>4, <1>5, <1>7

LEMMA VisibleStands ==
  ASSUME NEW x, Sound(x), NEW r \in Visible(Loaded(x).rows)
  PROVE  Stands(x, r.id)
<1> SUFFICES ASSUME NEW j \in 1 .. x.indexed, j > r.id, x.entries[j].name = x.entries[r.id].name
             PROVE  FALSE
  BY DEF Stands
<1>1. r \in Loaded(x).rows /\ ~NameUncertain(r)
  BY DEF Visible
<1>2. RowOf(x, j) \in Loaded(x).rows /\ RowOf(x, j).path = r.path /\ ~NameUncertain(RowOf(x, j))
  BY <1>1, SameNameSamePath
<1>3. RowOf(x, j).id = j
  BY DEF RowOf
<1>4. j <= r.id
  BY <1>2, <1>3 DEF Visible
<1> QED
  BY <1>1, <1>4, RowTells

LEMMA WholeIndex ==
  ASSUME NEW x, Sound(x), State(x) = "Complete"
  PROVE  /\ DOMAIN x.entries = 1 .. x.indexed
         /\ \A i \in DOMAIN x.entries :
              /\ RowOf(x, i) \in Loaded(x).rows /\ RowOf(x, i).id = i
              /\ x.entries[i] \in Entry
              /\ Effective(x, i) <=> Stands(x, i)
<1>1. x.readable /\ x.schema /\ x.completed /\ ~LegacySparse(x)
  BY DEF State, Compatible
<1>2. x.indexed = Len(x.entries) /\ x.entries \in Seq(Entry)
  BY <1>1 DEF Sound, WellFormed, Index
<1>3. DOMAIN x.entries = 1 .. x.indexed
  BY <1>2
<1>4. \A i \in DOMAIN x.entries : RowOf(x, i) \in Loaded(x).rows /\ RowOf(x, i).id = i
  BY <1>1, <1>3 DEF Loaded, RowsOf, RowOf
<1>5. \A i \in DOMAIN x.entries : Effective(x, i) <=> Stands(x, i)
  BY <1>3 DEF Effective, Stands
<1> QED
  BY <1>2, <1>3, <1>4, <1>5

\* An entry that nothing replaces has a visible row, or one of uncertain name.
LEMMA StandingRow ==
  ASSUME NEW x, Sound(x), NEW i \in 1 .. x.indexed, Stands(x, i),
         RowOf(x, i) \in Loaded(x).rows, ~NameUncertain(RowOf(x, i))
  PROVE  RowOf(x, i) \in Visible(Loaded(x).rows)
<1> DEFINE r == RowOf(x, i)
<1> SUFFICES ASSUME NEW q \in Loaded(x).rows, ~NameUncertain(q), q.path = r.path, ~(q.id <= r.id)
             PROVE  FALSE
  BY DEF Visible
<1>1. r.id = i
  BY DEF RowOf
<1>2. q.id \in 1 .. x.indexed /\ q.path = x.entries[q.id].name
  BY RowTells
<1>3. r.path = x.entries[i].name
  BY <1>1, RowTells
<1>4. q.id > i
  BY <1>1, <1>2
<1> QED
  BY <1>2, <1>3, <1>4 DEF Stands

-----------------------------------------------------------------------------
(***************************************************************************)
(* The diff of two sound indexes.                                          *)
(***************************************************************************)
LEMMA LoadedIs ==
  ASSUME NEW x
  PROVE  /\ Loaded(x).state = State(x) /\ Loaded(x).compatible = Compatible(x)
         /\ State(x) \in {"Unavailable", "Incompatible", "Incomplete", "Complete"}
         /\ Compatible(x) /\ State(x) \notin {"Unavailable", "Incomplete"} => State(x) = "Complete"
BY DEF Loaded, State

LEMMA SamePathIs ==
  ASSUME NEW o, NEW n
  PROVE  /\ SamePath(o, n) \in {"Inconclusive", "ContentChanged", "ByteIdentical", "MetadataOnlyChanged"}
         /\ SamePath(o, n) # "Inconclusive" =>
              /\ TrustedHash(o) # None /\ TrustedHash(n) # None
              /\ SamePath(o, n) = "ContentChanged" <=> TrustedHash(o) # TrustedHash(n)
BY DEF SamePath

\* A move of a row, and what a row that was not moved is told as.
Moved(b, a, o, n) ==
  o \in Missing(b.rows, a.rows) /\ n \in Missing(a.rows, b.rows) /\ IsMove(b, a, o, n)

InPlaceKind(b, a, o, n) == IF Both(b, a) THEN SamePath(o, n) ELSE "Inconclusive"
LoneKind(other, b, a, r, kind) ==
  IF CouldHold(other.rows, r.path) THEN "Inconclusive" ELSE Absence(other, b, a, kind)

\* The six kinds of change, as a report lists them.
LEMMA ChangeIs ==
  ASSUME NEW b, NEW a, NEW c
  PROVE  c \in Changes(b, a) <=>
           \/ \E o \in Visible(b.rows), n \in Visible(a.rows) :
                o.path = n.path /\ c = Change(InPlaceKind(b, a, o, n), o, n)
           \/ \E o \in Missing(b.rows, a.rows), n \in Missing(a.rows, b.rows) :
                IsMove(b, a, o, n) /\ c = Change("Moved", o, n)
           \/ \E o \in Missing(b.rows, a.rows) :
                /\ \A n : ~Moved(b, a, o, n)
                /\ c = Change(LoneKind(a, b, a, o, "Removed"), o, None)
           \/ \E n \in Missing(a.rows, b.rows) :
                /\ \A o : ~Moved(b, a, o, n)
                /\ c = Change(LoneKind(b, b, a, n, "Added"), None, n)
           \/ \E o \in Uncertain(b.rows) : c = Change("Inconclusive", o, None)
           \/ \E n \in Uncertain(a.rows) : c = Change("Inconclusive", None, n)
<1> DEFINE MB == Missing(b.rows, a.rows)
           MA == Missing(a.rows, b.rows)
           place == InPlace(b, a)
           moves == Moves(b, a)
           from == {m[1] : m \in moves}
           to == {m[2] : m \in moves}
<1>1. c \in Changes(b, a) <=>
           \/ c \in {Change(InPlaceKind(b, a, p[1], p[2]), p[1], p[2]) : p \in place}
           \/ c \in {Change("Moved", m[1], m[2]) : m \in moves}
           \/ c \in {Change(LoneKind(a, b, a, o, "Removed"), o, None) : o \in MB \ from}
           \/ c \in {Change(LoneKind(b, b, a, n, "Added"), None, n) : n \in MA \ to}
           \/ c \in {Change("Inconclusive", o, None) : o \in Uncertain(b.rows)}
           \/ c \in {Change("Inconclusive", None, n) : n \in Uncertain(a.rows)}
  BY DEF Changes, InPlaceKind, LoneKind
<1>2. \A p : p \in place <=> \E o \in Visible(b.rows), n \in Visible(a.rows) : o.path = n.path /\ p = <<o, n>>
  BY DEF InPlace
<1>3. \A p : p \in moves <=> \E o \in MB, n \in MA : IsMove(b, a, o, n) /\ p = <<o, n>>
  BY DEF Moves
<1>4. ASSUME NEW o \in MB PROVE o \in from <=> \E n : Moved(b, a, o, n)
  <2> HIDE DEF moves
  <2>1. ASSUME NEW n, Moved(b, a, o, n) PROVE o \in from
    <3>1. <<o, n>> \in moves
      BY <2>1, <1>3 DEF Moved
    <3> QED BY <3>1
  <2>2. ASSUME NEW m \in moves, o = m[1] PROVE \E n : Moved(b, a, o, n)
    BY <2>2, <1>3 DEF Moved
  <2> QED BY <2>1, <2>2
<1>5. ASSUME NEW n \in MA PROVE n \in to <=> \E o : Moved(b, a, o, n)
  <2> HIDE DEF moves
  <2>1. ASSUME NEW o, Moved(b, a, o, n) PROVE n \in to
    <3>1. <<o, n>> \in moves
      BY <2>1, <1>3 DEF Moved
    <3> QED BY <3>1
  <2>2. ASSUME NEW m \in moves, n = m[2] PROVE \E o : Moved(b, a, o, n)
    BY <2>2, <1>3 DEF Moved
  <2> QED BY <2>1, <2>2
<1>6. c \in {Change(InPlaceKind(b, a, p[1], p[2]), p[1], p[2]) : p \in place}
      <=> \E o \in Visible(b.rows), n \in Visible(a.rows) :
            o.path = n.path /\ c = Change(InPlaceKind(b, a, o, n), o, n)
  <2> HIDE DEF place
  <2>1. ASSUME NEW p \in place, c = Change(InPlaceKind(b, a, p[1], p[2]), p[1], p[2])
        PROVE  \E o \in Visible(b.rows), n \in Visible(a.rows) :
                 o.path = n.path /\ c = Change(InPlaceKind(b, a, o, n), o, n)
    BY <2>1, <1>2
  <2>2. ASSUME NEW o \in Visible(b.rows), NEW n \in Visible(a.rows), o.path = n.path,
               c = Change(InPlaceKind(b, a, o, n), o, n)
        PROVE  \E p \in place : c = Change(InPlaceKind(b, a, p[1], p[2]), p[1], p[2])
    <3>1. <<o, n>> \in place
      BY <2>2, <1>2
    <3> QED BY <2>2, <3>1
  <2> QED BY <2>1, <2>2
<1>7. c \in {Change("Moved", m[1], m[2]) : m \in moves}
      <=> \E o \in MB, n \in MA : IsMove(b, a, o, n) /\ c = Change("Moved", o, n)
  <2> HIDE DEF moves, MB, MA
  <2>1. ASSUME NEW m \in moves, c = Change("Moved", m[1], m[2])
        PROVE  \E o \in MB, n \in MA : IsMove(b, a, o, n) /\ c = Change("Moved", o, n)
    BY <2>1, <1>3
  <2>2. ASSUME NEW o \in MB, NEW n \in MA, IsMove(b, a, o, n), c = Change("Moved", o, n)
        PROVE  \E m \in moves : c = Change("Moved", m[1], m[2])
    <3>1. <<o, n>> \in moves
      BY <2>2, <1>3
    <3> QED BY <2>2, <3>1
  <2> QED BY <2>1, <2>2
<1> HIDE DEF MB, MA, place, moves, from, to
<1>8. c \in {Change(LoneKind(a, b, a, o, "Removed"), o, None) : o \in MB \ from}
      <=> \E o \in MB : (\A n : ~Moved(b, a, o, n)) /\ c = Change(LoneKind(a, b, a, o, "Removed"), o, None)
  BY <1>4
<1>9. c \in {Change(LoneKind(b, b, a, n, "Added"), None, n) : n \in MA \ to}
      <=> \E n \in MA : (\A o : ~Moved(b, a, o, n)) /\ c = Change(LoneKind(b, b, a, n, "Added"), None, n)
  BY <1>5
<1>10. /\ c \in {Change("Inconclusive", o, None) : o \in Uncertain(b.rows)}
          <=> \E o \in Uncertain(b.rows) : c = Change("Inconclusive", o, None)
       /\ c \in {Change("Inconclusive", None, n) : n \in Uncertain(a.rows)}
          <=> \E n \in Uncertain(a.rows) : c = Change("Inconclusive", None, n)
  OBVIOUS
<1> QED
  BY <1>1, <1>6, <1>7, <1>8, <1>9, <1>10 DEF MB, MA

LEMMA ChangeFields ==
  ASSUME NEW k, NEW o, NEW n
  PROVE  Change(k, o, n).kind = k /\ Change(k, o, n).before = o /\ Change(k, o, n).after = n
BY DEF Change

\* A whole index in which nothing could be at a path comes from a source that
\* had nothing there.
LEMMA NothingAt ==
  ASSUME NEW y, Sound(y), State(y) = "Complete", NEW path,
         ~CouldHold(Loaded(y).rows, path), \A q \in Visible(Loaded(y).rows) : q.path # path
  PROVE  At(y, path) = {}
<1> SUFFICES ASSUME NEW j \in DOMAIN y.entries, y.entries[j].name = path, Effective(y, j)
             PROVE  FALSE
  BY DEF At
<1> DEFINE q == RowOf(y, j)
<1>1. q \in Loaded(y).rows /\ q.id = j /\ Stands(y, j) /\ j \in 1 .. y.indexed
  BY WholeIndex
<1>2. NameUncertain(q) => CouldBe(q.path, path)
  BY <1>1, RowTells
<1>3. ~NameUncertain(q)
  BY <1>1, <1>2 DEF CouldHold, Uncertain
<1>4. q \in Visible(Loaded(y).rows) /\ q.path = path
  BY <1>1, <1>3, StandingRow, RowTells
<1> QED
  BY <1>4

LEMMA IsMoveTells ==
  ASSUME NEW x, Sound(x), NEW y, Sound(y), NEW o, NEW n, IsMove(Loaded(x), Loaded(y), o, n)
  PROVE  /\ State(x) = "Complete" /\ State(y) = "Complete"
         /\ TrustedHash(o) # None /\ TrustedHash(o) = TrustedHash(n)
         /\ \A r \in Loaded(x).rows \union Loaded(y).rows : TrustedHash(r) # None
         /\ \A r \in Loaded(x).rows : o \in Loaded(x).rows /\ TrustedHash(r) = TrustedHash(o) => r = o
         /\ \A r \in Loaded(y).rows : TrustedHash(r) = TrustedHash(o) => r = n
<1>1. PICK u \in Unique(Loaded(x)) : TrustedHash(u) = TrustedHash(o)
  BY DEF IsMove
<1>2. n \in Unique(Loaded(y)) /\ TrustedHash(n) = TrustedHash(o)
  BY DEF IsMove
<1>3. \A z, v : v \in Unique(Loaded(z)) =>
        /\ State(z) = "Complete" /\ v \in Loaded(z).rows
        /\ \A r \in Loaded(z).rows : TrustedHash(r) # None /\ (TrustedHash(r) = TrustedHash(v) => r = v)
  BY LoadedIs DEF Unique
<1> QED
  BY <1>1, <1>2, <1>3

\* A visible row tells the name and its entry stands.
LEMMA MissingRow ==
  ASSUME NEW x, Sound(x), NEW other, NEW o \in Missing(Loaded(x).rows, other)
  PROVE  /\ o \in Loaded(x).rows /\ o \in Visible(Loaded(x).rows) /\ o.path = x.entries[o.id].name
         /\ \A q \in Visible(other) : q.path # o.path
BY RowTells DEF Missing, Visible

LEMMA AbsenceIsTrue ==
  ASSUME NEW x, Sound(x), NEW y, Sound(y)
  PROVE  AbsenceTrue(DiffReport(Loaded(x), Loaded(y)), x, y)
<1> DEFINE b == Loaded(x)
           a == Loaded(y)
<1> SUFFICES ASSUME NEW c \in Changes(b, a)
             PROVE  /\ c.kind \in {"Removed", "Moved"} => At(y, x.entries[c.before.id].name) = {}
                    /\ c.kind \in {"Added", "Moved"} => At(x, y.entries[c.after.id].name) = {}
  BY DEF AbsenceTrue, DiffReport
<1>1. CASE \E o \in Visible(b.rows), n \in Visible(a.rows) :
             o.path = n.path /\ c = Change(InPlaceKind(b, a, o, n), o, n)
  <2>1. c.kind \notin {"Removed", "Moved", "Added"}
    BY <1>1, ChangeFields, SamePathIs DEF InPlaceKind
  <2> QED BY <2>1
<1>2. CASE \E o \in Missing(b.rows, a.rows), n \in Missing(a.rows, b.rows) :
             IsMove(b, a, o, n) /\ c = Change("Moved", o, n)
  <2>1. PICK o \in Missing(b.rows, a.rows), n \in Missing(a.rows, b.rows) :
             IsMove(b, a, o, n) /\ c = Change("Moved", o, n)
    BY <1>2
  <2>2. c.before = o /\ c.after = n
    BY <2>1, ChangeFields
  <2>3. State(x) = "Complete" /\ State(y) = "Complete"
    BY <2>1, IsMoveTells
  <2>4. ~CouldHold(a.rows, o.path) /\ ~CouldHold(b.rows, n.path)
    BY <2>1 DEF IsMove
  <2>5. At(y, o.path) = {} /\ o.path = x.entries[o.id].name
    <3>1. o.path = x.entries[o.id].name /\ \A q \in Visible(a.rows) : q.path # o.path
      BY MissingRow
    <3> QED BY <3>1, <2>3, <2>4, NothingAt
  <2>6. At(x, n.path) = {} /\ n.path = y.entries[n.id].name
    <3>1. n.path = y.entries[n.id].name /\ \A q \in Visible(b.rows) : q.path # n.path
      BY MissingRow
    <3> QED BY <3>1, <2>3, <2>4, NothingAt
  <2> QED
    BY <2>2, <2>5, <2>6
<1>3. CASE \E o \in Missing(b.rows, a.rows) :
             (\A n : ~Moved(b, a, o, n)) /\ c = Change(LoneKind(a, b, a, o, "Removed"), o, None)
  <2>1. PICK o \in Missing(b.rows, a.rows) : c = Change(LoneKind(a, b, a, o, "Removed"), o, None)
    BY <1>3
  <2>2. c.before = o /\ c.kind = LoneKind(a, b, a, o, "Removed")
    BY <2>1, ChangeFields
  <2>3. c.kind = "Inconclusive" \/ (c.kind = "Removed" /\ State(y) = "Complete" /\ ~CouldHold(a.rows, o.path))
    BY <2>2, LoadedIs DEF LoneKind, Absence, Both
  <2>4. o.path = x.entries[o.id].name /\ \A q \in Visible(a.rows) : q.path # o.path
    BY MissingRow
  <2>5. c.kind = "Removed" => At(y, o.path) = {}
    BY <2>3, <2>4, NothingAt
  <2> QED
    BY <2>2, <2>3, <2>4, <2>5
<1>4. CASE \E n \in Missing(a.rows, b.rows) :
             (\A o : ~Moved(b, a, o, n)) /\ c = Change(LoneKind(b, b, a, n, "Added"), None, n)
  <2>1. PICK n \in Missing(a.rows, b.rows) : c = Change(LoneKind(b, b, a, n, "Added"), None, n)
    BY <1>4
  <2>2. c.after = n /\ c.kind = LoneKind(b, b, a, n, "Added")
    BY <2>1, ChangeFields
  <2>3. c.kind = "Inconclusive" \/ (c.kind = "Added" /\ State(x) = "Complete" /\ ~CouldHold(b.rows, n.path))
    BY <2>2, LoadedIs DEF LoneKind, Absence, Both
  <2>4. n.path = y.entries[n.id].name /\ \A q \in Visible(b.rows) : q.path # n.path
    BY MissingRow
  <2>5. c.kind = "Added" => At(x, n.path) = {}
    BY <2>3, <2>4, NothingAt
  <2> QED
    BY <2>2, <2>3, <2>4, <2>5
<1>5. CASE \/ \E o \in Uncertain(b.rows) : c = Change("Inconclusive", o, None)
           \/ \E n \in Uncertain(a.rows) : c = Change("Inconclusive", None, n)
  BY <1>5, ChangeFields
<1> HIDE DEF a, b
<1> QED
  BY <1>1, <1>2, <1>3, <1>4, <1>5, ChangeIs

LEMMA InPlaceTells ==
  ASSUME NEW x, Sound(x), NEW y, Sound(y),
         NEW o \in Visible(Loaded(x).rows), NEW n \in Visible(Loaded(y).rows),
         InPlaceKind(Loaded(x), Loaded(y), o, n) # "Inconclusive"
  PROVE  /\ InPlaceKind(Loaded(x), Loaded(y), o, n)
              \in {"ContentChanged", "ByteIdentical", "MetadataOnlyChanged"}
         /\ (x.entries[o.id].content = y.entries[n.id].content)
              = (InPlaceKind(Loaded(x), Loaded(y), o, n) # "ContentChanged")
<1> DEFINE kind == InPlaceKind(Loaded(x), Loaded(y), o, n)
<1>1. kind = SamePath(o, n)
  BY DEF InPlaceKind
<1>2. TrustedHash(o) # None /\ TrustedHash(n) # None
      /\ (kind = "ContentChanged" <=> TrustedHash(o) # TrustedHash(n))
      /\ kind \in {"ContentChanged", "ByteIdentical", "MetadataOnlyChanged"}
  BY <1>1, SamePathIs
<1>3. o \in Loaded(x).rows /\ n \in Loaded(y).rows
  BY DEF Visible
<1>4. TrustedHash(o) = x.entries[o.id].content /\ TrustedHash(n) = y.entries[n.id].content
  BY <1>2, <1>3, RowTells
<1> QED
  BY <1>2, <1>4

\* A moved file's content is at no other entry of a source that was read whole.
LEMMA OnlyEntry ==
  ASSUME NEW x, Sound(x), State(x) = "Complete", NEW o \in Loaded(x).rows,
         \A r \in Loaded(x).rows : TrustedHash(r) # None,
         \A r \in Loaded(x).rows : TrustedHash(r) = TrustedHash(o) => r = o
  PROVE  \A i \in DOMAIN x.entries \ {o.id} : x.entries[i].content # x.entries[o.id].content
<1> SUFFICES ASSUME NEW i \in DOMAIN x.entries, i # o.id, x.entries[i].content = x.entries[o.id].content
             PROVE  FALSE
  OBVIOUS
<1> DEFINE q == RowOf(x, i)
<1>1. q \in Loaded(x).rows /\ q.id = i
  BY WholeIndex
<1>2. TrustedHash(q) = x.entries[i].content
  <2> HIDE DEF q
  <2> QED BY <1>1, RowTells
<1>3. TrustedHash(o) = x.entries[o.id].content
  BY RowTells
<1> QED
  BY <1>1, <1>2, <1>3

LEMMA ContentIsTrue ==
  ASSUME NEW x, Sound(x), NEW y, Sound(y)
  PROVE  ContentTrue(DiffReport(Loaded(x), Loaded(y)), x, y)
<1> DEFINE b == Loaded(x)
           a == Loaded(y)
           old(c) == x.entries[c.before.id]
           new(c) == y.entries[c.after.id]
           Right(c) ==
             /\ (old(c).content = new(c).content) = (c.kind # "ContentChanged")
             /\ Stands(x, c.before.id) /\ Stands(y, c.after.id)
             /\ c.kind = "Moved" =>
                  /\ \A i \in DOMAIN x.entries \ {c.before.id} : x.entries[i].content # old(c).content
                  /\ \A i \in DOMAIN y.entries \ {c.after.id} : y.entries[i].content # old(c).content
<1> SUFFICES ASSUME NEW c \in Changes(b, a),
                    c.kind \in {"ByteIdentical", "MetadataOnlyChanged", "ContentChanged", "Moved"}
             PROVE  Right(c)
  BY DEF ContentTrue, DiffReport
<1>1. CASE \E o \in Visible(b.rows), n \in Visible(a.rows) :
             o.path = n.path /\ c = Change(InPlaceKind(b, a, o, n), o, n)
  <2>1. PICK o \in Visible(b.rows), n \in Visible(a.rows) : c = Change(InPlaceKind(b, a, o, n), o, n)
    BY <1>1
  <2>2. c.kind = InPlaceKind(b, a, o, n) /\ c.before = o /\ c.after = n
    BY <2>1, ChangeFields
  <2>3. /\ c.kind # "Moved"
        /\ (x.entries[o.id].content = y.entries[n.id].content) = (c.kind # "ContentChanged")
    BY <2>2, InPlaceTells
  <2>4. Stands(x, o.id) /\ Stands(y, n.id)
    BY VisibleStands
  <2> QED BY <2>2, <2>3, <2>4
<1>2. CASE \E o \in Missing(b.rows, a.rows), n \in Missing(a.rows, b.rows) :
             IsMove(b, a, o, n) /\ c = Change("Moved", o, n)
  <2>1. PICK o \in Missing(b.rows, a.rows), n \in Missing(a.rows, b.rows) :
             IsMove(b, a, o, n) /\ c = Change("Moved", o, n)
    BY <1>2
  <2>2. c.kind = "Moved" /\ c.before = o /\ c.after = n
    BY <2>1, ChangeFields
  <2>3. o \in b.rows /\ o \in Visible(b.rows) /\ n \in a.rows /\ n \in Visible(a.rows)
    BY MissingRow
  <2>4. Stands(x, o.id) /\ Stands(y, n.id)
    BY <2>3, VisibleStands
  <2>5. /\ State(x) = "Complete" /\ State(y) = "Complete"
        /\ TrustedHash(o) # None /\ TrustedHash(o) = TrustedHash(n)
        /\ \A r \in b.rows \union a.rows : TrustedHash(r) # None
        /\ \A r \in b.rows : TrustedHash(r) = TrustedHash(o) => r = o
        /\ \A r \in a.rows : TrustedHash(r) = TrustedHash(n) => r = n
    BY <2>1, <2>3, IsMoveTells
  <2>6. TrustedHash(o) = x.entries[o.id].content /\ TrustedHash(n) = y.entries[n.id].content
    BY <2>3, <2>5, RowTells
  <2>7. \A i \in DOMAIN x.entries \ {o.id} : x.entries[i].content # x.entries[o.id].content
    <3> HIDE DEF b
    <3> QED BY <2>3, <2>5, OnlyEntry DEF b
  <2>8. \A i \in DOMAIN y.entries \ {n.id} : y.entries[i].content # y.entries[n.id].content
    BY <2>3, <2>5, OnlyEntry
  <2> QED BY <2>2, <2>4, <2>5, <2>6, <2>7, <2>8
<1>3. CASE \/ \E o \in Missing(b.rows, a.rows) :
                (\A n : ~Moved(b, a, o, n)) /\ c = Change(LoneKind(a, b, a, o, "Removed"), o, None)
           \/ \E n \in Missing(a.rows, b.rows) :
                (\A o : ~Moved(b, a, o, n)) /\ c = Change(LoneKind(b, b, a, n, "Added"), None, n)
           \/ \E o \in Uncertain(b.rows) : c = Change("Inconclusive", o, None)
           \/ \E n \in Uncertain(a.rows) : c = Change("Inconclusive", None, n)
  <2>1. c.kind \in {"Inconclusive", "Removed", "Added"}
    BY <1>3, ChangeFields DEF LoneKind, Absence
  <2> QED BY <2>1
<1> HIDE DEF a, b, Right
<1> QED
  BY <1>1, <1>2, <1>3, ChangeIs

-----------------------------------------------------------------------------
(***************************************************************************)
(* Every row is told once.                                                 *)
(***************************************************************************)
LEMMA OneCardinality ==
  ASSUME NEW S, NEW c, S = {c}
  PROVE  Cardinality(S) = 1
BY FS_Singleton

LEMMA NoneCardinality ==
  ASSUME NEW S, S = {}
  PROVE  Cardinality(S) = 0
BY FS_EmptySet

LEMMA RowKinds ==
  ASSUME NEW rows
  PROVE  /\ Visible(rows) \subseteq rows /\ Uncertain(rows) \subseteq rows
         /\ Visible(rows) \intersect Uncertain(rows) = {}
         /\ \A r \in rows : r \in Shadowed(rows) <=> r \notin Visible(rows) /\ r \notin Uncertain(rows)
         /\ \A other : /\ Missing(rows, other) \subseteq Visible(rows)
                       /\ \A r \in Visible(rows) :
                            r \in Missing(rows, other) <=> \A q \in Visible(other) : q.path # r.path
BY DEF Visible, Uncertain, Shadowed, Missing

LEMMA BeforeOnce ==
  ASSUME NEW x, Sound(x), NEW y, Sound(y), NEW r \in Loaded(x).rows
  PROVE  Cardinality({c \in Changes(Loaded(x), Loaded(y)) : c.before = r})
           = IF r \in Shadowed(Loaded(x).rows) THEN 0 ELSE 1
<1> DEFINE b == Loaded(x)
           a == Loaded(y)
           S == {c \in Changes(b, a) : c.before = r}
<1>1. r # None
  BY RowTells, EvidenceAssumption
<1>2. \A c \in S : \/ r \in Visible(b.rows) /\ \E n \in Visible(a.rows) :
                        r.path = n.path /\ c = Change(InPlaceKind(b, a, r, n), r, n)
                   \/ r \in Missing(b.rows, a.rows) /\ \E n \in Missing(a.rows, b.rows) :
                        IsMove(b, a, r, n) /\ c = Change("Moved", r, n)
                   \/ /\ r \in Missing(b.rows, a.rows) /\ \A n : ~Moved(b, a, r, n)
                      /\ c = Change(LoneKind(a, b, a, r, "Removed"), r, None)
                   \/ r \in Uncertain(b.rows) /\ c = Change("Inconclusive", r, None)
  <2> TAKE c \in S
  <2> HIDE DEF a, b
  <2>1. c \in Changes(b, a) /\ c.before = r
    OBVIOUS
  <2>2. CASE \E o \in Visible(b.rows), n \in Visible(a.rows) :
               o.path = n.path /\ c = Change(InPlaceKind(b, a, o, n), o, n)
    BY <2>1, <2>2, ChangeFields
  <2>3. CASE \E o \in Missing(b.rows, a.rows), n \in Missing(a.rows, b.rows) :
               IsMove(b, a, o, n) /\ c = Change("Moved", o, n)
    BY <2>1, <2>3, ChangeFields
  <2>4. CASE \E o \in Missing(b.rows, a.rows) :
               (\A n : ~Moved(b, a, o, n)) /\ c = Change(LoneKind(a, b, a, o, "Removed"), o, None)
    BY <2>1, <2>4, ChangeFields
  <2>5. CASE \E o \in Uncertain(b.rows) : c = Change("Inconclusive", o, None)
    BY <2>1, <2>5, ChangeFields
  <2>6. CASE \/ \E n \in Missing(a.rows, b.rows) :
                  (\A o : ~Moved(b, a, o, n)) /\ c = Change(LoneKind(b, b, a, n, "Added"), None, n)
             \/ \E n \in Uncertain(a.rows) : c = Change("Inconclusive", None, n)
    BY <2>1, <2>6, <1>1, ChangeFields
  <2> QED BY <2>1, <2>2, <2>3, <2>4, <2>5, <2>6, ChangeIs, SMTT(30)
<1>3. CASE r \in Shadowed(b.rows)
  <2>1. S = {}
    <3> HIDE DEF S, a, b
    <3> QED BY <1>2, <1>3, RowKinds DEF b
  <2> QED BY <2>1, <1>3, NoneCardinality
<1>4. CASE r \in Uncertain(b.rows)
  <2> DEFINE c0 == Change("Inconclusive", r, None)
  <2>1. c0 \in S
    <3> HIDE DEF a, b
    <3> QED BY <1>4, ChangeIs, ChangeFields
  <2>2. \A c \in S : c = c0
    <3> HIDE DEF S, a, b
    <3> QED BY <1>2, <1>4, RowKinds
  <2>3. S = {c0}
    BY <2>1, <2>2
  <2>4. r \notin Shadowed(b.rows)
    BY <1>4, RowKinds
  <2> QED BY <2>3, <2>4, OneCardinality
<1>5. CASE r \in Visible(b.rows) /\ r \notin Missing(b.rows, a.rows)
  <2>1. PICK n \in Visible(a.rows) : r.path = n.path
    BY <1>5 DEF Missing
  <2> DEFINE c0 == Change(InPlaceKind(b, a, r, n), r, n)
  <2>2. c0 \in S
    <3> HIDE DEF a, b
    <3>1. c0 \in Changes(b, a)
      BY <1>5, <2>1, ChangeIs
    <3> QED BY <3>1, ChangeFields
  <2>3. \A m \in Visible(a.rows) : m.path = r.path => m = n
    BY <2>1, VisibleOnce
  <2>4. \A c \in S : c = c0
    <3> HIDE DEF S, a, b
    <3> QED BY <1>2, <1>5, <2>3, RowKinds
  <2>5. S = {c0}
    BY <2>2, <2>4
  <2>6. r \notin Shadowed(b.rows)
    BY <1>5, RowKinds
  <2> QED BY <2>5, <2>6, OneCardinality
<1>6. CASE r \in Missing(b.rows, a.rows)
  <2>1. r \in Visible(b.rows) /\ r \notin Uncertain(b.rows) /\ r \notin Shadowed(b.rows)
        /\ \A q \in Visible(a.rows) : q.path # r.path
    BY <1>6, RowKinds
  <2>2. CASE \E n : Moved(b, a, r, n)
    <3>1. PICK n : Moved(b, a, r, n)
      BY <2>2
    <3> DEFINE c0 == Change("Moved", r, n)
    <3>2. c0 \in S
      <4> HIDE DEF a, b
      <4>1. c0 \in Changes(b, a)
        BY <3>1, ChangeIs DEF Moved
      <4> QED BY <4>1, ChangeFields
    <3>3. \A m \in Missing(a.rows, b.rows) : IsMove(b, a, r, m) => m = n
      <4> TAKE m \in Missing(a.rows, b.rows)
      <4> HAVE IsMove(b, a, r, m)
      <4>1. m \in a.rows /\ n \in a.rows /\ IsMove(b, a, r, n)
        BY <3>1, MissingRow DEF Moved
      <4>2. TrustedHash(m) = TrustedHash(r)
        BY DEF IsMove
      <4> QED BY <4>1, <4>2, IsMoveTells
    <3>4. \A c \in S : c = c0
      <4> HIDE DEF S, a, b
      <4> QED BY <1>2, <2>1, <3>1, <3>3
    <3>5. S = {c0}
      BY <3>2, <3>4
    <3> QED BY <3>5, <2>1, OneCardinality
  <2>3. CASE \A n : ~Moved(b, a, r, n)
    <3> DEFINE c0 == Change(LoneKind(a, b, a, r, "Removed"), r, None)
    <3>2. c0 \in S
      <4> HIDE DEF a, b
      <4>1. c0 \in Changes(b, a)
        BY <1>6, <2>3, ChangeIs
      <4> QED BY <4>1, ChangeFields
    <3>4. \A c \in S : c = c0
      <4> HIDE DEF S, a, b
      <4> QED BY <1>2, <2>1, <2>3 DEF Moved
    <3>5. S = {c0}
      BY <3>2, <3>4
    <3> QED BY <3>5, <2>1, OneCardinality
  <2> QED BY <2>2, <2>3
<1> QED
  BY <1>3, <1>4, <1>5, <1>6, RowKinds

LEMMA AfterOnce ==
  ASSUME NEW x, Sound(x), NEW y, Sound(y), NEW r \in Loaded(y).rows
  PROVE  Cardinality({c \in Changes(Loaded(x), Loaded(y)) : c.after = r})
           = IF r \in Shadowed(Loaded(y).rows) THEN 0 ELSE 1
<1> DEFINE b == Loaded(x)
           a == Loaded(y)
           S == {c \in Changes(b, a) : c.after = r}
<1>1. r # None
  BY RowTells, EvidenceAssumption
<1>2. \A c \in S : \/ r \in Visible(a.rows) /\ \E o \in Visible(b.rows) :
                        o.path = r.path /\ c = Change(InPlaceKind(b, a, o, r), o, r)
                   \/ r \in Missing(a.rows, b.rows) /\ \E o \in Missing(b.rows, a.rows) :
                        IsMove(b, a, o, r) /\ c = Change("Moved", o, r)
                   \/ /\ r \in Missing(a.rows, b.rows) /\ \A o : ~Moved(b, a, o, r)
                      /\ c = Change(LoneKind(b, b, a, r, "Added"), None, r)
                   \/ r \in Uncertain(a.rows) /\ c = Change("Inconclusive", None, r)
  <2> TAKE c \in S
  <2> HIDE DEF a, b
  <2>1. c \in Changes(b, a) /\ c.after = r
    OBVIOUS
  <2>2. CASE \E o \in Visible(b.rows), n \in Visible(a.rows) :
               o.path = n.path /\ c = Change(InPlaceKind(b, a, o, n), o, n)
    BY <2>1, <2>2, ChangeFields
  <2>3. CASE \E o \in Missing(b.rows, a.rows), n \in Missing(a.rows, b.rows) :
               IsMove(b, a, o, n) /\ c = Change("Moved", o, n)
    BY <2>1, <2>3, ChangeFields
  <2>4. CASE \E n \in Missing(a.rows, b.rows) :
               (\A o : ~Moved(b, a, o, n)) /\ c = Change(LoneKind(b, b, a, n, "Added"), None, n)
    BY <2>1, <2>4, ChangeFields
  <2>5. CASE \E n \in Uncertain(a.rows) : c = Change("Inconclusive", None, n)
    BY <2>1, <2>5, ChangeFields
  <2>6. CASE \/ \E o \in Missing(b.rows, a.rows) :
                  (\A n : ~Moved(b, a, o, n)) /\ c = Change(LoneKind(a, b, a, o, "Removed"), o, None)
             \/ \E o \in Uncertain(b.rows) : c = Change("Inconclusive", o, None)
    BY <2>1, <2>6, <1>1, ChangeFields
  <2> QED BY <2>1, <2>2, <2>3, <2>4, <2>5, <2>6, ChangeIs
<1>3. CASE r \in Shadowed(a.rows)
  <2>1. S = {}
    <3> HIDE DEF S, a, b
    <3> QED BY <1>2, <1>3, RowKinds DEF a
  <2> QED BY <2>1, <1>3, NoneCardinality
<1>4. CASE r \in Uncertain(a.rows)
  <2> DEFINE c0 == Change("Inconclusive", None, r)
  <2>1. c0 \in S
    <3> HIDE DEF a, b
    <3> QED BY <1>4, ChangeIs, ChangeFields
  <2>2. \A c \in S : c = c0
    <3> HIDE DEF S, a, b
    <3> QED BY <1>2, <1>4, RowKinds
  <2>3. S = {c0}
    BY <2>1, <2>2
  <2>4. r \notin Shadowed(a.rows)
    BY <1>4, RowKinds
  <2> QED BY <2>3, <2>4, OneCardinality
<1>5. CASE r \in Visible(a.rows) /\ r \notin Missing(a.rows, b.rows)
  <2>1. PICK o \in Visible(b.rows) : o.path = r.path
    BY <1>5 DEF Missing
  <2> DEFINE c0 == Change(InPlaceKind(b, a, o, r), o, r)
  <2>2. c0 \in S
    <3> HIDE DEF a, b
    <3>1. c0 \in Changes(b, a)
      BY <1>5, <2>1, ChangeIs
    <3> QED BY <3>1, ChangeFields
  <2>3. \A m \in Visible(b.rows) : m.path = r.path => m = o
    BY <2>1, VisibleOnce
  <2>4. \A c \in S : c = c0
    <3> HIDE DEF S, a, b
    <3> QED BY <1>2, <1>5, <2>3, RowKinds
  <2>5. S = {c0}
    BY <2>2, <2>4
  <2>6. r \notin Shadowed(a.rows)
    BY <1>5, RowKinds
  <2> QED BY <2>5, <2>6, OneCardinality
<1>6. CASE r \in Missing(a.rows, b.rows)
  <2>1. r \in Visible(a.rows) /\ r \notin Uncertain(a.rows) /\ r \notin Shadowed(a.rows)
        /\ \A q \in Visible(b.rows) : q.path # r.path
    BY <1>6, RowKinds
  <2>2. CASE \E o : Moved(b, a, o, r)
    <3>1. PICK o : Moved(b, a, o, r)
      BY <2>2
    <3> DEFINE c0 == Change("Moved", o, r)
    <3>2. c0 \in S
      <4> HIDE DEF a, b
      <4>1. c0 \in Changes(b, a)
        BY <3>1, ChangeIs DEF Moved
      <4> QED BY <4>1, ChangeFields
    <3>3. \A m \in Missing(b.rows, a.rows) : IsMove(b, a, m, r) => m = o
      <4> TAKE m \in Missing(b.rows, a.rows)
      <4> HAVE IsMove(b, a, m, r)
      <4>1. m \in b.rows /\ o \in b.rows /\ IsMove(b, a, o, r)
        BY <3>1, MissingRow DEF Moved
      <4>2. TrustedHash(m) = TrustedHash(r) /\ TrustedHash(o) = TrustedHash(r)
        BY <4>1 DEF IsMove
      <4> QED BY <4>1, <4>2, IsMoveTells
    <3>4. \A c \in S : c = c0
      <4> HIDE DEF S, a, b
      <4> QED BY <1>2, <2>1, <3>1, <3>3
    <3>5. S = {c0}
      BY <3>2, <3>4
    <3> QED BY <3>5, <2>1, OneCardinality
  <2>3. CASE \A o : ~Moved(b, a, o, r)
    <3> DEFINE c0 == Change(LoneKind(b, b, a, r, "Added"), None, r)
    <3>2. c0 \in S
      <4> HIDE DEF a, b
      <4>1. c0 \in Changes(b, a)
        BY <1>6, <2>3, ChangeIs
      <4> QED BY <4>1, ChangeFields
    <3>4. \A c \in S : c = c0
      <4> HIDE DEF S, a, b
      <4> QED BY <1>2, <2>1, <2>3 DEF Moved
    <3>5. S = {c0}
      BY <3>2, <3>4
    <3> QED BY <3>5, <2>1, OneCardinality
  <2> QED BY <2>2, <2>3
<1> QED
  BY <1>3, <1>4, <1>5, <1>6, RowKinds

LEMMA RowsAreTold ==
  ASSUME NEW x, Sound(x), NEW y, Sound(y)
  PROVE  RowsTold(DiffReport(Loaded(x), Loaded(y)), Loaded(x), Loaded(y))
<1> DEFINE b == Loaded(x)
           a == Loaded(y)
           report == DiffReport(b, a)
<1>1. /\ report.changes = Changes(b, a)
      /\ report.excludedBefore = Shadowed(b.rows) /\ report.excludedAfter = Shadowed(a.rows)
  BY DEF DiffReport
<1>2. \A r \in b.rows : Cardinality({c \in Changes(b, a) : c.before = r})
                          = IF r \in Shadowed(b.rows) THEN 0 ELSE 1
  BY BeforeOnce
<1>3. \A r \in a.rows : Cardinality({c \in Changes(b, a) : c.after = r})
                          = IF r \in Shadowed(a.rows) THEN 0 ELSE 1
  BY AfterOnce
<1> HIDE DEF a, b, report
<1>4. RowsTold(report, b, a)
  BY <1>1, <1>2, <1>3 DEF RowsTold
<1> QED
  BY <1>4 DEF report, a, b

-----------------------------------------------------------------------------
(***************************************************************************)
(* A complete comparison.                                                  *)
(***************************************************************************)
\* In a source read whole with no name in doubt, the entry at a name is that of
\* the visible row there.
LEMMA AtIsVisible ==
  ASSUME NEW x, Sound(x), State(x) = "Complete", Uncertain(Loaded(x).rows) = {}, NEW name
  PROVE  /\ \A i \in At(x, name) : RowOf(x, i) \in Visible(Loaded(x).rows)
                                   /\ RowOf(x, i).path = name /\ RowOf(x, i).id = i
         /\ \A r \in Visible(Loaded(x).rows) : r.path = name => At(x, name) = {r.id}
<1>1. ASSUME NEW i \in At(x, name)
      PROVE  RowOf(x, i) \in Visible(Loaded(x).rows) /\ RowOf(x, i).path = name /\ RowOf(x, i).id = i
  <2>1. i \in DOMAIN x.entries /\ x.entries[i].name = name /\ Stands(x, i) /\ i \in 1 .. x.indexed
    BY WholeIndex DEF At
  <2>2. RowOf(x, i) \in Loaded(x).rows /\ RowOf(x, i).id = i
    BY <2>1, WholeIndex
  <2>3. ~NameUncertain(RowOf(x, i))
    BY <2>2 DEF Uncertain
  <2>4. RowOf(x, i).path = name
    BY <2>1, <2>2, <2>3, RowTells
  <2> QED BY <2>1, <2>2, <2>3, <2>4, StandingRow
<1>2. ASSUME NEW r \in Visible(Loaded(x).rows), r.path = name
      PROVE  At(x, name) = {r.id}
  <2>1. r \in Loaded(x).rows /\ ~NameUncertain(r)
    BY DEF Visible
  <2>2. r.id \in DOMAIN x.entries /\ x.entries[r.id].name = name
    BY <1>2, <2>1, RowTells
  <2>3. Effective(x, r.id)
    BY <2>2, VisibleStands, WholeIndex
  <2>4. r.id \in At(x, name)
    BY <2>2, <2>3 DEF At
  <2>5. \A i \in At(x, name) : i = r.id
    BY <1>1, <1>2, VisibleOnce
  <2> QED BY <2>4, <2>5
<1>3. \A i \in At(x, name) : RowOf(x, i) \in Visible(Loaded(x).rows)
                            /\ RowOf(x, i).path = name /\ RowOf(x, i).id = i
  BY <1>1
<1>4. \A r \in Visible(Loaded(x).rows) : r.path = name => At(x, name) = {r.id}
  BY <1>2
<1> QED
  BY <1>3, <1>4

LEMMA CompleteMeans ==
  ASSUME NEW x, NEW y, ComparisonState(Loaded(x), Loaded(y), Changes(Loaded(x), Loaded(y))) = "Complete"
  PROVE  /\ State(x) = "Complete" /\ State(y) = "Complete"
         /\ Both(Loaded(x), Loaded(y))
         /\ \A c \in Changes(Loaded(x), Loaded(y)) : c.kind # "Inconclusive"
         /\ Uncertain(Loaded(x).rows) = {} /\ Uncertain(Loaded(y).rows) = {}
<1> DEFINE b == Loaded(x)
           a == Loaded(y)
<1>1. /\ "Unavailable" \notin {b.state, a.state} /\ Both(b, a) /\ "Incomplete" \notin {b.state, a.state}
      /\ \A c \in Changes(b, a) : c.kind # "Inconclusive"
  BY DEF ComparisonState
<1>2. State(x) = "Complete" /\ State(y) = "Complete"
  BY <1>1, LoadedIs DEF Both
<1> HIDE DEF a, b
<1>3. ASSUME NEW o \in Uncertain(b.rows) PROVE FALSE
  <2>1. Change("Inconclusive", o, None) \in Changes(b, a)
    BY ChangeIs
  <2> QED BY <2>1, <1>1, ChangeFields
<1>4. ASSUME NEW n \in Uncertain(a.rows) PROVE FALSE
  <2>1. Change("Inconclusive", None, n) \in Changes(b, a)
    BY ChangeIs
  <2> QED BY <2>1, <1>1, ChangeFields
<1> QED
  BY <1>1, <1>2, <1>3, <1>4 DEF a, b

LEMMA CompleteIsTold ==
  ASSUME NEW x, Sound(x), NEW y, Sound(y)
  PROVE  CompleteTells(DiffReport(Loaded(x), Loaded(y)), x, y)
<1> DEFINE b == Loaded(x)
           a == Loaded(y)
           changes == Changes(b, a)
           old(n) == {x.entries[i].content : i \in At(x, n)}
           new(n) == {y.entries[i].content : i \in At(y, n)}
           Here(n, c) == \/ c.before # None /\ x.entries[c.before.id].name = n
                         \/ c.after # None /\ y.entries[c.after.id].name = n
           Alters(c) == c.kind \in {"Added", "Removed", "Moved", "ContentChanged"}
<1> SUFFICES ASSUME ComparisonState(b, a, changes) = "Complete", NEW name \in Name
             PROVE  old(name) # new(name) <=> \E c \in changes : Here(name, c) /\ Alters(c)
  BY DEF CompleteTells, DiffReport
<1>1. /\ State(x) = "Complete" /\ State(y) = "Complete" /\ Both(b, a)
      /\ \A c \in changes : c.kind # "Inconclusive"
      /\ Uncertain(b.rows) = {} /\ Uncertain(a.rows) = {}
  BY CompleteMeans
<1>2. /\ \A i \in At(x, name) : RowOf(x, i) \in Visible(b.rows) /\ RowOf(x, i).path = name
      /\ \A r \in Visible(b.rows) : r.path = name => At(x, name) = {r.id}
  BY <1>1, AtIsVisible
<1>3. /\ \A i \in At(y, name) : RowOf(y, i) \in Visible(a.rows) /\ RowOf(y, i).path = name
      /\ \A r \in Visible(a.rows) : r.path = name => At(y, name) = {r.id}
  BY <1>1, AtIsVisible
<1>4. /\ \A r \in Visible(b.rows) : r.path = x.entries[r.id].name /\ r # None
      /\ \A r \in Visible(a.rows) : r.path = y.entries[r.id].name /\ r # None
  BY RowTells, EvidenceAssumption DEF Visible
<1> DEFINE OldHas == \E r \in Visible(b.rows) : r.path = name
           NewHas == \E r \in Visible(a.rows) : r.path = name
<1>5. ASSUME NEW o \in Visible(b.rows), o.path = name PROVE old(name) = {x.entries[o.id].content}
  BY <1>2, <1>5
<1>6. ASSUME NEW n \in Visible(a.rows), n.path = name PROVE new(name) = {y.entries[n.id].content}
  BY <1>3, <1>6
<1>7. ~OldHas => old(name) = {}
  BY <1>2
<1>8. ~NewHas => new(name) = {}
  BY <1>3
\* What a change at the name is.
<1>9. ASSUME NEW c \in changes, Here(name, c), Alters(c)
      PROVE  \/ \E o \in Visible(b.rows), n \in Visible(a.rows) :
                  o.path = name /\ n.path = name /\ InPlaceKind(b, a, o, n) = "ContentChanged"
             \/ OldHas /\ ~NewHas
             \/ NewHas /\ ~OldHas
  <2> HIDE DEF a, b
  <2>1. CASE \E o \in Visible(b.rows), n \in Visible(a.rows) :
               o.path = n.path /\ c = Change(InPlaceKind(b, a, o, n), o, n)
    <3>1. PICK o \in Visible(b.rows), n \in Visible(a.rows) :
               o.path = n.path /\ c = Change(InPlaceKind(b, a, o, n), o, n)
      BY <2>1
    <3>2. c.before = o /\ c.after = n /\ c.kind = InPlaceKind(b, a, o, n)
      BY <3>1, ChangeFields
    <3>3. o.path = name /\ n.path = name
      BY <3>1, <3>2, <1>4, <1>9
    <3>4. InPlaceKind(b, a, o, n) = "ContentChanged"
      BY <3>2, <1>9, SamePathIs DEF InPlaceKind
    <3> QED BY <3>3, <3>4
  <2>2. CASE \/ \E o \in Missing(b.rows, a.rows), n \in Missing(a.rows, b.rows) :
                  IsMove(b, a, o, n) /\ c = Change("Moved", o, n)
             \/ \E o \in Missing(b.rows, a.rows) :
                  (\A n : ~Moved(b, a, o, n)) /\ c = Change(LoneKind(a, b, a, o, "Removed"), o, None)
             \/ \E n \in Missing(a.rows, b.rows) :
                  (\A o : ~Moved(b, a, o, n)) /\ c = Change(LoneKind(b, b, a, n, "Added"), None, n)
    <3>1. /\ c.before = None \/ c.before \in Missing(b.rows, a.rows)
          /\ c.after = None \/ c.after \in Missing(a.rows, b.rows)
      BY <2>2, ChangeFields
    <3>2. /\ c.before # None => c.before \in Visible(b.rows) /\ \A q \in Visible(a.rows) : q.path # c.before.path
          /\ c.after # None => c.after \in Visible(a.rows) /\ \A q \in Visible(b.rows) : q.path # c.after.path
      BY <3>1, RowKinds
    <3> QED BY <3>2, <1>4, <1>9
  <2>3. CASE \/ \E o \in Uncertain(b.rows) : c = Change("Inconclusive", o, None)
             \/ \E n \in Uncertain(a.rows) : c = Change("Inconclusive", None, n)
    BY <2>3, <1>1
  <2> QED BY <2>1, <2>2, <2>3, ChangeIs
<1>10. ASSUME NEW o \in Visible(b.rows), o.path = name, ~NewHas
       PROVE  \E c \in changes : Here(name, c) /\ Alters(c)
  <2>1. o \in Missing(b.rows, a.rows)
    BY <1>10, RowKinds
  <2> HIDE DEF a, b
  <2>2. CASE \E n : Moved(b, a, o, n)
    <3>1. PICK n : Moved(b, a, o, n)
      BY <2>2
    <3>2. Change("Moved", o, n) \in changes
      BY <3>1, ChangeIs DEF Moved
    <3> QED BY <3>2, <1>4, <1>10, ChangeFields
  <2>3. CASE \A n : ~Moved(b, a, o, n)
    <3> DEFINE c == Change(LoneKind(a, b, a, o, "Removed"), o, None)
    <3>1. c \in changes
      BY <2>1, <2>3, ChangeIs
    <3>2. c.before = o /\ c.kind = LoneKind(a, b, a, o, "Removed")
      BY ChangeFields
    <3>3. c.kind \in {"Inconclusive", "Removed"}
      BY <3>2 DEF LoneKind, Absence
    <3> QED BY <3>1, <3>2, <3>3, <1>1, <1>4, <1>10
  <2> QED BY <2>2, <2>3
<1>11. ASSUME NEW n \in Visible(a.rows), n.path = name, ~OldHas
       PROVE  \E c \in changes : Here(name, c) /\ Alters(c)
  <2>1. n \in Missing(a.rows, b.rows)
    BY <1>11, RowKinds
  <2> HIDE DEF a, b
  <2>2. CASE \E o : Moved(b, a, o, n)
    <3>1. PICK o : Moved(b, a, o, n)
      BY <2>2
    <3>2. Change("Moved", o, n) \in changes
      BY <3>1, ChangeIs DEF Moved
    <3> QED BY <3>2, <1>4, <1>11, ChangeFields
  <2>3. CASE \A o : ~Moved(b, a, o, n)
    <3> DEFINE c == Change(LoneKind(b, b, a, n, "Added"), None, n)
    <3>1. c \in changes
      BY <2>1, <2>3, ChangeIs
    <3>2. c.after = n /\ c.kind = LoneKind(b, b, a, n, "Added")
      BY ChangeFields
    <3>3. c.kind \in {"Inconclusive", "Added"}
      BY <3>2 DEF LoneKind, Absence
    <3> QED BY <3>1, <3>2, <3>3, <1>1, <1>4, <1>11
  <2> QED BY <2>2, <2>3
<1>12. ASSUME NEW o \in Visible(b.rows), NEW n \in Visible(a.rows), o.path = name, n.path = name
       PROVE  /\ (x.entries[o.id].content # y.entries[n.id].content)
                   <=> InPlaceKind(b, a, o, n) = "ContentChanged"
              /\ InPlaceKind(b, a, o, n) = "ContentChanged"
                   => \E c \in changes : Here(name, c) /\ Alters(c)
  <2> DEFINE c == Change(InPlaceKind(b, a, o, n), o, n)
  <2>1. c \in changes
    <3> HIDE DEF a, b
    <3> QED BY <1>12, ChangeIs
  <2>2. c.kind = InPlaceKind(b, a, o, n) /\ c.before = o
    BY ChangeFields
  <2>3. InPlaceKind(b, a, o, n) # "Inconclusive"
    BY <2>1, <2>2, <1>1
  <2>4. (x.entries[o.id].content # y.entries[n.id].content) <=> InPlaceKind(b, a, o, n) = "ContentChanged"
    BY <2>3, InPlaceTells
  <2> HIDE DEF c
  <2> QED BY <2>1, <2>2, <2>4, <1>4, <1>12
<1>13. CASE OldHas /\ NewHas
  <2>1. PICK o \in Visible(b.rows), n \in Visible(a.rows) : o.path = name /\ n.path = name
    BY <1>13
  <2>2. old(name) = {x.entries[o.id].content} /\ new(name) = {y.entries[n.id].content}
    BY <2>1, <1>5, <1>6
  <2>3. old(name) # new(name) <=> x.entries[o.id].content # y.entries[n.id].content
    <3> HIDE DEF old, new
    <3> QED BY <2>2
  <2>4. \A p \in Visible(b.rows) : p.path = name => p = o
    BY <2>1, VisibleOnce
  <2>5. \A p \in Visible(a.rows) : p.path = name => p = n
    BY <2>1, VisibleOnce
  <2> HIDE DEF a, b, old, new, Here, Alters, changes
  <2>6. /\ (x.entries[o.id].content # y.entries[n.id].content) <=> InPlaceKind(b, a, o, n) = "ContentChanged"
        /\ InPlaceKind(b, a, o, n) = "ContentChanged" => \E c \in changes : Here(name, c) /\ Alters(c)
    BY <2>1, <1>12
  <2>7. (\E c \in changes : Here(name, c) /\ Alters(c)) => InPlaceKind(b, a, o, n) = "ContentChanged"
    BY <1>9, <1>13, <2>4, <2>5
  <2> QED BY <2>3, <2>6, <2>7
<1>14. CASE OldHas /\ ~NewHas
  <2>1. PICK o \in Visible(b.rows) : o.path = name
    BY <1>14
  <2>2. old(name) # new(name)
    BY <2>1, <1>5, <1>8, <1>14
  <2> HIDE DEF a, b, old, new, Here, Alters, changes
  <2> QED BY <2>1, <2>2, <1>10, <1>14
<1>15. CASE ~OldHas /\ NewHas
  <2>1. PICK n \in Visible(a.rows) : n.path = name
    BY <1>15
  <2>2. old(name) # new(name)
    BY <2>1, <1>6, <1>7, <1>15
  <2> HIDE DEF a, b, old, new, Here, Alters, changes
  <2> QED BY <2>1, <2>2, <1>11, <1>15
<1>16. CASE ~OldHas /\ ~NewHas
  <2>1. old(name) = new(name)
    BY <1>7, <1>8, <1>16
  <2> HIDE DEF a, b, old, new, Here, Alters, changes
  <2> QED BY <2>1, <1>9, <1>16
<1> QED
  BY <1>13, <1>14, <1>15, <1>16

-----------------------------------------------------------------------------
(***************************************************************************)
(* Coverage: what the evidence of one source says, and what is made of it. *)
(***************************************************************************)
\* What the rows that are handed on of an index are evidence of.
Faithful(e, x) ==
  /\ Sound(x)
  /\ e.rows = IF e.evidence = "Unavailable" THEN {} ELSE Loaded(x).rows
  /\ e.evidence = "Complete" => State(x) = "Complete"
  /\ \A r \in e.rows : r.entry # "unsupported"

LEMMA FaithfulRows ==
  ASSUME NEW e, NEW x, Faithful(e, x), NEW r \in e.rows
  PROVE  r \in Loaded(x).rows /\ e.rows = Loaded(x).rows /\ r \in IndexRow /\ Sound(x)
         /\ r.entry \in {"file", "hardlink", "symlink"}
<1>1. r \in Loaded(x).rows /\ e.rows = Loaded(x).rows /\ Sound(x) /\ r.entry # "unsupported"
  BY DEF Faithful
<1>2. r \in IndexRow
  BY <1>1, RowTells
<1> QED
  BY <1>1, <1>2 DEF IndexRow, EntryTypes

LEMMA RowTold ==
  ASSUME NEW e, NEW x, Faithful(e, x), NEW r \in e.rows
  PROVE  LET rows == e.rows IN
         Cardinality({c \in Content : r \in Copies(rows, c)})
         + Cardinality({c \in Content : r \in Aliases(rows, c)})
         + Cardinality({r} \intersect UnknownContent(rows))
         + Cardinality({r} \intersect Excluded(rows)) = 1
<1> DEFINE rows == e.rows
           C == {c \in Content : r \in Copies(rows, c)}
           A == {c \in Content : r \in Aliases(rows, c)}
           U == {r} \intersect UnknownContent(rows)
           X == {r} \intersect Excluded(rows)
<1>1. r \in IndexRow /\ r.entry \in {"file", "hardlink", "symlink"}
  BY FaithfulRows
<1>2. r.hash \in Content \union {None} /\ None \notin Content
      /\ TrustedHash(r) \in Content \union {None}
  BY <1>1, EvidenceAssumption DEF IndexRow, TrustedHash
<1>3. Cardinality({}) = 0 /\ \A z : Cardinality({z}) = 1
  BY FS_EmptySet, FS_Singleton
<1>4. \/ r \in Shadowed(rows) /\ r \notin Visible(rows) /\ r \notin Uncertain(rows)
      \/ r \notin Shadowed(rows) /\ r \in Visible(rows) /\ ~NameUncertain(r)
      \/ r \notin Shadowed(rows) /\ r \notin Visible(rows) /\ r \in Uncertain(rows) /\ NameUncertain(r)
  BY RowKinds DEF Visible, Uncertain
<1> SUFFICES Cardinality(C) + Cardinality(A) + Cardinality(U) + Cardinality(X) = 1
  OBVIOUS
<1> HIDE DEF rows
<1>5. CASE r \in Shadowed(rows)
  <2>1. C = {} /\ A = {} /\ U = {} /\ X = {r}
    BY <1>4, <1>5 DEF Copies, Aliases, UnknownContent, Excluded
  <2> HIDE DEF C, A, U, X
  <2> QED BY <2>1, <1>3
<1>6. CASE r \notin Shadowed(rows) /\ r.entry = "symlink"
  <2>1. C = {} /\ A = {} /\ U = {} /\ X = {r}
    BY <1>4, <1>6 DEF Copies, Aliases, UnknownContent, Excluded
  <2> HIDE DEF C, A, U, X
  <2> QED BY <2>1, <1>3
<1>7. CASE r \notin Shadowed(rows) /\ r.entry = "hardlink" /\ (r.hash = None \/ Copies(rows, r.hash) = {})
  <2>1. C = {} /\ U = {}
    BY <1>7 DEF Copies, UnknownContent
  <2>2. A = {}
    BY <1>2, <1>7 DEF Aliases
  <2>3. X = {r}
    BY <1>4, <1>7 DEF Excluded
  <2> HIDE DEF C, A, U, X
  <2>4. Cardinality(C) = 0 /\ Cardinality(U) = 0 /\ Cardinality(A) = 0
    BY <2>1, <2>2, <1>3
  <2>5. Cardinality(X) = 1
    BY <2>3, <1>3
  <2> QED BY <2>4, <2>5
<1>8. CASE r \notin Shadowed(rows) /\ r.entry = "hardlink" /\ r.hash # None /\ Copies(rows, r.hash) # {}
  <2>1. C = {} /\ U = {}
    BY <1>8 DEF Copies, UnknownContent
  <2>2. A = {r.hash}
    BY <1>2, <1>4, <1>8 DEF Aliases
  <2>3. X = {}
    BY <1>8 DEF Excluded
  <2> HIDE DEF C, A, U, X
  <2> QED BY <2>1, <2>2, <2>3, <1>3
<1>9. CASE r \notin Shadowed(rows) /\ r.entry = "file" /\ (NameUncertain(r) \/ TrustedHash(r) = None)
  <2>1. C = {}
    BY <1>2, <1>4, <1>9 DEF Copies
  <2>2. A = {} /\ X = {}
    BY <1>9 DEF Aliases, Excluded
  <2>3. U = {r}
    BY <1>4, <1>9 DEF UnknownContent
  <2> HIDE DEF C, A, U, X
  <2> QED BY <2>1, <2>2, <2>3, <1>3
<1>10. CASE r \notin Shadowed(rows) /\ r.entry = "file" /\ ~NameUncertain(r) /\ TrustedHash(r) # None
  <2>1. C = {TrustedHash(r)}
    BY <1>2, <1>4, <1>10 DEF Copies, Uncertain
  <2>2. A = {} /\ X = {} /\ U = {}
    BY <1>10 DEF Aliases, Excluded, UnknownContent
  <2> HIDE DEF C, A, U, X
  <2> QED BY <2>1, <2>2, <1>3
<1> QED
  BY <1>1, <1>5, <1>6, <1>7, <1>8, <1>9, <1>10

\* A copy was in the source, and nothing that was read replaces it.
LEMMA CopyIsHeld ==
  ASSUME NEW e, NEW x, Faithful(e, x), NEW c \in Content, NEW r \in Copies(e.rows, c)
  PROVE  Holds(x, c) /\ (TrustedSize(r) # None => TrustedSize(r) = Length[c])
<1>1. r \in Visible(e.rows) /\ r \in e.rows /\ r.entry = "file" /\ TrustedHash(r) = c
  BY RowKinds DEF Copies
<1>2. r \in Loaded(x).rows /\ e.rows = Loaded(x).rows /\ Sound(x)
  BY <1>1, FaithfulRows
<1>3. c # None
  BY EvidenceAssumption
<1>4. r.id \in DOMAIN x.entries /\ x.entries[r.id].entry = "file" /\ x.entries[r.id].content = c
  BY <1>1, <1>2, <1>3, RowTells
<1>5. Stands(x, r.id)
  BY <1>1, <1>2, VisibleStands
<1>6. TrustedSize(r) # None => TrustedSize(r) = Length[c]
  BY <1>2, <1>4, RowTells
<1> QED
  BY <1>4, <1>5, <1>6 DEF Holds

\* A content that was held by a source that was read whole is a copy, or a row
\* of unknown content that its size lets be it.
LEMMA HeldIsSeen ==
  ASSUME NEW e, NEW x, Faithful(e, x), e.evidence = "Complete", NEW c \in Content,
         NEW i \in DOMAIN x.entries, x.entries[i].entry = "file", x.entries[i].content = c, Stands(x, i)
  PROVE  LET r == RowOf(x, i) IN
         /\ r \in e.rows /\ r.entry = "file" /\ TrustedSize(r) \in {None, Length[c]}
         /\ r \in Copies(e.rows, c) \/ r \in UnknownContent(e.rows)
<1> DEFINE r == RowOf(x, i)
<1>1. Sound(x) /\ State(x) = "Complete" /\ e.rows = Loaded(x).rows
  BY DEF Faithful
<1>2. r \in Loaded(x).rows /\ r.id = i /\ i \in 1 .. x.indexed
  BY <1>1, WholeIndex
<1> HIDE DEF r
<1>3. /\ r.entry = "file" /\ TrustedSize(r) \in {None, Length[c]}
      /\ TrustedHash(r) \in {None, c}
  BY <1>1, <1>2, RowTells
<1>4. CASE NameUncertain(r)
  <2>1. r \in UnknownContent(e.rows)
    BY <1>1, <1>2, <1>3, <1>4 DEF UnknownContent, Uncertain
  <2> QED BY <2>1, <1>1, <1>2, <1>3 DEF r
<1>5. CASE ~NameUncertain(r)
  <2>1. r \in Visible(e.rows)
    BY <1>1, <1>2, <1>5, StandingRow DEF r
  <2>2. r \in Copies(e.rows, c) \/ r \in UnknownContent(e.rows)
    BY <2>1, <1>3 DEF Copies, UnknownContent
  <2> QED BY <2>2, <1>1, <1>2, <1>3 DEF r
<1> QED
  BY <1>4, <1>5

-----------------------------------------------------------------------------
(***************************************************************************)
(* All sources together: D is those that were chosen, L what was loaded of *)
(* each, X the index that each was loaded from.                            *)
(***************************************************************************)
LEMMA GroupSizeIs ==
  ASSUME NEW D, NEW L, NEW X, DOMAIN L = D, \A s \in D : Faithful(L[s], X[s]), NEW c \in Content
  PROVE  GroupSize(L, c) \in {None, Length[c]}
<1> DEFINE copies == {f \in Rows(L) : f.row \in Copies(L[f.source].rows, c)}
           sizes == {TrustedSize(e.row) : e \in copies} \ {None}
<1>1. \A f \in Rows(L) : f.source \in D
  BY DEF Rows
<1>2. ASSUME NEW e \in copies, TrustedSize(e.row) # None PROVE TrustedSize(e.row) = Length[c]
  BY <1>1, <1>2, CopyIsHeld
<1>3. sizes \subseteq {Length[c]}
  BY <1>2
<1>4. GroupSize(L, c) = IF Cardinality(sizes) = 1 THEN CHOOSE n \in sizes : TRUE ELSE None
  BY DEF GroupSize
<1> HIDE DEF sizes
<1>5. CASE sizes = {}
  BY <1>4, <1>5, FS_EmptySet
<1>6. CASE sizes # {}
  BY <1>3, <1>4, <1>6
<1> QED
  BY <1>5, <1>6

LEMMA PresenceIs ==
  ASSUME NEW D, NEW L, NEW X, DOMAIN L = D, \A s \in D : Faithful(L[s], X[s]), NEW c \in Content,
         NEW s \in D
  PROVE  /\ PresenceIn(L, s, c) \in {"present", "absent", "unknown"}
         /\ PresenceIn(L, s, c) = "present" =>
              /\ Holds(X[s], c)
              /\ L[s].evidence \notin {"Unreachable", "Unavailable"}
         /\ PresenceIn(L, s, c) = "absent" => ~Holds(X[s], c)
<1>1. PresenceIn(L, s, c) \in {"present", "absent", "unknown"}
  BY DEF PresenceIn
<1>2. ASSUME PresenceIn(L, s, c) = "present"
      PROVE  Holds(X[s], c) /\ L[s].evidence \notin {"Unreachable", "Unavailable"}
  <2>1. L[s].evidence # "Unreachable" /\ Copies(L[s].rows, c) # {}
    BY <1>2 DEF PresenceIn
  <2>2. PICK r : r \in Copies(L[s].rows, c)
    BY <2>1
  <2>3. L[s].rows # {}
    BY <2>2, RowKinds DEF Copies
  <2>4. L[s].evidence # "Unavailable"
    BY <2>3 DEF Faithful
  <2>5. Holds(X[s], c)
    BY <2>2, CopyIsHeld
  <2> QED BY <2>1, <2>4, <2>5
<1>3. ASSUME PresenceIn(L, s, c) = "absent", Holds(X[s], c)
      PROVE  FALSE
  <2>1. L[s].evidence = "Complete" /\ CouldMatch(L[s].rows, GroupSize(L, c)) = {}
        /\ Copies(L[s].rows, c) = {}
    BY <1>3 DEF PresenceIn
  <2>2. PICK i \in DOMAIN X[s].entries :
          X[s].entries[i].entry = "file" /\ X[s].entries[i].content = c /\ Stands(X[s], i)
    BY <1>3 DEF Holds
  <2> DEFINE r == RowOf(X[s], i)
  <2>3. /\ TrustedSize(r) \in {None, Length[c]}
        /\ r \in Copies(L[s].rows, c) \/ r \in UnknownContent(L[s].rows)
    BY <2>1, <2>2, HeldIsSeen
  <2>4. GroupSize(L, c) \in {None, Length[c]}
    BY GroupSizeIs
  <2> HIDE DEF r
  <2> QED BY <2>1, <2>3, <2>4 DEF CouldMatch
<1> QED
  BY <1>1, <1>2, <1>3

HoldersIn(D, X, c) == {s \in D : Holds(X[s], c)}
CountedIn(D, L, X, c) == {s \in HoldersIn(D, X, c) : Counts(L[s].status)}

LEMMA WhereIs ==
  ASSUME NEW D, NEW L, NEW X, DOMAIN L = D, \A s \in D : Faithful(L[s], X[s]), NEW c \in Content
  PROVE  /\ Where(L, c, "present") \subseteq HoldersIn(D, X, c)
         /\ HoldersIn(D, X, c) \subseteq Where(L, c, "present") \union Where(L, c, "unknown")
<1>1. \A s \in D : /\ PresenceIn(L, s, c) \in {"present", "absent", "unknown"}
                   /\ PresenceIn(L, s, c) = "present" => Holds(X[s], c)
                   /\ PresenceIn(L, s, c) = "absent" => ~Holds(X[s], c)
  BY PresenceIs
<1> QED
  BY <1>1 DEF Where, HoldersIn

\* What a group's counts and verdict say of the sources that held its content.
LEMMA GroupTells ==
  ASSUME NEW D, NEW L, NEW X, DOMAIN L = D, \A s \in D : Faithful(L[s], X[s]), NEW c \in Content,
         IsFiniteSet(D), NEW params, params.minCopies \in Nat
  PROVE  LET g == GroupReport(L, c, params)
             held == HoldersIn(D, X, c)
             counted == CountedIn(D, L, X, c)
         IN /\ TrustedIn(L, c) \subseteq counted
            /\ IsFiniteSet(counted)
            /\ g.verdict = "meets_floor" => Cardinality(TrustedIn(L, c)) >= params.minCopies
            /\ g.verdict = "below_floor" => Cardinality(counted) < params.minCopies
            /\ g.onlyCopy => Cardinality(counted) = 1
            /\ g.replicas.observed <= Cardinality(held)
            /\ g.replicas.exact => g.replicas.observed = Cardinality(held)
<1> DEFINE held == HoldersIn(D, X, c)
           counted == CountedIn(D, L, X, c)
           P == Where(L, c, "present")
           T == TrustedIn(L, c)
           none == Where(L, c, "unknown") = {}
           g == GroupReport(L, c, params)
<1>1. P \subseteq held /\ (none => P = held)
  BY WhereIs
<1>2. T \subseteq counted /\ (none => T = counted)
  BY <1>1 DEF TrustedIn, CountedIn
<1>3. IsFiniteSet(held) /\ IsFiniteSet(counted) /\ IsFiniteSet(T) /\ IsFiniteSet(P)
  <2>1. held \subseteq D /\ counted \subseteq D /\ T \subseteq D /\ P \subseteq D
    BY <1>1, <1>2 DEF HoldersIn, CountedIn
  <2> HIDE DEF held, counted, T, P
  <2> QED BY <2>1, FS_Subset
<1> HIDE DEF held, counted, T, P, none
<1>4. Cardinality(P) <= Cardinality(held)
  BY <1>1, <1>3, FS_Subset
<1>5. \A S \in {P, held, counted, T} : Cardinality(S) \in Nat
  BY <1>3, FS_CardinalityType
<1>6. /\ g.verdict = IF Cardinality(T) >= params.minCopies THEN "meets_floor"
                     ELSE IF ~none THEN "inconclusive" ELSE "below_floor"
      /\ g.onlyCopy = (Cardinality(T) = 1 /\ none)
      /\ g.replicas.observed = Cardinality(P) /\ g.replicas.exact = none
  BY DEF GroupReport, Verdict, OnlyCopy, Replicas, T, P, none
<1> HIDE DEF g
<1>7. g.verdict = "meets_floor" => Cardinality(T) >= params.minCopies
  BY <1>6
<1>8. g.verdict = "below_floor" => Cardinality(counted) < params.minCopies
  BY <1>2, <1>5, <1>6
<1>9. g.onlyCopy => Cardinality(counted) = 1
  BY <1>2, <1>6
<1>10. g.replicas.observed <= Cardinality(held)
  BY <1>4, <1>6
<1>11. g.replicas.exact => g.replicas.observed = Cardinality(held)
  BY <1>1, <1>6
<1> QED
  BY <1>2, <1>3, <1>7, <1>8, <1>9, <1>10, <1>11 DEF g, held, counted, T

\* What a report that says it is complete leaves out.
LeavesOut(D, X, report, params) ==
  /\ \A s \in D : \A i \in DOMAIN X[s].entries :
       LET m == X[s].entries[i] IN
       m.entry = "file" /\ Effective(X[s], i) /\ PassesFilter(RowOf(X[s], i), params)
       => \/ m.content \in {g.content : g \in report.groups}
          \/ m.content \in report.excludedGroups
  /\ \A g \in report.groups :
       g.verdict = "meets_floor" <=> Cardinality(HoldersIn(D, X, g.content)) >= params.minCopies
  /\ \A c \in report.excludedGroups :
       Length[c] < params.minSize \/ (Length[c] = 0 /\ ~params.includeEmpty)

LEMMA CompleteReportTells ==
  ASSUME NEW D, NEW L, NEW X, DOMAIN L = D, \A s \in D : Faithful(L[s], X[s]),
         IsFiniteSet(D), NEW params, params.minCopies \in Nat,
         CoverageReport(L, params).complete
  PROVE  LeavesOut(D, X, CoverageReport(L, params), params)
<1> DEFINE report == CoverageReport(L, params)
           told == {c \in Grouped(L) : GroupTold(L, c, params)}
           inScope == {c \in told : ~OutOfScope(L, c, params)}
           unknown == {e \in Rows(L) : e.row \in UnknownContent(L[e.source].rows) /\ PassesFilter(e.row, params)}
<1>1. /\ report.groups = {GroupReport(L, c, params) : c \in inScope}
      /\ report.excludedGroups = told \ inScope
      /\ report.complete = (/\ Degraded(L) = {} /\ unknown = {}
                            /\ \A g \in report.groups : g.verdict # "inconclusive")
  BY DEF CoverageReport
<1>2. Degraded(L) = {} /\ unknown = {} /\ \A g \in report.groups : g.verdict # "inconclusive"
  BY <1>1
<1>3. \A s \in D : L[s].evidence = "Complete" /\ L[s].status = "ok"
  BY <1>2 DEF Degraded
<1>4. \A c : GroupReport(L, c, params).content = c
  BY DEF GroupReport
<1> HIDE DEF report
<1>5. ASSUME NEW s \in D, NEW i \in DOMAIN X[s].entries, X[s].entries[i].entry = "file",
             Effective(X[s], i), PassesFilter(RowOf(X[s], i), params)
      PROVE  \/ X[s].entries[i].content \in {g.content : g \in report.groups}
             \/ X[s].entries[i].content \in report.excludedGroups
  <2> DEFINE m == X[s].entries[i]
             r == RowOf(X[s], i)
  <2>1. Sound(X[s]) /\ State(X[s]) = "Complete"
    BY <1>3 DEF Faithful
  <2>2. m \in Entry /\ Stands(X[s], i)
    BY <2>1, <1>5, WholeIndex
  <2>3. m.content \in Content
    BY <2>2 DEF Entry
  <2>4. r \in L[s].rows /\ (r \in Copies(L[s].rows, m.content) \/ r \in UnknownContent(L[s].rows))
    BY <1>3, <1>5, <2>2, <2>3, HeldIsSeen
  <2> HIDE DEF r, m
  <2>5. r \notin UnknownContent(L[s].rows)
    <3> SUFFICES ASSUME r \in UnknownContent(L[s].rows) PROVE FALSE
      OBVIOUS
    <3> DEFINE e == [source |-> s, row |-> r]
    <3>1. e \in Rows(L)
      BY <2>4 DEF Rows
    <3>2. e \in unknown
      BY <3>1, <1>5 DEF r
    <3> QED BY <3>2, <1>2
  <2>6. r \in Copies(L[s].rows, m.content)
    BY <2>4, <2>5
  <2>7. m.content \in told
    BY <2>3, <2>6, <1>5 DEF Grouped, GroupTold, r
  <2>8. CASE m.content \in inScope
    <3>1. GroupReport(L, m.content, params) \in report.groups
      BY <2>8, <1>1
    <3> QED BY <3>1, <1>4 DEF m
  <2>9. CASE m.content \notin inScope
    BY <2>7, <2>9, <1>1 DEF m
  <2> QED BY <2>8, <2>9
<1>6. ASSUME NEW g \in report.groups
      PROVE  g.verdict = "meets_floor"
               <=> Cardinality(HoldersIn(D, X, g.content)) >= params.minCopies
  <2>1. PICK c \in inScope : g = GroupReport(L, c, params)
    BY <1>1
  <2>2. c \in Content /\ g.content = c
    BY <2>1, <1>4 DEF Grouped
  <2> DEFINE held == HoldersIn(D, X, c)
             P == Where(L, c, "present")
             none == Where(L, c, "unknown") = {}
  <2>3. P \subseteq held /\ (none => P = held)
    <3>1. /\ Where(L, c, "present") \subseteq HoldersIn(D, X, c)
          /\ HoldersIn(D, X, c) \subseteq Where(L, c, "present") \union Where(L, c, "unknown")
      BY <2>2, WhereIs
    <3> QED BY <3>1
  <2>4. TrustedIn(L, c) = P
    BY <1>3 DEF TrustedIn, Counts, Where
  <2>5. g.verdict = IF Cardinality(P) >= params.minCopies THEN "meets_floor"
                    ELSE IF ~none THEN "inconclusive" ELSE "below_floor"
    BY <2>1, <2>4 DEF GroupReport, Verdict
  <2>6. IsFiniteSet(held)
    BY FS_Subset DEF HoldersIn
  <2> HIDE DEF held, P, none
  <2>7. Cardinality(P) <= Cardinality(held) /\ Cardinality(held) \in Nat /\ Cardinality(P) \in Nat
    BY <2>3, <2>6, FS_Subset, FS_CardinalityType
  <2>8. g.verdict # "inconclusive"
    BY <1>2
  <2>9. g.verdict = "meets_floor" <=> Cardinality(held) >= params.minCopies
    BY <2>3, <2>5, <2>7, <2>8
  <2> QED BY <2>2, <2>9 DEF held
<1>7. ASSUME NEW c \in report.excludedGroups
      PROVE  Length[c] < params.minSize \/ (Length[c] = 0 /\ ~params.includeEmpty)
  <2>1. c \in Content /\ OutOfScope(L, c, params)
    BY <1>1 DEF Grouped
  <2>2. GroupSize(L, c) = Length[c]
    BY <2>1, GroupSizeIs DEF OutOfScope
  <2> QED BY <2>1, <2>2 DEF OutOfScope
<1> QED
  BY <1>5, <1>6, <1>7 DEF report, LeavesOut

-----------------------------------------------------------------------------
(***************************************************************************)
(* The command.  Each source's evidence is carried to the report as it was *)
(* read, beside what the source and the registry were seen to be.          *)
(***************************************************************************)
CmdFields ==
  {"step", "archives", "protected", "paths", "guarded", "stamp", "next", "registry", "todo",
   "uuids", "seen", "currency", "shown", "loaded", "params", "report"}
Only(fields) == \A f \in CmdFields \ fields : cmd'[f] = cmd[f]

Currencies == {"NotChecked", "Denied", "Offline", "DirectoryUnverified", "StatMatches", "Stale"}

\* The world is what it can be, and what it is now was so while the command ran.
IsWorld ==
  /\ idx = [s \in Source |-> idx[s]] /\ \A s \in Source : Sound(idx[s])
  /\ live \in [Source -> Live] /\ master \in Master
  /\ world = [left |-> world.left, live |-> world.live, registry |-> world.registry]
  /\ world.live = [s \in Source |-> world.live[s]]
  /\ \A s \in Source : live[s] \in world.live[s]
  /\ master.status \in world.registry

IsCommand ==
  /\ cmd = [f \in CmdFields |-> cmd[f]]
  /\ cmd.step \in Steps /\ cmd.todo \subseteq Source
  /\ cmd.seen = [s \in Source |-> cmd.seen[s]]
  /\ cmd.loaded = [s \in Source |-> cmd.loaded[s]]
  /\ cmd.registry = [s \in Source |-> cmd.registry[s]]
  /\ \A s \in Source : cmd.seen[s] # None => Sound(cmd.seen[s])
  /\ \A i \in DOMAIN cmd.archives : cmd.archives[i] \subseteq Source
  /\ \A s \in cmd.todo : cmd.loaded[s] = None
  /\ cmd.step \in {"check", "list", "recheck", "given", "choose"} =>
       \A s \in Source : cmd.loaded[s] = None

\* The stamp is of the version that the rows read so far are of, or of one that
\* is no more.
RegistryRead ==
  /\ cmd.stamp \in Nat /\ cmd.stamp <= master.version
  /\ cmd.stamp = 0 => \A s \in Source : cmd.registry[s] = None
  /\ cmd.stamp = 0 => cmd.step \notin {"list", "recheck"}
  /\ cmd.step \in {"list", "recheck"} =>
       /\ cmd.next \in Nat
       /\ cmd.stamp = master.version =>
            \A s \in Source : s < cmd.next => cmd.registry[s] = master.status[s]
  /\ cmd.step = "recheck" => cmd.next > NSources
  /\ cmd.stamp # 0 /\ cmd.step \notin {"list", "recheck", "refused"} => cmd.registry \in world.registry

\* What looking at the source of index x has shown, of the states that the source
\* has been in.
Looked(states, x, currency, shown) ==
  /\ shown => CanShowPresence(currency) /\ \E l \in states : l.opens /\ RightKind(x, l)
  /\ currency = "StatMatches" => \E l \in states : l.stat = x.stat
  /\ currency = "DirectoryUnverified" => x.type = "dir"

Visit ==
  cmd.step \in {"probe", "stat", "open", "map"} =>
    /\ cmd.todo # {} /\ Sound(cmd.seen[Current]) /\ KnownStatus(cmd.registry[Current])
    /\ cmd.currency \in Currencies /\ cmd.shown \in BOOLEAN
    /\ cmd.step \in {"stat", "open"} => CanShowPresence(cmd.currency)
    /\ cmd.step # "map" => ~cmd.shown
    /\ Looked(world.live[Current], cmd.seen[Current], cmd.currency, cmd.shown)

EvidenceRecord(x, recorded, currency, shown) ==
  LET evidence == EvidenceOf(Loaded(x), shown) IN
  [evidence |-> evidence,
   status |-> Lower(RegistryTrust(recorded), LiveTrust(evidence, currency)),
   rows |-> IF evidence = "Unavailable" THEN {} ELSE Loaded(x).rows]

LoadedTrue ==
  \A s \in Source : cmd.loaded[s] # None =>
    /\ Sound(cmd.seen[s]) /\ KnownStatus(cmd.registry[s])
    /\ \E currency \in Currencies, shown \in BOOLEAN :
         /\ Looked(world.live[s], cmd.seen[s], currency, shown)
         /\ cmd.loaded[s] = EvidenceRecord(cmd.seen[s], cmd.registry[s], currency, shown)

CoverageTold ==
  cmd.step = "done" =>
    /\ cmd.params.minCopies \in Nat
    /\ cmd.report = CoverageReport(Evident, cmd.params)

DiffTold ==
  /\ cmd.step \in {"before", "after", "told"} => NSources >= 2 /\ \A s \in Source : cmd.loaded[s] = None
  /\ cmd.step \in {"after", "told"} => Sound(cmd.seen[1])
  /\ cmd.step = "told" => /\ Sound(cmd.seen[2])
                          /\ cmd.report = DiffReport(Loaded(cmd.seen[1]), Loaded(cmd.seen[2]))

ReportsInv ==
  IsWorld /\ IsCommand /\ RegistryRead /\ Visit /\ LoadedTrue /\ CoverageTold /\ DiffTold

\* What has been true stays so, and a version of the master has one content.
Grows ==
  /\ \A s \in Source : world.live[s] \subseteq world'.live[s]
  /\ world.registry \subseteq world'.registry
  /\ master'.version >= master.version
  /\ master'.version = master.version => master'.status = master.status

LEMMA LookedMore ==
  ASSUME NEW states, NEW more, states \subseteq more, NEW x, NEW currency, NEW shown,
         Looked(states, x, currency, shown)
  PROVE  Looked(more, x, currency, shown)
BY DEF Looked

LEMMA CurrentIsTodo ==
  ASSUME cmd.todo \subseteq Source, cmd.todo # {}
  PROVE  Current \in cmd.todo /\ Current \in Source
<1> DEFINE S == cmd.todo
           below == {0 .. i : i \in S}
<1>1. S \subseteq Nat
  BY ReportsAssumption DEF Source
<1>2. below # {} /\ below \subseteq FiniteSubsetsOf(Nat)
  <2>1. \A i \in S : 0 .. i \in SUBSET Nat /\ IsFiniteSet(0 .. i)
    BY <1>1, FS_Interval
  <2> QED
    BY <2>1 DEF FiniteSubsetsOf
<1> HIDE DEF below
<1>3. PICK least \in below : \A other \in below : <<other, least>> \notin StrictSubsetOrdering(Nat)
  BY <1>2, FS_StrictSubsetOrderingWellFounded, WFMin
<1> USE DEF below
<1>4. PICK i \in S : least = 0 .. i
  OBVIOUS
<1>5. ASSUME NEW j \in S PROVE i <= j
  <2>1. 0 .. j \in below /\ 0 .. j \in SUBSET Nat /\ least \in SUBSET Nat
    BY <1>1, <1>4
  <2>2. ~(0 .. j \subseteq 0 .. i /\ 0 .. j # 0 .. i)
    BY <1>3, <1>4, <2>1 DEF StrictSubsetOrdering
  <2> QED
    BY <1>1, <2>2
<1> QED
  BY <1>5 DEF Current

LEMMA CurrentKept ==
  ASSUME cmd'.todo = cmd.todo
  PROVE  Current' = Current
BY DEF Current

LEMMA WorldSteps ==
  ASSUME IsWorld, World
  PROVE  IsWorld' /\ Grows /\ cmd' = cmd
<1>0. /\ idx = [s \in Source |-> idx[s]] /\ \A s \in Source : Sound(idx[s])
      /\ live \in [Source -> Live] /\ master \in Master
      /\ world = [left |-> world.left, live |-> world.live, registry |-> world.registry]
      /\ world.live = [s \in Source |-> world.live[s]]
      /\ \A s \in Source : live[s] \in world.live[s]
      /\ master.status \in world.registry
  BY DEF IsWorld
<1>1. ASSUME NEW s \in Source, NEW l \in LiveStates, SourceChanges(s, l)
      PROVE  IsWorld' /\ Grows /\ cmd' = cmd
  <2>1. live' = [live EXCEPT ![s] = l] /\ idx' = idx /\ master' = master /\ cmd' = cmd
    BY <1>1 DEF SourceChanges
  <2>2. live' \in [Source -> Live]
    BY <1>0, <2>1, ReportsAssumption
  <2>3. world' = [left |-> "none", live |-> [t \in Source |-> world.live[t] \union {live'[t]}],
                  registry |-> world.registry \union {master.status}]
    BY <1>0, <1>1 DEF SourceChanges, Seen
  <2>4. IsWorld'
    BY <1>0, <2>1, <2>2, <2>3 DEF IsWorld, Sound
  <2>5. Grows
    BY <1>0, <2>1, <2>3 DEF Grows, Master
  <2> QED BY <2>1, <2>4, <2>5
<1>2. ASSUME NEW s \in Source, NEW x \in Indexes \union {idx[t] : t \in Source}, IndexChanges(s, x)
      PROVE  IsWorld' /\ Grows /\ cmd' = cmd
  <2>1. idx' = [idx EXCEPT ![s] = x] /\ live' = live /\ master' = master /\ cmd' = cmd
        /\ world' = [world EXCEPT !.left = "none"]
    BY <1>2 DEF IndexChanges
  <2>2. Sound(x)
    BY <1>0, ReportsAssumption DEF Sound
  <2>3. world' = [left |-> "none", live |-> world.live, registry |-> world.registry]
    BY <1>0, <2>1
  <2>4. IsWorld'
    BY <1>0, <2>1, <2>2, <2>3 DEF IsWorld, Sound
  <2>5. Grows
    BY <1>0, <2>1, <2>3 DEF Grows, Master
  <2> QED BY <2>1, <2>4, <2>5
<1>3. ASSUME MasterOpened
      PROVE  IsWorld' /\ Grows /\ cmd' = cmd
  <2>1. master' = [master EXCEPT !.sidecar = TRUE] /\ idx' = idx /\ live' = live /\ cmd' = cmd
        /\ world' = [left |-> "fold", live |-> world.live, registry |-> world.registry]
    BY <1>0, <1>3 DEF MasterOpened
  <2>2. master' \in Master /\ master'.status = master.status /\ master'.version = master.version
    BY <1>0, <2>1 DEF Master
  <2>3. IsWorld'
    BY <1>0, <2>1, <2>2 DEF IsWorld, Sound
  <2>4. Grows
    BY <1>0, <2>1, <2>2 DEF Grows, Master
  <2> QED BY <2>1, <2>3, <2>4
<1>4. ASSUME MasterClosed
      PROVE  IsWorld' /\ Grows /\ cmd' = cmd
  <2>1. master' = [master EXCEPT !.sidecar = FALSE] /\ idx' = idx /\ live' = live /\ cmd' = cmd
        /\ world' = [left |-> "none", live |-> world.live, registry |-> world.registry]
    BY <1>0, <1>4 DEF MasterClosed
  <2>2. master' \in Master /\ master'.status = master.status /\ master'.version = master.version
    BY <1>0, <2>1 DEF Master
  <2>3. IsWorld'
    BY <1>0, <2>1, <2>2 DEF IsWorld, Sound
  <2>4. Grows
    BY <1>0, <2>1, <2>2 DEF Grows, Master
  <2> QED BY <2>1, <2>3, <2>4
<1>5. ASSUME NEW new \in Statements, MasterFolded(new)
      PROVE  IsWorld' /\ Grows /\ cmd' = cmd
  <2>1. master' = [master EXCEPT !.status = new, !.version = @ + 1] /\ idx' = idx /\ live' = live /\ cmd' = cmd
    BY <1>5 DEF MasterFolded
  <2>2. new \in [Source -> STRING]
    BY ReportsAssumption DEF Statements
  <2>3. master' \in Master /\ master'.status = new /\ master'.version = master.version + 1
        /\ master.version \in Nat
    <3>1. master \in Master /\ master.version \in Nat \ {0}
      BY <1>0 DEF Master
    <3>2. master' = [kind |-> master.kind, links |-> master.links, sidecar |-> master.sidecar,
                     signed |-> master.signed, version |-> master.version + 1, status |-> new]
      BY <2>1, <3>1 DEF Master
    <3>3. master.version + 1 \in Nat \ {0}
      BY <3>1
    <3> QED BY <2>2, <3>1, <3>2, <3>3 DEF Master
  <2>4. world' = [left |-> "close", live |-> [t \in Source |-> world.live[t] \union {live[t]}],
                  registry |-> world.registry \union {new}]
    BY <1>0, <1>5, <2>3 DEF MasterFolded, Seen
  <2>5. IsWorld'
    BY <1>0, <2>1, <2>3, <2>4 DEF IsWorld, Sound
  <2>6. Grows
    BY <1>0, <2>3, <2>4 DEF Grows
  <2> QED BY <2>1, <2>5, <2>6
<1> QED
  BY <1>1, <1>2, <1>3, <1>4, <1>5 DEF World

LEMMA WorldStands ==
  ASSUME IsWorld, UNCHANGED World0
  PROVE  IsWorld' /\ Grows
<1>1. idx' = idx /\ live' = live /\ master' = master /\ world' = world
  BY DEF World0
<1>2. IsWorld'
  BY <1>1 DEF IsWorld, Sound
<1>3. Grows
  BY <1>1 DEF IsWorld, Grows, Master
<1> QED BY <1>2, <1>3

-----------------------------------------------------------------------------
(***************************************************************************)
(* Parts of the invariant that a step carries on.                          *)
(***************************************************************************)
Preparing == {"check", "list", "recheck", "given", "choose"}
Visiting == {"probe", "stat", "open", "map"}
Comparing == {"before", "after", "told"}

LEMMA LoadedKept ==
  ASSUME LoadedTrue, Grows,
         \A s \in Source : cmd'.loaded[s] # None =>
           cmd'.loaded[s] = cmd.loaded[s] /\ cmd'.seen[s] = cmd.seen[s] /\ cmd'.registry[s] = cmd.registry[s]
  PROVE  LoadedTrue'
<1> SUFFICES ASSUME NEW s \in Source, cmd'.loaded[s] # None
             PROVE  /\ Sound(cmd'.seen[s]) /\ KnownStatus(cmd'.registry[s])
                    /\ \E currency \in Currencies, shown \in BOOLEAN :
                         /\ Looked(world'.live[s], cmd'.seen[s], currency, shown)
                         /\ cmd'.loaded[s] = EvidenceRecord(cmd'.seen[s], cmd'.registry[s], currency, shown)
  BY DEF LoadedTrue, Sound
<1>1. cmd'.loaded[s] = cmd.loaded[s] /\ cmd'.seen[s] = cmd.seen[s] /\ cmd'.registry[s] = cmd.registry[s]
  OBVIOUS
<1>2. PICK currency \in Currencies, shown \in BOOLEAN :
        /\ Sound(cmd.seen[s]) /\ KnownStatus(cmd.registry[s])
        /\ Looked(world.live[s], cmd.seen[s], currency, shown)
        /\ cmd.loaded[s] = EvidenceRecord(cmd.seen[s], cmd.registry[s], currency, shown)
  BY <1>1 DEF LoadedTrue
<1>3. Looked(world'.live[s], cmd.seen[s], currency, shown)
  BY <1>2, LookedMore DEF Grows
<1> QED
  BY <1>1, <1>2, <1>3

LEMMA RegistryKept ==
  ASSUME IsWorld, RegistryRead, Grows, master' \in Master,
         cmd'.stamp = cmd.stamp, cmd'.registry = cmd.registry, cmd'.step \notin {"list", "recheck"},
         cmd'.step # "refused" => cmd.step \notin {"list", "recheck", "refused"}
  PROVE  RegistryRead'
<1>1. master.version \in Nat /\ master'.version \in Nat /\ cmd.stamp \in Nat
  BY DEF IsWorld, Master, RegistryRead
<1> QED
  BY <1>1 DEF RegistryRead, Grows

LEMMA EvidentKept ==
  ASSUME cmd'.loaded = cmd.loaded
  PROVE  Evident' = Evident
BY DEF Evident, Chosen

\* A step of the world alone.
LEMMA QuietStep ==
  ASSUME ReportsInv, IsWorld', Grows, cmd' = cmd
  PROVE  ReportsInv'
<1>1. IsCommand'
  BY DEF ReportsInv, IsCommand, Sound
<1>2. RegistryRead'
  <2>1. master.version \in Nat /\ master'.version \in Nat /\ cmd.stamp \in Nat /\ RegistryRead
    BY DEF ReportsInv, IsWorld, Master, RegistryRead
  <2> QED BY <2>1 DEF RegistryRead, Grows
<1>3. LoadedTrue'
  BY LoadedKept DEF ReportsInv
<1>4. Visit'
  <2> SUFFICES ASSUME cmd.step \in Visiting
               PROVE  Looked(world'.live[Current], cmd.seen[Current], cmd.currency, cmd.shown)
    BY CurrentKept DEF ReportsInv, Visit, Visiting, Sound
  <2>1. Current \in Source /\ Looked(world.live[Current], cmd.seen[Current], cmd.currency, cmd.shown)
    BY CurrentIsTodo DEF ReportsInv, Visit, Visiting, IsCommand
  <2> QED BY <2>1, LookedMore DEF Grows
<1>5. CoverageTold'
  BY EvidentKept DEF ReportsInv, CoverageTold
<1>6. DiffTold'
  BY DEF ReportsInv, DiffTold, Sound
<1> QED
  BY <1>1, <1>2, <1>3, <1>4, <1>5, <1>6 DEF ReportsInv

\* A step that prepares the command, or refuses it.
LEMMA OtherStep ==
  ASSUME ReportsInv, IsWorld', Grows, IsCommand', RegistryRead', LoadedTrue',
         cmd'.step \notin Visiting \union Comparing \union {"done"}
  PROVE  ReportsInv'
BY DEF ReportsInv, Visit, CoverageTold, DiffTold, Visiting, Comparing

LEMMA RefusedStep ==
  ASSUME ReportsInv, UNCHANGED World0, Refuses
  PROVE  ReportsInv'
<1>1. IsWorld' /\ Grows
  BY WorldStands DEF ReportsInv
<1>2. IsCommand /\ cmd' = [cmd EXCEPT !.step = "refused"]
  BY DEF Refuses, ReportsInv
<1>3. Only({"step"}) /\ cmd'.step = "refused" /\ cmd' = [f \in CmdFields |-> cmd'[f]]
  BY <1>2 DEF IsCommand, Only, CmdFields
<1>4. IsCommand'
  BY <1>2, <1>3 DEF IsCommand, Only, CmdFields, Steps, Sound
<1>5. RegistryRead'
  BY <1>1, <1>3, RegistryKept DEF ReportsInv, Only, CmdFields, IsWorld
<1>6. LoadedTrue'
  BY <1>1, <1>3, LoadedKept DEF ReportsInv, Only, CmdFields
<1> QED
  BY <1>1, <1>3, <1>4, <1>5, <1>6, OtherStep DEF Visiting, Comparing

-----------------------------------------------------------------------------
(***************************************************************************)
(* One lemma for each step of the command.                                 *)
(***************************************************************************)
LEMMA CheckMasterStep ==
  ASSUME ReportsInv, CheckMaster PROVE ReportsInv'
<1>1. CASE Refuses
  BY <1>1, RefusedStep DEF CheckMaster
<1>2. CASE cmd' = [cmd EXCEPT !.step = "list", !.stamp = master.version, !.next = 1]
  <2>1. IsWorld' /\ Grows /\ IsCommand
    BY WorldStands DEF ReportsInv, CheckMaster
  <2>2. /\ Only({"step", "stamp", "next"}) /\ cmd' = [f \in CmdFields |-> cmd'[f]]
        /\ cmd'.step = "list" /\ cmd'.stamp = master.version /\ cmd'.next = 1
    BY <2>1, <1>2 DEF IsCommand, Only, CmdFields
  <2>3. cmd.step = "check"
    BY DEF CheckMaster
  <2>4. IsCommand'
    BY <2>1, <2>2, <2>3 DEF IsCommand, Only, CmdFields, Steps, Sound
  <2>5. RegistryRead'
    <3>1. master' = master /\ master.version \in Nat \ {0}
      BY DEF CheckMaster, World0, ReportsInv, IsWorld, Master
    <3>2. \A s \in Source : ~(s < 1)
      BY ReportsAssumption DEF Source
    <3> QED BY <2>2, <3>1, <3>2 DEF RegistryRead
  <2>6. LoadedTrue'
    BY <2>1, <2>2, LoadedKept DEF ReportsInv, Only, CmdFields
  <2> QED BY <2>1, <2>2, <2>4, <2>5, <2>6, OtherStep DEF Visiting, Comparing
<1> QED
  BY <1>1, <1>2 DEF CheckMaster

LEMMA ListRowStep ==
  ASSUME ReportsInv, ListRow PROVE ReportsInv'
<1>1. IsWorld' /\ Grows /\ IsCommand /\ master' = master /\ master.version \in Nat
      /\ world' = world /\ NSources \in Nat /\ cmd.step = "list" /\ RegistryRead
  BY WorldStands, ReportsAssumption DEF ReportsInv, ListRow, World0, IsWorld, Master
<1>2. CASE cmd.next <= NSources
  <2>1. cmd' = [cmd EXCEPT !.registry[cmd.next] = master.status[cmd.next], !.next = @ + 1]
    BY <1>2 DEF ListRow
  <2>2. cmd.next \in Nat
    BY <1>1 DEF RegistryRead
  <2>3. /\ Only({"registry", "next"}) /\ cmd' = [f \in CmdFields |-> cmd'[f]]
        /\ cmd'.next = cmd.next + 1
        /\ cmd'.registry = [cmd.registry EXCEPT ![cmd.next] = master.status[cmd.next]]
    BY <1>1, <2>1 DEF IsCommand, Only, CmdFields
  <2>4. IsCommand'
    BY <1>1, <2>3 DEF IsCommand, Only, CmdFields, Steps, Sound
  <2>5. RegistryRead'
    <3>1. /\ cmd'.stamp = cmd.stamp /\ cmd'.step = "list"
      BY <1>1, <2>3 DEF Only, CmdFields
    <3>2. ASSUME cmd.stamp = master.version, NEW s \in Source, s < cmd.next + 1
          PROVE  cmd'.registry[s] = master.status[s]
      <4>1. s \in Nat /\ (s = cmd.next \/ s < cmd.next)
        BY <1>1, <2>2, <3>2 DEF Source
      <4>2. cmd.registry = [t \in Source |-> cmd.registry[t]]
        BY <1>1 DEF IsCommand
      <4>3. s < cmd.next => cmd.registry[s] = master.status[s]
        BY <1>1, <3>2 DEF RegistryRead
      <4> QED BY <2>3, <4>1, <4>2, <4>3
    <3>3. cmd.stamp # 0 /\ cmd.stamp \in Nat /\ cmd.stamp <= master.version
      BY <1>1 DEF RegistryRead
    <3> QED BY <1>1, <2>2, <2>3, <3>1, <3>2, <3>3 DEF RegistryRead
  <2>6. LoadedTrue'
    BY <1>1, <2>3, LoadedKept DEF ReportsInv, Only, CmdFields, IsCommand, Preparing
  <2>7. cmd'.step = "list"
    BY <1>1, <2>3 DEF Only, CmdFields
  <2> QED BY <1>1, <2>4, <2>5, <2>6, <2>7, OtherStep DEF Visiting, Comparing
<1>3. CASE ~(cmd.next <= NSources)
  <2>1. cmd' = [cmd EXCEPT !.step = "recheck"]
    BY <1>3 DEF ListRow, CmdGoes
  <2>2. Only({"step"}) /\ cmd' = [f \in CmdFields |-> cmd'[f]] /\ cmd'.step = "recheck"
    BY <1>1, <2>1 DEF IsCommand, Only, CmdFields
  <2>3. IsCommand'
    BY <1>1, <2>2 DEF IsCommand, Only, CmdFields, Steps, Sound
  <2>4. RegistryRead'
    BY <1>1, <1>3, <2>2 DEF RegistryRead, Only, CmdFields
  <2>5. LoadedTrue'
    BY <1>1, <2>2, LoadedKept DEF ReportsInv, Only, CmdFields
  <2> QED BY <1>1, <2>2, <2>3, <2>4, <2>5, OtherStep DEF Visiting, Comparing
<1> QED
  BY <1>2, <1>3

LEMMA RecheckStep ==
  ASSUME ReportsInv, Recheck PROVE ReportsInv'
<1>1. CASE Refuses
  BY <1>1, RefusedStep DEF Recheck
<1>2. CASE CmdGoes("choose") /\ Unchanged
  <2>1. IsWorld' /\ Grows /\ IsCommand /\ master' = master /\ world' = world /\ IsWorld
        /\ cmd.step = "recheck" /\ RegistryRead /\ NSources \in Nat
    BY WorldStands, ReportsAssumption DEF ReportsInv, Recheck, World0
  <2>2. Only({"step"}) /\ cmd' = [f \in CmdFields |-> cmd'[f]] /\ cmd'.step = "choose"
    BY <2>1, <1>2 DEF IsCommand, Only, CmdFields, CmdGoes
  <2>3. IsCommand'
    BY <2>1, <2>2 DEF IsCommand, Only, CmdFields, Steps, Sound
  <2>4. RegistryRead'
    <3>1. cmd.stamp = master.version /\ cmd.stamp # 0 /\ cmd.stamp \in Nat
          /\ cmd.next \in Nat /\ cmd.next > NSources
          /\ \A s \in Source : s < cmd.next => cmd.registry[s] = master.status[s]
      BY <2>1, <1>2 DEF RegistryRead, Unchanged
    <3>2. \A s \in Source : cmd.registry[s] = master.status[s]
      BY <2>1, <3>1 DEF Source
    <3>3. cmd.registry = [s \in Source |-> cmd.registry[s]] /\ master.status \in [Source -> STRING]
      BY <2>1 DEF IsCommand, IsWorld, Master
    <3>4. cmd.registry = master.status
      BY <3>2, <3>3
    <3>5. cmd.registry \in world.registry
      BY <3>4, <2>1 DEF IsWorld
    <3> QED BY <2>1, <2>2, <3>1, <3>5 DEF RegistryRead, Only, CmdFields
  <2>5. LoadedTrue'
    BY <2>1, <2>2, LoadedKept DEF ReportsInv, Only, CmdFields
  <2> QED BY <2>1, <2>2, <2>3, <2>4, <2>5, OtherStep DEF Visiting, Comparing
<1> QED
  BY <1>1, <1>2 DEF Recheck

LEMMA GivenStep ==
  ASSUME ReportsInv, Given PROVE ReportsInv'
<1>1. CASE Refuses
  BY <1>1, RefusedStep DEF Given
<1>2. CASE CmdGoes("choose")
  <2>1. IsWorld' /\ Grows /\ IsCommand /\ cmd.step = "given" /\ IsWorld
    BY WorldStands DEF ReportsInv, Given
  <2>2. Only({"step"}) /\ cmd' = [f \in CmdFields |-> cmd'[f]] /\ cmd'.step = "choose"
    BY <2>1, <1>2 DEF IsCommand, Only, CmdFields, CmdGoes
  <2>3. IsCommand'
    BY <2>1, <2>2 DEF IsCommand, Only, CmdFields, Steps, Sound
  <2>4. RegistryRead'
    BY <2>1, <2>2, RegistryKept DEF ReportsInv, Only, CmdFields, IsWorld
  <2>5. LoadedTrue'
    BY <2>1, <2>2, LoadedKept DEF ReportsInv, Only, CmdFields
  <2> QED BY <2>1, <2>2, <2>3, <2>4, <2>5, OtherStep DEF Visiting, Comparing
<1> QED
  BY <1>1, <1>2 DEF Given

LEMMA ChooseStep ==
  ASSUME ReportsInv, Choose PROVE ReportsInv'
<1> DEFINE chosen == IF cmd.archives = <<>> THEN Source ELSE Resolved(cmd.archives)
           guarded == [i \in DOMAIN cmd.protected |-> cmd.protected[i] \intersect chosen]
<1>1. CASE Refuses
  BY <1>1, RefusedStep DEF Choose
<1>2. CASE cmd' = [cmd EXCEPT !.step = "load", !.todo = chosen, !.guarded = Resolved(guarded)]
  <2>1. IsWorld' /\ Grows /\ IsCommand /\ cmd.step = "choose" /\ IsWorld
    BY WorldStands DEF ReportsInv, Choose
  <2>2. chosen \subseteq Source
    BY <2>1, ZenonT(40) DEF IsCommand, Resolved
  <2> HIDE DEF chosen, guarded
  <2>3. Only({"step", "todo", "guarded"}) /\ cmd' = [f \in CmdFields |-> cmd'[f]]
        /\ cmd'.step = "load" /\ cmd'.todo = chosen
    BY <2>1, <1>2 DEF IsCommand, Only, CmdFields
  <2>4. IsCommand'
    BY <2>1, <2>2, <2>3 DEF IsCommand, Only, CmdFields, Steps, Sound
  <2>5. RegistryRead'
    BY <2>1, <2>3, RegistryKept DEF ReportsInv, Only, CmdFields, IsWorld
  <2>6. LoadedTrue'
    BY <2>1, <2>3, LoadedKept DEF ReportsInv, Only, CmdFields
  <2> QED BY <2>1, <2>3, <2>4, <2>5, <2>6, OtherStep DEF Visiting, Comparing
<1> QED
  BY <1>1, <1>2 DEF Choose

LEMMA LoadSourceStep ==
  ASSUME ReportsInv, LoadSource PROVE ReportsInv'
<1> DEFINE s == Current
           one == Loaded(idx[s])
<1>1. CASE Refuses
  BY <1>1, RefusedStep DEF LoadSource
<1>2. CASE /\ KnownStatus(cmd.registry[s])
           /\ cmd' = [cmd EXCEPT !.seen[s] = idx[s], !.uuids = @ \union ({one.uuid} \ {None}),
                                 !.step = IF one.state = "Unavailable" THEN "map" ELSE "probe",
                                 !.currency = "NotChecked", !.shown = FALSE]
  <2>1. IsWorld' /\ Grows /\ IsCommand /\ cmd.step = "load" /\ IsWorld /\ cmd.todo # {}
    BY WorldStands DEF ReportsInv, LoadSource
  <2>2. s \in cmd.todo /\ s \in Source
    BY <2>1, CurrentIsTodo DEF IsCommand
  <2>3. /\ Only({"seen", "uuids", "step", "currency", "shown"}) /\ cmd' = [f \in CmdFields |-> cmd'[f]]
        /\ cmd'.step \in {"map", "probe"} /\ cmd'.currency = "NotChecked" /\ cmd'.shown = FALSE
        /\ cmd'.seen = [cmd.seen EXCEPT ![s] = idx[s]]
    <3> HIDE DEF s
    <3> QED BY <2>1, <1>2 DEF IsCommand, Only, CmdFields
  <2>4. Current' = s
    BY <2>3, CurrentKept DEF Only, CmdFields
  <2>5. Sound(idx[s])
    BY <2>1, <2>2 DEF IsWorld
  <2> HIDE DEF s
  <2>6. cmd.seen = [t \in Source |-> cmd.seen[t]]
    BY <2>1 DEF IsCommand
  <2>7. cmd'.seen[s] = idx[s] /\ \A t \in Source : t # s => cmd'.seen[t] = cmd.seen[t]
    BY <2>2, <2>3, <2>6
  <2>8. IsCommand'
    BY <2>1, <2>3, <2>5, <2>6, <2>7 DEF IsCommand, Only, CmdFields, Steps, Sound
  <2>9. RegistryRead'
    BY <2>1, <2>3, RegistryKept DEF ReportsInv, Only, CmdFields, IsWorld
  <2>10. LoadedTrue'
    <3>1. cmd.loaded[s] = None /\ cmd'.loaded = cmd.loaded /\ cmd'.registry = cmd.registry
      BY <2>1, <2>2, <2>3 DEF IsCommand, Only, CmdFields
    <3> QED BY <2>1, <2>7, <3>1, LoadedKept DEF ReportsInv
  <2>11. Visit'
    <3>1. cmd'.todo = cmd.todo /\ cmd'.registry = cmd.registry
      BY <2>3 DEF Only, CmdFields
    <3>2. Looked(world'.live[s], cmd'.seen[s], "NotChecked", FALSE)
      BY DEF Looked
    <3> QED BY <1>2, <2>1, <2>3, <2>4, <2>5, <2>7, <3>1, <3>2 DEF Visit, Currencies, Sound
  <2>12. CoverageTold' /\ DiffTold'
    BY <2>3 DEF CoverageTold, DiffTold
  <2> QED BY <2>1, <2>8, <2>9, <2>10, <2>11, <2>12 DEF ReportsInv
<1> QED
  BY <1>1, <1>2 DEF LoadSource

\* A step while a source is visited, of the currency and of whether it is shown.
LEMMA VisitStep ==
  ASSUME ReportsInv, UNCHANGED World0, cmd.step \in Visiting, cmd'.step \in Visiting,
         Only({"step", "currency", "shown"}), cmd' = [f \in CmdFields |-> cmd'[f]],
         cmd'.currency \in Currencies, cmd'.shown \in BOOLEAN,
         cmd'.step \in {"stat", "open"} => CanShowPresence(cmd'.currency),
         cmd'.step # "map" => ~cmd'.shown,
         Looked(world.live[Current], cmd.seen[Current], cmd'.currency, cmd'.shown)
  PROVE  ReportsInv'
<1>1. IsWorld' /\ Grows /\ IsWorld /\ IsCommand /\ Visit /\ world' = world
  BY WorldStands DEF ReportsInv, World0
<1>2. \A f \in CmdFields : f \notin {"step", "currency", "shown"} => cmd'[f] = cmd[f]
  BY DEF Only
<1>3. IsCommand'
  BY <1>1, <1>2 DEF IsCommand, CmdFields, Steps, Sound, Visiting
<1>4. RegistryRead'
  BY <1>1, <1>2, RegistryKept DEF ReportsInv, CmdFields, IsWorld, Visiting
<1>5. LoadedTrue'
  BY <1>1, <1>2, LoadedKept DEF ReportsInv, CmdFields
<1>6. Current' = Current
  BY <1>2, CurrentKept DEF CmdFields
<1>7. cmd'.todo = cmd.todo /\ cmd'.seen = cmd.seen /\ cmd'.registry = cmd.registry
  BY <1>2 DEF CmdFields
<1>8. cmd.todo # {} /\ Sound(cmd.seen[Current]) /\ KnownStatus(cmd.registry[Current])
  BY <1>1 DEF Visit, Visiting
<1>9. Visit'
  BY <1>1, <1>6, <1>7, <1>8 DEF Visit, Sound
<1>10. CoverageTold' /\ DiffTold'
  BY DEF CoverageTold, DiffTold, Visiting
<1> QED
  BY <1>1, <1>3, <1>4, <1>5, <1>9, <1>10 DEF ReportsInv

LEMMA ProbeStep ==
  ASSUME ReportsInv, Probe PROVE ReportsInv'
<1> DEFINE x == cmd.seen[Current]
           l == live[Current]
           currency == Currency(x, l)
<1>1. IsWorld /\ IsCommand /\ Visit /\ cmd.step = "probe" /\ ~cmd.shown /\ cmd.shown \in BOOLEAN
  BY DEF Probe, ReportsInv, Visit
<1>2. Current \in Source
  BY <1>1, CurrentIsTodo DEF IsCommand, Visit
<1>3. l \in world.live[Current]
  BY <1>1, <1>2 DEF IsWorld
<1>4. currency \in Currencies
  BY DEF Currency, Currencies
<1>5. /\ currency = "StatMatches" => l.stat = x.stat
      /\ currency = "DirectoryUnverified" => x.type = "dir"
  BY DEF Currency
<1>6. Looked(world.live[Current], x, currency, FALSE)
  BY <1>3, <1>5 DEF Looked
<1>7. cmd' = [cmd EXCEPT !.currency = currency, !.step = IF CanShowPresence(currency) THEN "stat" ELSE "map"]
  BY DEF Probe
<1> HIDE DEF currency
<1>8. /\ Only({"step", "currency", "shown"}) /\ cmd' = [f \in CmdFields |-> cmd'[f]]
      /\ cmd'.currency = currency /\ cmd'.shown = FALSE
      /\ cmd'.step = IF CanShowPresence(currency) THEN "stat" ELSE "map"
  BY <1>1, <1>7 DEF IsCommand, Only, CmdFields
<1>9. /\ cmd'.step \in Visiting /\ cmd.step \in Visiting
      /\ cmd'.step \in {"stat", "open"} => CanShowPresence(cmd'.currency)
      /\ Looked(world.live[Current], x, cmd'.currency, cmd'.shown)
  BY <1>1, <1>6, <1>8 DEF Visiting
<1> QED
  BY <1>4, <1>8, <1>9, VisitStep DEF Probe

LEMMA StatSourceStep ==
  ASSUME ReportsInv, StatSource PROVE ReportsInv'
<1>1. IsCommand /\ Visit /\ cmd.step = "stat"
  BY DEF StatSource, ReportsInv
<1>2. /\ cmd.currency \in Currencies /\ cmd.shown \in BOOLEAN /\ CanShowPresence(cmd.currency) /\ ~cmd.shown
      /\ Looked(world.live[Current], cmd.seen[Current], cmd.currency, cmd.shown)
  BY <1>1 DEF Visit
<1>3. PICK step \in {"open", "map"} : cmd' = [cmd EXCEPT !.step = step]
  BY DEF StatSource, CmdGoes
<1>4. /\ Only({"step", "currency", "shown"}) /\ cmd' = [f \in CmdFields |-> cmd'[f]]
      /\ cmd'.currency = cmd.currency /\ cmd'.shown = cmd.shown /\ cmd'.step = step
  BY <1>1, <1>3 DEF IsCommand, Only, CmdFields
<1> QED
  BY <1>1, <1>2, <1>4, VisitStep DEF StatSource, Visiting

LEMMA OpenSourceStep ==
  ASSUME ReportsInv, OpenSource PROVE ReportsInv'
<1> DEFINE x == cmd.seen[Current]
           l == live[Current]
           shown == l.opens /\ RightKind(x, l)
<1>1. IsWorld /\ IsCommand /\ Visit /\ cmd.step = "open"
  BY DEF OpenSource, ReportsInv
<1>2. /\ cmd.currency \in Currencies /\ CanShowPresence(cmd.currency) /\ ~cmd.shown
      /\ Looked(world.live[Current], x, cmd.currency, cmd.shown)
  BY <1>1 DEF Visit
<1>3. Current \in Source
  BY <1>1, CurrentIsTodo DEF IsCommand, Visit
<1>4. l \in world.live[Current] /\ shown \in BOOLEAN
  BY <1>1, <1>3 DEF IsWorld, Live, RightKind
<1>5. Looked(world.live[Current], x, cmd.currency, shown)
  BY <1>2, <1>4 DEF Looked
<1>6. cmd' = [cmd EXCEPT !.shown = shown, !.step = "map"]
  BY DEF OpenSource
<1> HIDE DEF shown
<1>7. /\ Only({"step", "currency", "shown"}) /\ cmd' = [f \in CmdFields |-> cmd'[f]]
      /\ cmd'.currency = cmd.currency /\ cmd'.shown = shown /\ cmd'.step = "map"
  BY <1>1, <1>6 DEF IsCommand, Only, CmdFields
<1> QED
  BY <1>1, <1>2, <1>4, <1>5, <1>7, VisitStep DEF OpenSource, Visiting

LEMMA MapSourceStep ==
  ASSUME ReportsInv, MapSource PROVE ReportsInv'
<1> DEFINE s == Current
           record == EvidenceRecord(cmd.seen[s], cmd.registry[s], cmd.currency, cmd.shown)
<1>1. IsWorld' /\ Grows /\ IsWorld /\ IsCommand /\ Visit /\ LoadedTrue /\ cmd.step = "map" /\ world' = world
  BY WorldStands DEF MapSource, ReportsInv, World0
<1>2. /\ cmd.currency \in Currencies /\ cmd.shown \in BOOLEAN /\ cmd.todo # {}
      /\ Sound(cmd.seen[s]) /\ KnownStatus(cmd.registry[s])
      /\ Looked(world.live[s], cmd.seen[s], cmd.currency, cmd.shown)
  BY <1>1 DEF Visit
<1>3. s \in Source /\ s \in cmd.todo
  BY <1>1, <1>2, CurrentIsTodo DEF IsCommand
<1>4. cmd' = [cmd EXCEPT !.loaded[s] = record, !.todo = @ \ {s}, !.step = "load"]
  BY DEF MapSource, EvidenceRecord
<1> HIDE DEF s, record
<1>5. /\ Only({"loaded", "todo", "step"}) /\ cmd' = [f \in CmdFields |-> cmd'[f]]
      /\ cmd'.loaded = [cmd.loaded EXCEPT ![s] = record]
      /\ cmd'.todo = cmd.todo \ {s} /\ cmd'.step = "load"
  BY <1>1, <1>4 DEF IsCommand, Only, CmdFields
<1>6. cmd.loaded = [t \in Source |-> cmd.loaded[t]]
  BY <1>1 DEF IsCommand
<1>7. cmd'.loaded[s] = record /\ \A t \in Source : t # s => cmd'.loaded[t] = cmd.loaded[t]
  BY <1>3, <1>5, <1>6
<1>8. \A t \in cmd'.todo : t \in cmd.todo /\ cmd'.loaded[t] = None
  BY <1>1, <1>5, <1>7 DEF IsCommand
<1>9. IsCommand'
  BY <1>1, <1>5, <1>6, <1>8 DEF IsCommand, Only, CmdFields, Steps, Sound
<1>10. RegistryRead'
  BY <1>1, <1>5, RegistryKept DEF ReportsInv, Only, CmdFields, IsWorld
<1>11. cmd'.seen = cmd.seen /\ cmd'.registry = cmd.registry
  BY <1>5 DEF Only, CmdFields
<1>12. LoadedTrue'
  <2> SUFFICES ASSUME NEW t \in Source, cmd'.loaded[t] # None
               PROVE  /\ Sound(cmd.seen[t]) /\ KnownStatus(cmd.registry[t])
                      /\ \E currency \in Currencies, shown \in BOOLEAN :
                           /\ Looked(world.live[t], cmd.seen[t], currency, shown)
                           /\ cmd'.loaded[t] = EvidenceRecord(cmd.seen[t], cmd.registry[t], currency, shown)
    BY <1>1, <1>11 DEF LoadedTrue, Sound
  <2>1. CASE t = s
    BY <1>2, <1>7, <2>1 DEF record
  <2>2. CASE t # s
    BY <1>1, <1>7, <2>2 DEF LoadedTrue
  <2> QED BY <2>1, <2>2
<1> QED
  BY <1>1, <1>5, <1>9, <1>10, <1>12, OtherStep DEF Visiting, Comparing

LEMMA ReportStep ==
  ASSUME ReportsInv, NEW p \in Params, Report(p) PROVE ReportsInv'
<1> DEFINE params == [p EXCEPT !.protected = cmd.guarded]
           report == CoverageReport(Evident, params)
<1>1. CASE Refuses
  BY <1>1, RefusedStep DEF Report
<1>2. CASE cmd' = [cmd EXCEPT !.step = "done", !.params = params, !.report = report]
  <2>1. IsWorld' /\ Grows /\ IsWorld /\ IsCommand /\ cmd.step = "load"
    BY WorldStands DEF Report, ReportsInv
  <2>2. params.minCopies \in Nat
    BY ReportsAssumption DEF Param
  <2> HIDE DEF params, report
  <2>3. /\ Only({"step", "params", "report"}) /\ cmd' = [f \in CmdFields |-> cmd'[f]]
        /\ cmd'.step = "done" /\ cmd'.params = params /\ cmd'.report = report
    BY <2>1, <1>2 DEF IsCommand, Only, CmdFields
  <2>4. IsCommand'
    BY <2>1, <2>3 DEF IsCommand, Only, CmdFields, Steps, Sound
  <2>5. RegistryRead'
    BY <2>1, <2>3, RegistryKept DEF ReportsInv, Only, CmdFields, IsWorld
  <2>6. LoadedTrue'
    BY <2>1, <2>3, LoadedKept DEF ReportsInv, Only, CmdFields
  <2>7. Visit' /\ DiffTold'
    BY <2>3 DEF Visit, DiffTold
  <2>8. Evident' = Evident
    BY <2>3, EvidentKept DEF Only, CmdFields
  <2>9. CoverageTold'
    BY <2>2, <2>3, <2>8 DEF CoverageTold, report
  <2> QED BY <2>1, <2>4, <2>5, <2>6, <2>7, <2>9 DEF ReportsInv
<1> QED
  BY <1>1, <1>2 DEF Report

LEMMA LoadBeforeStep ==
  ASSUME ReportsInv, LoadBefore PROVE ReportsInv'
<1>1. IsWorld' /\ Grows /\ IsWorld /\ IsCommand /\ DiffTold /\ cmd.step = "before"
      /\ cmd' = [cmd EXCEPT !.step = "after", !.seen[1] = idx[1]]
  BY WorldStands DEF LoadBefore, ReportsInv
<1>2. 1 \in Source /\ NSources >= 2 /\ \A s \in Source : cmd.loaded[s] = None
  BY <1>1, ReportsAssumption DEF DiffTold, Source
<1>3. /\ Only({"step", "seen"}) /\ cmd' = [f \in CmdFields |-> cmd'[f]]
      /\ cmd'.step = "after" /\ cmd'.seen = [cmd.seen EXCEPT ![1] = idx[1]]
  BY <1>1 DEF IsCommand, Only, CmdFields
<1>4. cmd'.loaded = cmd.loaded /\ Sound(idx[1]) /\ cmd.seen = [s \in Source |-> cmd.seen[s]]
  BY <1>1, <1>2, <1>3 DEF Only, CmdFields, IsWorld, IsCommand
<1>5. cmd'.seen[1] = idx[1] /\ \A s \in Source : s # 1 => cmd'.seen[s] = cmd.seen[s]
  BY <1>2, <1>3, <1>4
<1>6. IsCommand'
  <2>1. /\ cmd'.todo = cmd.todo /\ cmd'.registry = cmd.registry /\ cmd'.archives = cmd.archives
    BY <1>3 DEF Only, CmdFields
  <2>2. cmd'.seen = [s \in Source |-> cmd'.seen[s]]
    BY <1>2, <1>3, <1>4
  <2>3. \A s \in Source : cmd'.seen[s] # None => Sound(cmd'.seen[s])
    BY <1>1, <1>4, <1>5 DEF IsCommand
  <2>4. cmd'.step \in Steps
    BY <1>3 DEF Steps
  <2>5. /\ cmd'.todo \subseteq Source /\ cmd'.loaded = [s \in Source |-> cmd'.loaded[s]]
        /\ cmd'.registry = [s \in Source |-> cmd'.registry[s]]
        /\ \A i \in DOMAIN cmd'.archives : cmd'.archives[i] \subseteq Source
        /\ \A s \in cmd'.todo : cmd'.loaded[s] = None
    BY <1>1, <1>4, <2>1 DEF IsCommand
  <2> QED
    BY <1>3, <2>2, <2>3, <2>4, <2>5 DEF IsCommand
<1>7. RegistryRead'
  BY <1>1, <1>3, RegistryKept DEF ReportsInv, Only, CmdFields, IsWorld
<1>8. LoadedTrue'
  BY <1>2, <1>4 DEF LoadedTrue
<1>9. Visit' /\ CoverageTold'
  BY <1>3 DEF Visit, CoverageTold
<1>10. DiffTold'
  BY <1>2, <1>3, <1>4, <1>5 DEF DiffTold, Sound
<1> QED
  BY <1>1, <1>6, <1>7, <1>8, <1>9, <1>10 DEF ReportsInv

LEMMA LoadAfterStep ==
  ASSUME ReportsInv, LoadAfter PROVE ReportsInv'
<1> DEFINE report == DiffReport(Loaded(cmd.seen[1]), Loaded(idx[2]))
<1>1. IsWorld' /\ Grows /\ IsWorld /\ IsCommand /\ DiffTold /\ cmd.step = "after"
      /\ cmd' = [cmd EXCEPT !.step = "told", !.seen[2] = idx[2], !.report = report]
  BY WorldStands DEF LoadAfter, ReportsInv
<1> HIDE DEF report
<1>2. /\ 1 \in Source /\ 2 \in Source /\ NSources >= 2 /\ \A s \in Source : cmd.loaded[s] = None
      /\ Sound(cmd.seen[1])
  BY <1>1, ReportsAssumption DEF DiffTold, Source
<1>3. /\ Only({"step", "seen", "report"}) /\ cmd' = [f \in CmdFields |-> cmd'[f]]
      /\ cmd'.step = "told" /\ cmd'.seen = [cmd.seen EXCEPT ![2] = idx[2]] /\ cmd'.report = report
  BY <1>1 DEF IsCommand, Only, CmdFields
<1>4. cmd'.loaded = cmd.loaded /\ Sound(idx[2]) /\ cmd.seen = [s \in Source |-> cmd.seen[s]]
  BY <1>1, <1>2, <1>3 DEF Only, CmdFields, IsWorld, IsCommand
<1>5. cmd'.seen[2] = idx[2] /\ \A s \in Source : s # 2 => cmd'.seen[s] = cmd.seen[s]
  BY <1>2, <1>3, <1>4
<1>6. IsCommand'
  <2>1. /\ cmd'.todo = cmd.todo /\ cmd'.registry = cmd.registry /\ cmd'.archives = cmd.archives
    BY <1>3 DEF Only, CmdFields
  <2>2. cmd'.seen = [s \in Source |-> cmd'.seen[s]]
    BY <1>2, <1>3, <1>4
  <2>3. \A s \in Source : cmd'.seen[s] # None => Sound(cmd'.seen[s])
    BY <1>1, <1>4, <1>5 DEF IsCommand
  <2>4. cmd'.step \in Steps
    BY <1>3 DEF Steps
  <2>5. /\ cmd'.todo \subseteq Source /\ cmd'.loaded = [s \in Source |-> cmd'.loaded[s]]
        /\ cmd'.registry = [s \in Source |-> cmd'.registry[s]]
        /\ \A i \in DOMAIN cmd'.archives : cmd'.archives[i] \subseteq Source
        /\ \A s \in cmd'.todo : cmd'.loaded[s] = None
    BY <1>1, <1>4, <2>1 DEF IsCommand
  <2> QED
    BY <1>3, <2>2, <2>3, <2>4, <2>5 DEF IsCommand
<1>7. RegistryRead'
  BY <1>1, <1>3, RegistryKept DEF ReportsInv, Only, CmdFields, IsWorld
<1>8. LoadedTrue'
  BY <1>2, <1>4 DEF LoadedTrue
<1>9. Visit' /\ CoverageTold'
  BY <1>3 DEF Visit, CoverageTold
<1>10. cmd'.seen[1] = cmd.seen[1]
  BY <1>2, <1>5
<1>11. DiffTold'
  BY <1>2, <1>3, <1>4, <1>5, <1>10 DEF DiffTold, Sound, report
<1> QED
  BY <1>1, <1>6, <1>7, <1>8, <1>9, <1>11 DEF ReportsInv

LEMMA ReportsStart == Init => ReportsInv
<1> SUFFICES ASSUME Init PROVE ReportsInv
  OBVIOUS
<1>1. PICK i \in DOMAIN Jobs :
        /\ idx \in Jobs[i].idx /\ live \in Jobs[i].live /\ master \in Jobs[i].master
        /\ \E event \in Jobs[i].events :
             world = [left |-> event, live |-> [s \in Source |-> {live[s]}], registry |-> {master.status}]
        /\ \E archives \in Jobs[i].archives, protected \in Jobs[i].protected, paths \in Jobs[i].paths :
           cmd = [step |-> Jobs[i].first, archives |-> archives, protected |-> protected,
              paths |-> paths, guarded |-> {}, stamp |-> 0, next |-> 1,
              registry |-> [s \in Source |-> None], todo |-> {}, uuids |-> {},
              seen |-> [s \in Source |-> None], currency |-> "NotChecked", shown |-> FALSE,
              loaded |-> [s \in Source |-> None], params |-> None, report |-> None]
  BY DEF Init
<1>2. /\ idx \in [Source -> Index] /\ \A s \in Source : WellFormed(idx[s])
      /\ live \in [Source -> Live] /\ master \in Master
      /\ Jobs[i].first \in {"check", "given", "before"}
      /\ Jobs[i].first = "before" => NSources >= 2
      /\ \A archives \in Jobs[i].archives : \A k \in DOMAIN archives : archives[k] \subseteq Source
  BY <1>1, ReportsAssumption
<1>3. PICK archives \in Jobs[i].archives, protected \in Jobs[i].protected, paths \in Jobs[i].paths :
        cmd = [step |-> Jobs[i].first, archives |-> archives, protected |-> protected,
              paths |-> paths, guarded |-> {}, stamp |-> 0, next |-> 1,
              registry |-> [s \in Source |-> None], todo |-> {}, uuids |-> {},
              seen |-> [s \in Source |-> None], currency |-> "NotChecked", shown |-> FALSE,
              loaded |-> [s \in Source |-> None], params |-> None, report |-> None]
  BY <1>1
<1>4. IsWorld
  <2>1. idx = [s \in Source |-> idx[s]] /\ \A s \in Source : Sound(idx[s])
    BY <1>2 DEF Sound
  <2>2. world.live = [s \in Source |-> {live[s]}] /\ world.registry = {master.status}
        /\ world = [left |-> world.left, live |-> world.live, registry |-> world.registry]
    BY <1>1
  <2> QED BY <1>2, <2>1, <2>2 DEF IsWorld
<1>5. /\ cmd.step = Jobs[i].first /\ cmd.archives = archives /\ cmd.stamp = 0 /\ cmd.todo = {}
      /\ cmd.registry = [s \in Source |-> None] /\ cmd.seen = [s \in Source |-> None]
      /\ cmd.loaded = [s \in Source |-> None]
  BY <1>3
<1>6. cmd = [f \in CmdFields |-> cmd[f]]
  BY <1>3 DEF CmdFields
<1>7. IsCommand
  BY <1>2, <1>5, <1>6 DEF IsCommand, Steps
<1>8. RegistryRead
  BY <1>2, <1>4, <1>5 DEF RegistryRead, IsWorld, Master
<1>9. Visit /\ LoadedTrue /\ CoverageTold /\ DiffTold
  BY <1>2, <1>5 DEF Visit, LoadedTrue, CoverageTold, DiffTold
<1> QED
  BY <1>4, <1>7, <1>8, <1>9 DEF ReportsInv

LEMMA ReportsStep ==
  ASSUME ReportsInv, [Next]_vars
  PROVE  ReportsInv'
<1>1. CASE World
  BY <1>1, WorldSteps, QuietStep DEF ReportsInv
<1>2. CASE CheckMaster \/ ListRow \/ Recheck \/ Given \/ Choose
  BY <1>2, CheckMasterStep, ListRowStep, RecheckStep, GivenStep, ChooseStep
<1>3. CASE LoadSource \/ Probe \/ StatSource \/ OpenSource \/ MapSource
  BY <1>3, LoadSourceStep, ProbeStep, StatSourceStep, OpenSourceStep, MapSourceStep
<1>4. CASE \E params \in Params : Report(params)
  BY <1>4, ReportStep
<1>5. CASE LoadBefore \/ LoadAfter
  BY <1>5, LoadBeforeStep, LoadAfterStep
<1>6. CASE UNCHANGED vars
  <2>1. IsWorld' /\ Grows
    BY <1>6, WorldStands DEF vars, World0, ReportsInv
  <2> QED BY <1>6, <2>1, QuietStep DEF vars
<1> QED
  BY <1>1, <1>2, <1>3, <1>4, <1>5, <1>6 DEF Next, Command

-----------------------------------------------------------------------------
(***************************************************************************)
(* What the runs check, for every number of sources and all that their     *)
(* indexes may hold.                                                       *)
(***************************************************************************)
\* The inductive invariant of the report commands: each source's evidence is
\* what its index as read, and the source and registry as seen while the
\* command ran, make of it.
THEOREM ReportsInvariant == Spec => []ReportsInv
<1>1. Init => ReportsInv
  BY ReportsStart
<1>2. ReportsInv /\ [Next]_vars => ReportsInv'
  BY ReportsStep
<1> QED
  BY <1>1, <1>2, PTL DEF Spec

LEMMA LowerIs ==
  ASSUME NEW recorded \in Statuses, NEW found \in Statuses
  PROVE  /\ Lower(recorded, found) \in {recorded, found}
         /\ Counts(Lower(recorded, found)) => Counts(recorded) /\ Counts(found)
<1>1. /\ Distrust["ok"] = 0 /\ Distrust["incomplete"] = 1 /\ Distrust["stale_index"] = 2
      /\ Distrust["db_missing"] = 3 /\ Distrust["archive_missing"] = 4
  BY DEF Distrust
<1>2. Lower(recorded, found) = IF Distrust[recorded] > Distrust[found] THEN recorded ELSE found
  BY DEF Lower
<1>3. Lower(recorded, found) \in {recorded, found}
  BY <1>2
<1>4. \A status \in Statuses : Distrust[status] \in 0 .. 4 /\ (Counts(status) <=> Distrust[status] <= 1)
  BY <1>1 DEF Statuses, Counts
<1>5. Distrust[recorded] \in Int /\ Distrust[found] \in Int
  BY <1>4
<1>6. Counts(Lower(recorded, found)) => Distrust[recorded] <= 1 /\ Distrust[found] <= 1
  BY <1>2, <1>4, <1>5
<1> QED
  BY <1>3, <1>4, <1>6

LEMMA TrustIs ==
  ASSUME NEW recorded, KnownStatus(recorded), NEW evidence, NEW currency
  PROVE  /\ RegistryTrust(recorded) \in Statuses /\ LiveTrust(evidence, currency) \in Statuses
         /\ Counts(RegistryTrust(recorded)) /\ recorded # None => recorded \in ReplicaOnly \union {"ok", "incomplete"}
         /\ Counts(LiveTrust(evidence, currency)) => evidence \notin {"Unavailable", "Unreachable"} /\ currency # "Stale"
<1>1. RegistryTrust(recorded) \in Statuses
  BY DEF RegistryTrust, KnownStatus, Statuses
<1>2. LiveTrust(evidence, currency) \in Statuses
  BY DEF LiveTrust, Statuses
<1>3. Counts(RegistryTrust(recorded)) /\ recorded # None => recorded \in ReplicaOnly \union {"ok", "incomplete"}
  BY DEF RegistryTrust, Counts
<1>4. Counts(LiveTrust(evidence, currency)) => evidence \notin {"Unavailable", "Unreachable"} /\ currency # "Stale"
  BY DEF LiveTrust, Counts
<1> QED
  BY <1>1, <1>2, <1>3, <1>4

LEMMA EvidenceIs ==
  ASSUME NEW x, NEW shown
  PROVE  LET evidence == EvidenceOf(Loaded(x), shown) IN
         /\ evidence \in EvidenceKinds
         /\ evidence = "Complete" => State(x) = "Complete"
         /\ evidence # "Unavailable" => \A r \in Loaded(x).rows : r.entry # "unsupported"
         /\ evidence \notin {"Unavailable", "Unreachable"} => shown
<1>1. Loaded(x).state = State(x) /\ State(x) \in {"Unavailable", "Incompatible", "Incomplete", "Complete"}
  BY LoadedIs
<1> DEFINE e == IndexEvidence(Loaded(x))
<1>2. /\ e \in {"Unavailable", "NoContentHashes", "Incomplete", "Complete"}
      /\ e = "Complete" => State(x) = "Complete"
      /\ e # "Unavailable" => \A r \in Loaded(x).rows : r.entry # "unsupported"
  BY <1>1 DEF IndexEvidence
<1>3. EvidenceOf(Loaded(x), shown) = IF e # "Unavailable" /\ ~shown THEN "Unreachable" ELSE e
  BY DEF EvidenceOf
<1> HIDE DEF e
<1> QED
  BY <1>2, <1>3 DEF EvidenceKinds

LEMMA EvidenceFaithful ==
  ASSUME NEW x, Sound(x), NEW recorded, NEW currency, NEW shown
  PROVE  Faithful(EvidenceRecord(x, recorded, currency, shown), x)
<1> DEFINE e == EvidenceRecord(x, recorded, currency, shown)
<1>1. e.evidence = EvidenceOf(Loaded(x), shown)
      /\ e.rows = IF e.evidence = "Unavailable" THEN {} ELSE Loaded(x).rows
  BY DEF EvidenceRecord
<1> HIDE DEF e
<1>2. Faithful(e, x)
  BY <1>1, EvidenceIs DEF Faithful
<1> QED
  BY <1>2 DEF e

\* What is known of a source whose evidence is in the report.
LEMMA ChosenTells ==
  ASSUME ReportsInv, NEW s \in Chosen
  PROVE  LET e == cmd.loaded[s] IN
         /\ s \in Source /\ Sound(cmd.seen[s]) /\ Faithful(e, cmd.seen[s])
         /\ e.evidence \in EvidenceKinds /\ e.status \in Statuses
         /\ cmd.step = "done" /\ Counts(e.status) => Vouched(s)
<1>1. s \in Source /\ cmd.loaded[s] # None
  BY DEF Chosen
<1> DEFINE x == cmd.seen[s]
           e == cmd.loaded[s]
           recorded == cmd.registry[s]
<1>2. PICK currency \in Currencies, shown \in BOOLEAN :
        /\ Sound(x) /\ KnownStatus(recorded)
        /\ Looked(world.live[s], x, currency, shown)
        /\ e = EvidenceRecord(x, recorded, currency, shown)
  BY <1>1 DEF ReportsInv, LoadedTrue
<1>3. Faithful(e, x)
  BY <1>2, EvidenceFaithful
<1>4. e.evidence = EvidenceOf(Loaded(x), shown)
      /\ e.status = Lower(RegistryTrust(recorded), LiveTrust(e.evidence, currency))
  BY <1>2 DEF EvidenceRecord
<1>5. RegistryTrust(recorded) \in Statuses /\ LiveTrust(e.evidence, currency) \in Statuses
  BY <1>2, TrustIs
<1>6. e.evidence \in EvidenceKinds /\ e.status \in Statuses
  BY <1>4, <1>5, EvidenceIs, LowerIs
<1>7. ASSUME Counts(e.status), cmd.step = "done" PROVE Vouched(s)
  <2>1. Counts(RegistryTrust(recorded)) /\ Counts(LiveTrust(e.evidence, currency))
    BY <1>4, <1>5, <1>7, LowerIs
  <2>2. e.evidence \notin {"Unavailable", "Unreachable"} /\ currency # "Stale"
        /\ (recorded # None => recorded \in ReplicaOnly \union {"ok", "incomplete"})
    BY <1>2, <2>1, TrustIs
  <2>3. shown
    BY <1>4, <2>2, EvidenceIs
  <2>4. CanShowPresence(currency) /\ \E l \in world.live[s] : l.opens /\ RightKind(x, l)
    BY <1>2, <2>3 DEF Looked
  <2>5. x.type = "archive" => \E l \in world.live[s] : l.stat = x.stat
    BY <1>2, <2>2, <2>4 DEF Looked, CanShowPresence
  <2>6. recorded # None => \E status \in world.registry : status[s] \in ReplicaOnly \union {"ok", "incomplete"}
    <3> SUFFICES ASSUME recorded # None PROVE cmd.registry \in world.registry
      BY <2>2
    <3>1. cmd.stamp # 0
      BY <1>1 DEF ReportsInv, RegistryRead
    <3> QED BY <3>1, <1>7 DEF ReportsInv, RegistryRead
  <2> QED BY <2>4, <2>5, <2>6 DEF Vouched
<1> QED
  BY <1>1, <1>2, <1>3, <1>6, <1>7

LEMMA EvidentTells ==
  ASSUME ReportsInv
  PROVE  /\ DOMAIN Evident = Chosen /\ IsFiniteSet(Chosen)
         /\ \A s \in Chosen : Faithful(Evident[s], cmd.seen[s]) /\ Evident[s] = cmd.loaded[s]
<1>1. DOMAIN Evident = Chosen /\ \A s \in Chosen : Evident[s] = cmd.loaded[s]
  BY DEF Evident
<1>2. IsFiniteSet(Chosen)
  <2>1. IsFiniteSet(1 .. NSources)
    BY ReportsAssumption, FS_Interval
  <2>2. Chosen \subseteq 1 .. NSources
    BY DEF Chosen, Source
  <2> HIDE DEF Chosen
  <2> QED BY <2>1, <2>2, FS_Subset
<1>3. \A s \in Chosen : Faithful(cmd.loaded[s], cmd.seen[s])
  BY ChosenTells
<1> QED
  BY <1>1, <1>2, <1>3

LEMMA HoldersAre ==
  ASSUME NEW c
  PROVE  Holders(c) = HoldersIn(Chosen, cmd.seen, c)
BY DEF Holders, HoldersIn

LEMMA TypesHold == ReportsInv => TypeOK
<1> SUFFICES ASSUME ReportsInv PROVE TypeOK
  OBVIOUS
<1>1. \A s \in Source : idx[s] \in Index /\ WellFormed(idx[s]) /\ live[s] \in Live
  BY DEF ReportsInv, IsWorld, Sound
<1>2. /\ cmd.step \in Steps /\ cmd.todo \subseteq Source
      /\ \A s \in Source : cmd.seen[s] # None => cmd.seen[s] \in Index /\ WellFormed(cmd.seen[s])
  BY DEF ReportsInv, IsCommand, Sound
<1>3. \A s \in Source : cmd.loaded[s] # None =>
        cmd.loaded[s].evidence \in EvidenceKinds /\ cmd.loaded[s].status \in Statuses
  BY ChosenTells DEF Chosen
<1> QED
  BY <1>1, <1>2, <1>3 DEF TypeOK

LEMMA DiffsHold == ReportsInv => DiffAbsence /\ DiffContent /\ DiffComplete /\ DiffRows
<1> SUFFICES ASSUME ReportsInv, cmd.step = "told"
             PROVE  /\ AbsenceTrue(cmd.report, cmd.seen[1], cmd.seen[2])
                    /\ ContentTrue(cmd.report, cmd.seen[1], cmd.seen[2])
                    /\ CompleteTells(cmd.report, cmd.seen[1], cmd.seen[2])
                    /\ RowsTold(cmd.report, Loaded(cmd.seen[1]), Loaded(cmd.seen[2]))
  BY DEF DiffAbsence, DiffContent, DiffComplete, DiffRows, Told2
<1>1. /\ Sound(cmd.seen[1]) /\ Sound(cmd.seen[2])
      /\ cmd.report = DiffReport(Loaded(cmd.seen[1]), Loaded(cmd.seen[2]))
  BY DEF ReportsInv, DiffTold
<1> QED
  BY <1>1, AbsenceIsTrue, ContentIsTrue, CompleteIsTold, RowsAreTold

LEMMA FloorHolds == ReportsInv => FloorTrue
<1> SUFFICES ASSUME ReportsInv, cmd.step = "done", NEW g \in cmd.report.groups
             PROVE  LET counted == {s \in Holders(g.content) : Counts(cmd.loaded[s].status)} IN
               /\ g.verdict = "meets_floor" =>
                    Cardinality({s \in counted : Vouched(s)}) >= cmd.params.minCopies
               /\ g.verdict = "below_floor" => Cardinality(counted) < cmd.params.minCopies
               /\ g.onlyCopy => Cardinality(counted) = 1
               /\ g.replicas.observed <= Cardinality(Holders(g.content))
               /\ g.replicas.exact => g.replicas.observed = Cardinality(Holders(g.content))
  BY DEF FloorTrue
<1> DEFINE counted == {s \in Holders(g.content) : Counts(cmd.loaded[s].status)}
           vouched == {s \in counted : Vouched(s)}
           T == TrustedIn(Evident, g.content)
<1>1. cmd.params.minCopies \in Nat /\ cmd.report = CoverageReport(Evident, cmd.params)
  BY DEF ReportsInv, CoverageTold
<1>2. PICK c \in Grouped(Evident) : g = GroupReport(Evident, c, cmd.params)
  BY <1>1 DEF CoverageReport
<1>3. c \in Content /\ g.content = c
  BY <1>2 DEF Grouped, GroupReport
<1>4. /\ DOMAIN Evident = Chosen /\ IsFiniteSet(Chosen)
      /\ \A s \in Chosen : Faithful(Evident[s], cmd.seen[s]) /\ Evident[s] = cmd.loaded[s]
  BY EvidentTells
<1>5. counted = CountedIn(Chosen, Evident, cmd.seen, c)
  BY <1>3, <1>4, HoldersAre DEF CountedIn, HoldersIn
<1>6. /\ TrustedIn(Evident, c) \subseteq counted
      /\ IsFiniteSet(counted)
      /\ g.verdict = "meets_floor" => Cardinality(TrustedIn(Evident, c)) >= cmd.params.minCopies
      /\ g.verdict = "below_floor" => Cardinality(counted) < cmd.params.minCopies
      /\ g.onlyCopy => Cardinality(counted) = 1
      /\ g.replicas.observed <= Cardinality(Holders(c))
      /\ g.replicas.exact => g.replicas.observed = Cardinality(Holders(c))
  <2> HIDE DEF counted
  <2> QED BY <1>1, <1>2, <1>3, <1>4, <1>5, GroupTells, HoldersAre
<1>7. T \subseteq vouched
  <2> SUFFICES ASSUME NEW s \in T PROVE s \in vouched
    OBVIOUS
  <2>1. s \in counted /\ s \in Chosen /\ Counts(cmd.loaded[s].status)
    BY <1>3, <1>6 DEF Holders
  <2>2. Vouched(s)
    BY <2>1, ChosenTells
  <2> QED BY <2>1, <2>2
<1>8. IsFiniteSet(vouched)
  BY <1>6, FS_Subset
<1> HIDE DEF vouched, counted, T
<1>9. Cardinality(T) <= Cardinality(vouched) /\ IsFiniteSet(T)
  BY <1>7, <1>8, FS_Subset
<1>10. Cardinality(T) \in Nat /\ Cardinality(vouched) \in Nat
  BY <1>8, <1>9, FS_CardinalityType
<1>11. g.verdict = "meets_floor" => Cardinality(vouched) >= cmd.params.minCopies
  BY <1>1, <1>3, <1>6, <1>9, <1>10 DEF T
<1> QED
  BY <1>3, <1>6, <1>11 DEF vouched, counted

LEMMA CompleteHolds == ReportsInv => CompleteTrue
<1> SUFFICES ASSUME ReportsInv, cmd.step = "done", cmd.report.complete PROVE CompleteTrue
  BY DEF CompleteTrue
<1>1. cmd.params.minCopies \in Nat /\ cmd.report = CoverageReport(Evident, cmd.params)
  BY DEF ReportsInv, CoverageTold
<1>2. /\ DOMAIN Evident = Chosen /\ IsFiniteSet(Chosen)
      /\ \A s \in Chosen : Faithful(Evident[s], cmd.seen[s])
  BY EvidentTells
<1>3. LeavesOut(Chosen, cmd.seen, cmd.report, cmd.params)
  BY <1>1, <1>2, CompleteReportTells
<1>4. \A c : Holders(c) = HoldersIn(Chosen, cmd.seen, c)
  BY HoldersAre
<1> QED
  BY <1>3, <1>4 DEF CompleteTrue, LeavesOut

LEMMA RowsHold == ReportsInv => CoverageRows
<1> SUFFICES ASSUME ReportsInv, NEW s \in Chosen, NEW r \in cmd.loaded[s].rows
             PROVE  LET rows == cmd.loaded[s].rows IN
               Cardinality({c \in Content : r \in Copies(rows, c)})
               + Cardinality({c \in Content : r \in Aliases(rows, c)})
               + Cardinality({r} \intersect UnknownContent(rows))
               + Cardinality({r} \intersect Excluded(rows)) = 1
  BY DEF CoverageRows
<1>1. Faithful(cmd.loaded[s], cmd.seen[s])
  BY ChosenTells
<1> QED
  BY <1>1, RowTold

LEMMA RegistryHolds == ReportsInv => RegistryCoherent
BY DEF ReportsInv, RegistryRead, RegistryCoherent

\* The state of every report command is well typed, whatever indexes rebuilds
\* leave and whatever becomes of the sources and the master.
THEOREM ReportTypes == Spec => []TypeOK
BY ReportsInvariant, TypesHold, PTL

\* `diff` calls a path added, removed or moved only when the other source held
\* nothing there, under any name its index could have recorded.
THEOREM DiffAbsenceHolds == Spec => []DiffAbsence
BY ReportsInvariant, DiffsHold, PTL

\* `diff` calls contents equal, moved or different only when they were.
THEOREM DiffContentHolds == Spec => []DiffContent
BY ReportsInvariant, DiffsHold, PTL

\* A `diff` whose state is complete lists every path whose content differs, and
\* no other as differing.
THEOREM DiffCompleteHolds == Spec => []DiffComplete
BY ReportsInvariant, DiffsHold, PTL

\* `diff` tells every row of both indexes once.
THEOREM DiffRowsHold == Spec => []DiffRows
BY ReportsInvariant, DiffsHold, PTL

\* A floor is met only by sources that held the content and were vouched for
\* while `coverage` ran; missed, and an only copy, whatever could not be read.
THEOREM FloorIsTrue == Spec => []FloorTrue
BY ReportsInvariant, FloorHolds, PTL

\* A `coverage` that says it is complete leaves out no file of a chosen source,
\* and no verdict in it is a guess.
THEOREM CompleteIsTrue == Spec => []CompleteTrue
BY ReportsInvariant, CompleteHolds, PTL

\* `coverage` puts every row in exactly one of its four accounts.
THEOREM CoverageRowsHold == Spec => []CoverageRows
BY ReportsInvariant, RowsHold, PTL

\* The registry that `coverage` works from is one that the master held, though it
\* was read without a lock.
THEOREM RegistryIsCoherent == Spec => []RegistryCoherent
BY ReportsInvariant, RegistryHolds, PTL

-----------------------------------------------------------------------------
(***************************************************************************)
(* The files reports are written to.  Paths and locations without a name,  *)
(* that of the stage.                                                      *)
(***************************************************************************)
Without(name, p) == p \in Paths /\ name \notin ToSet(p)
EndsIn(name, l) == l # RootDir /\ Last(l) = name

LEMMA ShorterWithout ==
  ASSUME NEW name, NEW p, Without(name, p)
  PROVE  /\ Without(name, Above(p)) /\ Without(name, Front(p))
         /\ p # <<>> => /\ Without(name, Tail(p)) /\ Head(p) \in Seq(Parts) /\ Head(p) # name
                        /\ Last(p) \in Seq(Parts) /\ Last(p) # name
<1>1. p \in Seq(Seq(Parts)) /\ \A i \in 1 .. Len(p) : p[i] # name
  BY DEF Without, Paths, ToSet
<1>2. Front(p) \in Paths /\ \A i \in 1 .. Len(Front(p)) : Front(p)[i] # name
  BY <1>1 DEF Front, Paths
<1>3. ASSUME p # <<>>
      PROVE  /\ Tail(p) \in Paths /\ \A i \in 1 .. Len(Tail(p)) : Tail(p)[i] # name
             /\ Head(p) \in Seq(Parts) /\ Head(p) # name
             /\ Last(p) \in Seq(Parts) /\ Last(p) # name
  BY <1>1, <1>3 DEF Paths, Last
<1> QED
  BY <1>1, <1>2, <1>3 DEF Without, ToSet, Above, RootDir, Paths

LEMMA LongerWithout ==
  ASSUME NEW name, NEW p, Without(name, p), NEW q, Without(name, q), NEW x \in Seq(Parts), x # name
  PROVE  Without(name, Append(p, x)) /\ Without(name, p \o q)
<1>1. /\ p \in Seq(Seq(Parts)) /\ \A i \in 1 .. Len(p) : p[i] # name
      /\ q \in Seq(Seq(Parts)) /\ \A i \in 1 .. Len(q) : q[i] # name
  BY DEF Without, Paths, ToSet
<1>2. Append(p, x) \in Paths /\ \A i \in 1 .. Len(Append(p, x)) : Append(p, x)[i] # name
  BY <1>1 DEF Paths
<1>3. p \o q \in Paths /\ \A i \in 1 .. Len(p \o q) : (p \o q)[i] # name
  BY <1>1 DEF Paths
<1> QED
  BY <1>2, <1>3 DEF Without, ToSet, Paths

LEMMA EndIsAName ==
  ASSUME NEW name, NEW p, Without(name, p)
  PROVE  ~EndsIn(name, p)
BY ShorterWithout DEF EndsIn, RootDir

LEMMA AppendEnds ==
  ASSUME NEW p \in Paths, NEW x \in Seq(Parts)
  PROVE  /\ Append(p, x) \in Paths /\ Append(p, x) # RootDir
         /\ Last(Append(p, x)) = x /\ Front(Append(p, x)) = p
BY DEF Paths, RootDir, Last, Front

-----------------------------------------------------------------------------
(***************************************************************************)
(* Lookups, step by step.                                                  *)
(***************************************************************************)
Runs(d, path, N, f) == f = [n \in 0 .. N |-> IF n = 0 THEN Begun(path) ELSE Onward(d, f[n - 1])]

LEMMA RunExists ==
  ASSUME NEW d, NEW path, NEW N \in Nat
  PROVE  \E f : Runs(d, path, N, f)
<1> DEFINE T == {m \in Nat : ~ \E f : Runs(d, path, m, f)}
<1> SUFFICES ASSUME T # {} PROVE FALSE
  OBVIOUS
<1>1. PICK m \in T : \A k \in T : m <= k
  <2>1. T \in SUBSET Nat /\ T # {}
    OBVIOUS
  <2> HIDE DEF T
  <2> QED
    BY <2>1, LeastNatural
<1>2. m # 0
  <2>1. Runs(d, path, 0, [n \in 0 .. 0 |-> Begun(path)])
    BY DEF Runs
  <2> QED
    BY <1>1, <2>1
<1>3. m \in Nat /\ m - 1 \in Nat /\ m - 1 \notin T
  BY <1>1, <1>2
<1>4. PICK f : Runs(d, path, m - 1, f)
  BY <1>3
<1> DEFINE g == [n \in 0 .. m |-> IF n = m THEN Onward(d, f[m - 1]) ELSE f[n]]
<1>5. Runs(d, path, m, g)
  <2>0. f = [n \in 0 .. m - 1 |-> IF n = 0 THEN Begun(path) ELSE Onward(d, f[n - 1])]
    BY <1>4 DEF Runs
  <2>1. \A n \in 0 .. m - 1 : g[n] = f[n]
    BY <1>3
  <2>2. \A n \in 1 .. m - 1 : g[n] = Onward(d, g[n - 1])
    <3> SUFFICES ASSUME NEW n \in 1 .. m - 1 PROVE g[n] = Onward(d, g[n - 1])
      OBVIOUS
    <3>1. n \in 0 .. m - 1 /\ n - 1 \in 0 .. m - 1 /\ n # 0
      BY <1>3
    <3>2. f[n] = Onward(d, f[n - 1])
      BY <2>0, <3>1
    <3> QED
      BY <2>1, <3>1, <3>2
  <2>3. g[0] = Begun(path)
    BY <1>2, <1>3, <2>0, <2>1
  <2>4. g[m] = Onward(d, g[m - 1])
    BY <1>2, <1>3, <2>1
  <2>5. g = [n \in 0 .. m |-> g[n]]
    OBVIOUS
  <2> HIDE DEF g
  <2>6. \A n \in 0 .. m : n # 0 => g[n] = Onward(d, g[n - 1])
    <3> SUFFICES ASSUME NEW n \in 0 .. m, n # 0 PROVE g[n] = Onward(d, g[n - 1])
      OBVIOUS
    <3>1. n = m \/ n \in 1 .. m - 1
      BY <1>3
    <3> QED
      BY <2>2, <2>4, <3>1
  <2> QED
    BY <2>3, <2>5, <2>6 DEF Runs
<1> HIDE DEF g
<1> QED
  BY <1>1, <1>5

\* Where a lookup is after each name.
Walks(d, path, w) ==
  /\ w[0] = Begun(path) /\ \A n \in 1 .. MaxNames : w[n] = Onward(d, w[n - 1])
  /\ Follow(d, path) = w[MaxNames] /\ Lookup(d, path) = Reached(w[MaxNames])

LEMMA LookupWalks ==
  ASSUME NEW d, NEW path, MaxNames \in Nat
  PROVE  \E w : Walks(d, path, w)
<1> DEFINE w == CHOOSE f : Runs(d, path, MaxNames, f)
<1>1. Follow(d, path) = w[MaxNames]
  BY DEF Follow, Runs
<1>2. Runs(d, path, MaxNames, w)
  BY RunExists
<1> HIDE DEF w
<1>3. w = [n \in 0 .. MaxNames |-> IF n = 0 THEN Begun(path) ELSE Onward(d, w[n - 1])]
  BY <1>2 DEF Runs
<1>4. w[0] = Begun(path)
  BY <1>3
<1>5. ASSUME NEW n \in 1 .. MaxNames PROVE w[n] = Onward(d, w[n - 1])
  <2>1. n \in 0 .. MaxNames /\ n # 0
    OBVIOUS
  <2> QED
    BY <1>3, <2>1
<1> QED
  BY <1>1, <1>4, <1>5 DEF Walks, Lookup

LenientRuns(d, path, N, f) == f = [n \in 0 .. N |-> IF n = 0 THEN Begun(path) ELSE ResolveOnward(d, f[n - 1])]

LEMMA LenientRunExists ==
  ASSUME NEW d, NEW path, NEW N \in Nat
  PROVE  \E f : LenientRuns(d, path, N, f)
<1> DEFINE T == {m \in Nat : ~ \E f : LenientRuns(d, path, m, f)}
<1> SUFFICES ASSUME T # {} PROVE FALSE
  OBVIOUS
<1>1. PICK m \in T : \A k \in T : m <= k
  <2>1. T \in SUBSET Nat /\ T # {}
    OBVIOUS
  <2> HIDE DEF T
  <2> QED
    BY <2>1, LeastNatural
<1>2. m # 0
  <2>1. LenientRuns(d, path, 0, [n \in 0 .. 0 |-> Begun(path)])
    BY DEF LenientRuns
  <2> QED
    BY <1>1, <2>1
<1>3. m \in Nat /\ m - 1 \in Nat /\ m - 1 \notin T
  BY <1>1, <1>2
<1>4. PICK f : LenientRuns(d, path, m - 1, f)
  BY <1>3
<1> DEFINE g == [n \in 0 .. m |-> IF n = m THEN ResolveOnward(d, f[m - 1]) ELSE f[n]]
<1>5. LenientRuns(d, path, m, g)
  <2>0. f = [n \in 0 .. m - 1 |-> IF n = 0 THEN Begun(path) ELSE ResolveOnward(d, f[n - 1])]
    BY <1>4 DEF LenientRuns
  <2>1. \A n \in 0 .. m - 1 : g[n] = f[n]
    BY <1>3
  <2>2. \A n \in 1 .. m - 1 : g[n] = ResolveOnward(d, g[n - 1])
    <3> SUFFICES ASSUME NEW n \in 1 .. m - 1 PROVE g[n] = ResolveOnward(d, g[n - 1])
      OBVIOUS
    <3>1. n \in 0 .. m - 1 /\ n - 1 \in 0 .. m - 1 /\ n # 0
      BY <1>3
    <3>2. f[n] = ResolveOnward(d, f[n - 1])
      BY <2>0, <3>1
    <3> QED
      BY <2>1, <3>1, <3>2
  <2>3. g[0] = Begun(path)
    BY <1>2, <1>3, <2>0, <2>1
  <2>4. g[m] = ResolveOnward(d, g[m - 1])
    BY <1>2, <1>3, <2>1
  <2>5. g = [n \in 0 .. m |-> g[n]]
    OBVIOUS
  <2> HIDE DEF g
  <2>6. \A n \in 0 .. m : n # 0 => g[n] = ResolveOnward(d, g[n - 1])
    <3> SUFFICES ASSUME NEW n \in 0 .. m, n # 0 PROVE g[n] = ResolveOnward(d, g[n - 1])
      OBVIOUS
    <3>1. n = m \/ n \in 1 .. m - 1
      BY <1>3
    <3> QED
      BY <2>2, <2>4, <3>1
  <2> QED
    BY <2>3, <2>5, <2>6 DEF LenientRuns
<1> HIDE DEF g
<1> QED
  BY <1>1, <1>5

\* Where the lenient resolution is after each name.
LenientWalks(d, path, w) ==
  /\ w[0] = Begun(path) /\ \A n \in 1 .. MaxNames : w[n] = ResolveOnward(d, w[n - 1])
  /\ Lenient(d, path) = Reached(w[MaxNames])

LEMMA ResolveWalks ==
  ASSUME NEW d, NEW path, MaxNames \in Nat
  PROVE  \E w : LenientWalks(d, path, w)
<1> DEFINE w == CHOOSE f : LenientRuns(d, path, MaxNames, f)
<1>1. ResolveLenient(d, path) = w[MaxNames]
  BY DEF ResolveLenient, LenientRuns
<1>2. LenientRuns(d, path, MaxNames, w)
  BY LenientRunExists
<1> HIDE DEF w
<1>3. w = [n \in 0 .. MaxNames |-> IF n = 0 THEN Begun(path) ELSE ResolveOnward(d, w[n - 1])]
  BY <1>2 DEF LenientRuns
<1>4. w[0] = Begun(path)
  BY <1>3
<1>5. ASSUME NEW n \in 1 .. MaxNames PROVE w[n] = ResolveOnward(d, w[n - 1])
  <2>1. n \in 0 .. MaxNames /\ n # 0
    OBVIOUS
  <2> QED
    BY <1>3, <2>1
<1> QED
  BY <1>1, <1>4, <1>5 DEF LenientWalks, Lenient

-----------------------------------------------------------------------------
(***************************************************************************)
(* What a lookup goes through.                                             *)
(***************************************************************************)
OnTheWay(name, w) ==
  /\ w \in [end : {"going", "broken", "missing"}, at : Paths, todo : Paths, hops : Nat]
  /\ Without(name, w.at) /\ Without(name, w.todo)
LinksWithout(name, d) == \A l \in DOMAIN d : IsType(d, l, "link") => Without(name, d[l].to)

LEMMA BegunOnTheWay ==
  ASSUME NEW name, NEW p, Without(name, p)
  PROVE  OnTheWay(name, Begun(p))
BY DEF OnTheWay, Begun, Without, RootDir, Paths, ToSet

LEMMA NextEntryIs ==
  ASSUME NEW name, NEW w, OnTheWay(name, w), ~Over(w)
  PROVE  /\ Without(name, NextEntry(w)) /\ ~EndsIn(name, NextEntry(w)) /\ Without(name, Tail(w.todo))
         /\ Without(name, Above(w.at)) /\ Head(w.todo) \in Seq(Parts)
         /\ NextEntry(w) # RootDir /\ Front(NextEntry(w)) = w.at /\ Last(NextEntry(w)) = Head(w.todo)
<1>1. w.todo # <<>> /\ Without(name, w.todo) /\ Without(name, w.at)
  BY DEF OnTheWay, Over
<1>2. /\ Without(name, Tail(w.todo)) /\ Head(w.todo) \in Seq(Parts) /\ Head(w.todo) # name
      /\ Without(name, Above(w.at))
  BY <1>1, ShorterWithout
<1>3. Without(name, NextEntry(w))
  BY <1>1, <1>2, LongerWithout DEF NextEntry
<1>4. w.at \in Paths
  BY DEF OnTheWay
<1> QED
  BY <1>2, <1>3, <1>4, EndIsAName, AppendEnds DEF NextEntry

LEMMA PassedOn ==
  ASSUME NEW name, NEW w, OnTheWay(name, w), ~Over(w), NEW loc, Without(name, loc)
  PROVE  OnTheWay(name, Passed(w, loc))
BY NextEntryIs DEF OnTheWay, Passed, Without

LEMMA TurnedOn ==
  ASSUME NEW name, NEW w, OnTheWay(name, w), ~Over(w), NEW link, Without(name, link.to)
  PROVE  OnTheWay(name, Turned(w, link))
<1>1. Without(name, link.to \o Tail(w.todo))
  <2>1. Without(name, Tail(w.todo)) /\ Head(w.todo) \in Seq(Parts) /\ Head(w.todo) # name
    BY NextEntryIs, ShorterWithout DEF OnTheWay, Over
  <2> QED
    BY <2>1, LongerWithout
<1>2. Without(name, RootDir)
  BY DEF Without, RootDir, Paths, ToSet
<1> QED
  <2>1. w.hops + 1 \in Nat /\ w.at \in Paths /\ w.todo \in Paths
    BY DEF OnTheWay
  <2>2. CASE w.hops = MaxHops
    BY <2>2 DEF OnTheWay, Turned, Ended
  <2>3. CASE w.hops # MaxHops
    <3> DEFINE at == IF link.abs THEN RootDir ELSE w.at
               todo == link.to \o Tail(w.todo)
    <3>1. Without(name, at) /\ at \in Paths /\ todo \in Paths /\ Without(name, todo)
      BY <1>1, <1>2, <2>1 DEF OnTheWay, Without
    <3>2. Turned(w, link) = [w EXCEPT !.at = at, !.todo = todo, !.hops = w.hops + 1]
      BY <2>3 DEF Turned
    <3> HIDE DEF at, todo
    <3> QED
      BY <2>1, <3>1, <3>2 DEF OnTheWay
  <2> QED
    BY <2>2, <2>3

LEMMA OnwardOn ==
  ASSUME NEW name, NEW d, NEW w, OnTheWay(name, w), LinksWithout(name, d)
  PROVE  OnTheWay(name, Onward(d, w)) /\ OnTheWay(name, ResolveOnward(d, w))
<1>1. CASE Over(w)
  BY <1>1 DEF Onward, ResolveOnward
<1>2. CASE ~Over(w)
  <2>1. OnTheWay(name, Passed(w, Above(w.at))) /\ OnTheWay(name, Passed(w, NextEntry(w)))
    BY <1>2, NextEntryIs, PassedOn
  <2>2. OnTheWay(name, Ended(w, "broken")) /\ OnTheWay(name, Ended(Passed(w, NextEntry(w)), "missing"))
    BY <2>1 DEF OnTheWay, Ended
  <2>3. IsType(d, NextEntry(w), "link") => OnTheWay(name, Turned(w, d[NextEntry(w)]))
    BY <1>2, TurnedOn DEF LinksWithout, IsType
  <2> QED
    BY <2>1, <2>2, <2>3 DEF Onward, ResolveOnward
<1> QED
  BY <1>1, <1>2

LEMMA OneByOne ==
  ASSUME NEW N \in Nat, NEW S, 0 \in S, \A n \in 1 .. N : n - 1 \in S => n \in S
  PROVE  \A n \in 0 .. N : n \in S
<1> DEFINE T == {n \in 0 .. N : n \notin S}
<1> SUFFICES ASSUME T # {} PROVE FALSE
  OBVIOUS
<1>1. PICK m \in T : \A k \in T : m <= k
  <2>1. T \in SUBSET Nat /\ T # {}
    OBVIOUS
  <2> HIDE DEF T
  <2> QED
    BY <2>1, LeastNatural
<1>2. m \in 1 .. N /\ m - 1 \in 0 .. N
  BY <1>1
<1>3. m - 1 \notin T
  BY <1>1, <1>2
<1> QED
  BY <1>1, <1>2, <1>3

LEMMA WalkOnTheWay ==
  ASSUME NEW name, NEW d, NEW p, NEW w, MaxNames \in Nat, Walks(d, p, w),
         Without(name, p), LinksWithout(name, d)
  PROVE  \A n \in 0 .. MaxNames : OnTheWay(name, w[n])
<1> DEFINE S == {n \in 0 .. MaxNames : OnTheWay(name, w[n])}
<1>1. 0 \in S
  BY BegunOnTheWay DEF Walks
<1>2. ASSUME NEW n \in 1 .. MaxNames, n - 1 \in S PROVE n \in S
  BY <1>2, OnwardOn DEF Walks
<1> HIDE DEF S
<1>3. \A n \in 0 .. MaxNames : n \in S
  BY <1>1, <1>2, OneByOne
<1> QED
  BY <1>3 DEF S

LEMMA LenientWalkOnTheWay ==
  ASSUME NEW name, NEW d, NEW p, NEW w, MaxNames \in Nat, LenientWalks(d, p, w),
         Without(name, p), LinksWithout(name, d)
  PROVE  \A n \in 0 .. MaxNames : OnTheWay(name, w[n])
<1> DEFINE S == {n \in 0 .. MaxNames : OnTheWay(name, w[n])}
<1>1. 0 \in S
  BY BegunOnTheWay DEF LenientWalks
<1>2. ASSUME NEW n \in 1 .. MaxNames, n - 1 \in S PROVE n \in S
  BY <1>2, OnwardOn DEF LenientWalks
<1> HIDE DEF S
<1>3. \A n \in 0 .. MaxNames : n \in S
  BY <1>1, <1>2, OneByOne
<1> QED
  BY <1>3 DEF S

LEMMA LookupWithout ==
  ASSUME NEW name, NEW d, NEW p, MaxNames \in Nat, Without(name, p), LinksWithout(name, d)
  PROVE  /\ Lookup(d, p) # NoValue => Without(name, Lookup(d, p))
         /\ Lenient(d, p) # NoValue => Without(name, Lenient(d, p))
<1>1. PICK w : Walks(d, p, w)
  BY LookupWalks
<1>2. PICK v : LenientWalks(d, p, v)
  BY ResolveWalks
<1>3. OnTheWay(name, w[MaxNames]) /\ OnTheWay(name, v[MaxNames])
  BY <1>1, <1>2, WalkOnTheWay, LenientWalkOnTheWay
<1> QED
  BY <1>1, <1>2, <1>3 DEF Walks, LenientWalks, Reached, OnTheWay

\* Whatever is not named so is in the other as it is in the one.
KeptBut(name, b, e) == \A l \in DOMAIN b : EndsIn(name, l) \/ (l \in DOMAIN e /\ e[l] = b[l])

LEMMA OnwardKept ==
  ASSUME NEW name, NEW b, NEW e, KeptBut(name, b, e), NEW w, OnTheWay(name, w),
         Onward(b, w).end = "going"
  PROVE  Onward(e, w) = Onward(b, w) /\ w.end = "going"
<1>1. CASE Over(w)
  BY <1>1 DEF Onward
<1>2. CASE ~Over(w)
  <2>1. w.end = "going" /\ ~EndsIn(name, w.at) /\ ~EndsIn(name, NextEntry(w))
    BY <1>2, NextEntryIs, EndIsAName DEF OnTheWay, Over
  <2>2. IsType(b, w.at, "dir")
    BY <1>2, <2>1 DEF Onward, Ended, OnTheWay
  <2>3. IsType(e, w.at, "dir")
    BY <2>1, <2>2 DEF KeptBut, IsType
  <2>4. CASE Head(w.todo) = Up
    BY <1>2, <2>1, <2>2, <2>3, <2>4 DEF Onward
  <2>5. CASE Head(w.todo) # Up
    <3>1. NextEntry(w) \in DOMAIN b
      <4> SUFFICES ASSUME NextEntry(w) \notin DOMAIN b PROVE FALSE
        OBVIOUS
      <4>1. Onward(b, w) = Ended(Passed(w, NextEntry(w)), "missing")
        BY <1>2, <2>2, <2>5 DEF Onward
      <4>2. OnTheWay(name, Passed(w, NextEntry(w)))
        BY <1>2, NextEntryIs, PassedOn
      <4> QED
        BY <4>1, <4>2 DEF OnTheWay, Ended
    <3>2. NextEntry(w) \in DOMAIN e /\ e[NextEntry(w)] = b[NextEntry(w)]
      BY <2>1, <3>1 DEF KeptBut
    <3> QED
      BY <1>2, <2>1, <2>2, <2>3, <2>5, <3>1, <3>2 DEF Onward, IsType
  <2> QED
    BY <2>4, <2>5
<1> QED
  BY <1>1, <1>2

LEMMA LookupKept ==
  ASSUME NEW name, NEW b, NEW e, KeptBut(name, b, e), MaxNames \in Nat,
         NEW p, Without(name, p), LinksWithout(name, b), Lookup(b, p) # NoValue
  PROVE  Lookup(e, p) = Lookup(b, p)
<1>1. PICK w : Walks(b, p, w)
  BY LookupWalks
<1>2. PICK v : Walks(e, p, v)
  BY LookupWalks
<1> DEFINE S == {n \in 0 .. MaxNames : w[n].end = "going" => v[n] = w[n]}
<1>3. 0 \in S
  BY <1>1, <1>2 DEF Walks
<1>4. ASSUME NEW n \in 1 .. MaxNames, n - 1 \in S PROVE n \in S
  <2> SUFFICES ASSUME w[n].end = "going" PROVE v[n] = w[n]
    OBVIOUS
  <2>1. OnTheWay(name, w[n - 1])
    BY <1>1, WalkOnTheWay
  <2>2. w[n] = Onward(b, w[n - 1]) /\ v[n] = Onward(e, v[n - 1])
    BY <1>1, <1>2 DEF Walks
  <2>3. Onward(e, w[n - 1]) = Onward(b, w[n - 1]) /\ w[n - 1].end = "going"
    BY <2>1, <2>2, OnwardKept
  <2> QED
    BY <1>4, <2>2, <2>3
<1> HIDE DEF S
<1>5. MaxNames \in S
  BY <1>3, <1>4, OneByOne
<1> QED
  BY <1>1, <1>2, <1>5 DEF S, Walks, Reached

-----------------------------------------------------------------------------
(***************************************************************************)
(* Where links alone lead.                                                 *)
(***************************************************************************)
\* Two file systems with the same links, but for those of the name.
LinkedAlike(name, d, e) ==
  \A l : ~EndsIn(name, l) =>
    /\ IsType(d, l, "link") = IsType(e, l, "link")
    /\ IsType(d, l, "link") => d[l] = e[l]
OnlyLinks(name, d) ==
  [l \in {l \in DOMAIN d : d[l].type = "link" /\ ~EndsIn(name, l)} |-> d[l]]

\* Where a path leads when what is not a link can be passed.
Led(name, d, p) == Lenient(OnlyLinks(name, d), p)

LEMMA OnlyLinksAlike ==
  ASSUME NEW name, NEW d, NEW e, LinkedAlike(name, d, e)
  PROVE  OnlyLinks(name, d) = OnlyLinks(name, e)
<1> DEFINE S(x) == {l \in DOMAIN x : x[l].type = "link" /\ ~EndsIn(name, l)}
<1>1. S(d) = S(e)
  BY DEF LinkedAlike, IsType
<1>2. \A l \in S(d) : d[l] = e[l]
  BY DEF LinkedAlike, IsType
<1> QED
  BY <1>1, <1>2 DEF OnlyLinks

LEMMA OnlyLinksIs ==
  ASSUME NEW name, NEW d
  PROVE  /\ LinkedAlike(name, OnlyLinks(name, d), d)
         /\ \A l : ~IsType(OnlyLinks(name, d), l, "file")
BY DEF OnlyLinks, LinkedAlike, IsType

LEMMA OnwardLed ==
  ASSUME NEW name, NEW d, NEW g, LinkedAlike(name, g, d), \A l : ~IsType(g, l, "file"),
         NEW w, OnTheWay(name, w)
  PROVE  /\ Onward(d, w).end = "going" => ResolveOnward(g, w) = Onward(d, w) /\ w.end = "going"
         /\ ResolveOnward(d, w).end = "going" =>
              ResolveOnward(g, w) = ResolveOnward(d, w) /\ w.end = "going"
<1>1. CASE Over(w)
  BY <1>1 DEF Onward, ResolveOnward
<1>2. CASE ~Over(w)
  <2>1. w.end = "going" /\ ~EndsIn(name, NextEntry(w))
    BY <1>2, NextEntryIs DEF Over
  <2>2. /\ IsType(g, NextEntry(w), "link") = IsType(d, NextEntry(w), "link")
        /\ IsType(d, NextEntry(w), "link") => g[NextEntry(w)] = d[NextEntry(w)]
    BY <2>1 DEF LinkedAlike
  <2>3. OnTheWay(name, Passed(w, NextEntry(w)))
    BY <1>2, NextEntryIs, PassedOn
  <2>4. /\ Ended(w, "broken").end # "going"
        /\ Ended(Passed(w, NextEntry(w)), "missing").end # "going"
    BY <2>3 DEF OnTheWay, Ended
  <2>5. ResolveOnward(g, w) =
          IF Head(w.todo) = Up THEN Passed(w, Above(w.at))
          ELSE IF IsType(d, NextEntry(w), "link") THEN Turned(w, d[NextEntry(w)])
          ELSE Passed(w, NextEntry(w))
    BY <1>2, <2>2 DEF ResolveOnward
  <2>6. ASSUME Onward(d, w).end = "going" PROVE ResolveOnward(g, w) = Onward(d, w)
    <3>1. IsType(d, w.at, "dir")
      BY <1>2, <2>4, <2>6 DEF Onward
    <3>2. CASE Head(w.todo) = Up
      BY <1>2, <2>5, <3>1, <3>2 DEF Onward
    <3>3. CASE Head(w.todo) # Up
      <4>1. NextEntry(w) \in DOMAIN d
        BY <1>2, <2>4, <2>6, <3>1, <3>3 DEF Onward
      <4> QED
        BY <1>2, <2>5, <3>1, <3>3, <4>1 DEF Onward
    <3> QED
      BY <3>2, <3>3
  <2>7. ASSUME ResolveOnward(d, w).end = "going" PROVE ResolveOnward(g, w) = ResolveOnward(d, w)
    BY <1>2, <2>4, <2>5, <2>7 DEF ResolveOnward
  <2> QED
    BY <2>1, <2>6, <2>7
<1> QED
  BY <1>1, <1>2

\* What is found, and what the lenient resolution finds, is where the links lead.
LEMMA FoundIsLed ==
  ASSUME NEW name, NEW d, MaxNames \in Nat, NEW p, Without(name, p), LinksWithout(name, d)
  PROVE  /\ Lookup(d, p) # NoValue => Lookup(d, p) = Led(name, d, p)
         /\ Lenient(d, p) # NoValue => Lenient(d, p) = Led(name, d, p)
<1> DEFINE g == OnlyLinks(name, d)
<1>1. PICK w : Walks(d, p, w)
  BY LookupWalks
<1>2. PICK v : LenientWalks(d, p, v)
  BY ResolveWalks
<1>3. PICK u : LenientWalks(g, p, u)
  BY ResolveWalks
<1>4. LinkedAlike(name, g, d) /\ \A l : ~IsType(g, l, "file")
  BY OnlyLinksIs
<1> HIDE DEF g
<1>5. MaxNames \in {n \in 0 .. MaxNames : w[n].end = "going" => u[n] = w[n]}
  <2> DEFINE S == {n \in 0 .. MaxNames : w[n].end = "going" => u[n] = w[n]}
  <2>1. 0 \in S
    BY <1>1, <1>3 DEF Walks, LenientWalks
  <2>2. ASSUME NEW n \in 1 .. MaxNames, n - 1 \in S PROVE n \in S
    <3> SUFFICES ASSUME w[n].end = "going" PROVE u[n] = w[n]
      OBVIOUS
    <3>1. OnTheWay(name, w[n - 1])
      BY <1>1, WalkOnTheWay
    <3>2. w[n] = Onward(d, w[n - 1]) /\ u[n] = ResolveOnward(g, u[n - 1])
      BY <1>1, <1>3 DEF Walks, LenientWalks
    <3>3. ResolveOnward(g, w[n - 1]) = Onward(d, w[n - 1]) /\ w[n - 1].end = "going"
      BY <1>4, <3>1, <3>2, OnwardLed
    <3> QED
      BY <2>2, <3>2, <3>3
  <2> HIDE DEF S
  <2>3. MaxNames \in S
    BY <2>1, <2>2, OneByOne
  <2> QED
    BY <2>3 DEF S
<1>6. MaxNames \in {n \in 0 .. MaxNames : v[n].end = "going" => u[n] = v[n]}
  <2> DEFINE S == {n \in 0 .. MaxNames : v[n].end = "going" => u[n] = v[n]}
  <2>1. 0 \in S
    BY <1>2, <1>3 DEF LenientWalks
  <2>2. ASSUME NEW n \in 1 .. MaxNames, n - 1 \in S PROVE n \in S
    <3> SUFFICES ASSUME v[n].end = "going" PROVE u[n] = v[n]
      OBVIOUS
    <3>1. OnTheWay(name, v[n - 1])
      BY <1>2, LenientWalkOnTheWay
    <3>2. v[n] = ResolveOnward(d, v[n - 1]) /\ u[n] = ResolveOnward(g, u[n - 1])
      BY <1>2, <1>3 DEF LenientWalks
    <3>3. ResolveOnward(g, v[n - 1]) = ResolveOnward(d, v[n - 1]) /\ v[n - 1].end = "going"
      BY <1>4, <3>1, <3>2, OnwardLed
    <3> QED
      BY <2>2, <3>2, <3>3
  <2> HIDE DEF S
  <2>3. MaxNames \in S
    BY <2>1, <2>2, OneByOne
  <2> QED
    BY <2>3 DEF S
<1>7. Lenient(g, p) = Led(name, d, p)
  BY DEF Led, g
<1> QED
  BY <1>1, <1>2, <1>3, <1>5, <1>6, <1>7 DEF Walks, LenientWalks, Reached

-----------------------------------------------------------------------------
(***************************************************************************)
(* What a new file changes, and where a found location leads.              *)
(***************************************************************************)
\* A new file is found by who looks for it, and no other lookup changes.
LEMMA LookupPastNewFile ==
  ASSUME NEW name, NEW d, NEW loc, loc \notin DOMAIN d, NEW file, file.type = "file", MaxNames \in Nat,
         NEW p \in Paths, LinksWithout(name, d), Without(name, p),
         Lookup(With(d, loc, file), p) # NoValue
  PROVE  Lookup(With(d, loc, file), p) \in {loc, Lookup(d, p)}
<1> DEFINE e == With(d, loc, file)
<1>1. PICK w : Walks(d, p, w)
  BY LookupWalks
<1>2. PICK v : Walks(e, p, v)
  BY LookupWalks
<1>3. /\ DOMAIN e = DOMAIN d \union {loc} /\ e[loc] = file
      /\ \A l \in DOMAIN d : e[l] = d[l]
  BY DEF With
<1>4. LinksWithout(name, e)
  BY <1>3 DEF LinksWithout, IsType
<1> HIDE DEF e
<1> DEFINE S == {n \in 0 .. MaxNames : v[n].end = "going" => v[n] = w[n] \/ v[n].at = loc}
<1>5. 0 \in S
  BY <1>1, <1>2 DEF Walks
<1>6. ASSUME NEW n \in 1 .. MaxNames, n - 1 \in S PROVE n \in S
  <2> SUFFICES ASSUME v[n].end = "going" PROVE v[n] = w[n] \/ v[n].at = loc
    OBVIOUS
  <2> DEFINE x == v[n - 1]
  <2>1. OnTheWay(name, x)
    BY <1>2, <1>4, WalkOnTheWay
  <2>2. w[n] = Onward(d, w[n - 1]) /\ v[n] = Onward(e, x)
    BY <1>1, <1>2 DEF Walks
  <2> HIDE DEF x
  <2>3. CASE Over(x)
    BY <1>6, <2>2, <2>3 DEF Onward, x
  <2>4. CASE ~Over(x)
    <3>1. OnTheWay(name, Passed(x, NextEntry(x)))
      BY <2>1, <2>4, NextEntryIs, PassedOn
    <3>2. /\ Ended(x, "broken").end # "going" /\ x.end = "going"
          /\ Ended(Passed(x, NextEntry(x)), "missing").end # "going"
          /\ Passed(x, NextEntry(x)).at = NextEntry(x)
      BY <2>1, <2>4, <3>1 DEF OnTheWay, Ended, Over, Passed
    <3>3. IsType(e, x.at, "dir")
      BY <2>2, <2>4, <3>2 DEF Onward
    <3>4. x.at # loc /\ IsType(d, x.at, "dir")
      BY <1>3, <3>3 DEF IsType
    <3>5. x = w[n - 1]
      BY <1>6, <3>2, <3>4 DEF x
    <3>6. CASE Head(x.todo) = Up
      BY <2>2, <2>4, <3>3, <3>4, <3>5, <3>6 DEF Onward
    <3>7. CASE Head(x.todo) # Up
      <4>1. NextEntry(x) \in DOMAIN e
        BY <2>2, <2>4, <3>2, <3>3, <3>7 DEF Onward
      <4>2. CASE NextEntry(x) = loc
        BY <1>3, <2>2, <2>4, <3>2, <3>3, <3>7, <4>1, <4>2 DEF Onward, IsType
      <4>3. CASE NextEntry(x) # loc
        <5>1. NextEntry(x) \in DOMAIN d /\ e[NextEntry(x)] = d[NextEntry(x)]
          BY <1>3, <4>1, <4>3
        <5> QED
          BY <2>2, <2>4, <3>3, <3>4, <3>5, <3>7, <4>1, <5>1 DEF Onward, IsType
      <4> QED
        BY <4>2, <4>3
    <3> QED
      BY <3>6, <3>7
  <2> QED
    BY <2>3, <2>4
<1> HIDE DEF S
<1>7. MaxNames \in S
  BY <1>5, <1>6, OneByOne
<1> QED
  BY <1>1, <1>2, <1>7 DEF S, Walks, Reached, e

\* A location as lookups find it: below directories, no link, through no "..".
Standing(d, l) ==
  /\ l \in Paths
  /\ \A k \in 1 .. Len(l) :
       /\ l[k] # Up /\ SubSeq(l, 1, k) \in DOMAIN d /\ ~IsType(d, SubSeq(l, 1, k), "link")
       /\ IsType(d, SubSeq(l, 1, k - 1), "dir")

LEMMA StandingSteps ==
  ASSUME NEW d, IsType(d, RootDir, "dir"), NEW l, Standing(d, l)
  PROVE  /\ l \in DOMAIN d /\ ~IsType(d, l, "link")
         /\ Standing(d, Above(l)) /\ Len(Above(l)) <= Len(l)
         /\ \A x \in Seq(Parts) :
              x # Up /\ IsType(d, l, "dir") /\ Append(l, x) \in DOMAIN d
              /\ ~IsType(d, Append(l, x), "link") => Standing(d, Append(l, x))
<1>1. l \in Seq(Seq(Parts)) /\ Len(l) \in Nat
  BY DEF Standing, Paths
<1>2. SubSeq(l, 1, Len(l)) = l
  BY <1>1
<1>3. l \in DOMAIN d /\ ~IsType(d, l, "link")
  <2>1. CASE Len(l) = 0
    <3>1. l = RootDir
      BY <1>1, <2>1 DEF RootDir
    <3> QED
      BY <3>1 DEF IsType
  <2>2. CASE Len(l) # 0
    <3>1. Len(l) \in 1 .. Len(l)
      BY <1>1, <2>2
    <3> QED
      BY <1>2, <3>1 DEF Standing
  <2> QED
    BY <2>1, <2>2
<1>4. Standing(d, Above(l)) /\ Len(Above(l)) <= Len(l)
  <2>1. CASE l = RootDir
    BY <2>1 DEF Above
  <2>2. CASE l # RootDir
    <3>1. Above(l) = SubSeq(l, 1, Len(l) - 1) /\ Len(l) - 1 \in Nat
      BY <1>1, <2>2 DEF Above, Front, RootDir
    <3>2. Above(l) \in Paths /\ Len(Above(l)) = Len(l) - 1
      <4>1. \A m \in Nat : m <= Len(l) => SubSeq(l, 1, m) \in Seq(Seq(Parts)) /\ Len(SubSeq(l, 1, m)) = m
        BY <1>1
      <4>2. Len(l) - 1 <= Len(l)
        BY <1>1
      <4> QED
        BY <3>1, <4>1, <4>2 DEF Paths
    <3>3. \A k \in 1 .. Len(Above(l)) :
            /\ Above(l)[k] = l[k] /\ SubSeq(Above(l), 1, k) = SubSeq(l, 1, k)
            /\ SubSeq(Above(l), 1, k - 1) = SubSeq(l, 1, k - 1)
      BY <1>1, <3>1, <3>2
    <3>4. \A k \in 1 .. Len(Above(l)) : k \in 1 .. Len(l)
      BY <1>1, <3>2
    <3>5. \A k \in 1 .. Len(l) :
            /\ l[k] # Up /\ SubSeq(l, 1, k) \in DOMAIN d /\ ~IsType(d, SubSeq(l, 1, k), "link")
            /\ IsType(d, SubSeq(l, 1, k - 1), "dir")
      BY DEF Standing
    <3>6. \A k \in 1 .. Len(Above(l)) :
            /\ Above(l)[k] # Up /\ SubSeq(Above(l), 1, k) \in DOMAIN d
            /\ ~IsType(d, SubSeq(Above(l), 1, k), "link") /\ IsType(d, SubSeq(Above(l), 1, k - 1), "dir")
      BY <3>3, <3>4, <3>5
    <3>7. Len(Above(l)) <= Len(l)
      BY <1>1, <3>2
    <3> QED
      BY <3>2, <3>6, <3>7 DEF Standing
  <2> QED
    BY <2>1, <2>2
<1>5. ASSUME NEW x \in Seq(Parts), x # Up, IsType(d, l, "dir"), Append(l, x) \in DOMAIN d,
             ~IsType(d, Append(l, x), "link")
      PROVE  Standing(d, Append(l, x))
  <2> DEFINE m == Append(l, x)
  <2>1. m \in Paths /\ Len(m) = Len(l) + 1
    BY <1>1 DEF Paths
  <2>2. \A k \in 1 .. Len(l) :
          /\ m[k] = l[k] /\ SubSeq(m, 1, k) = SubSeq(l, 1, k)
          /\ SubSeq(m, 1, k - 1) = SubSeq(l, 1, k - 1)
    BY <1>1, <2>1
  <2>3. m[Len(m)] = x /\ SubSeq(m, 1, Len(m)) = m /\ SubSeq(m, 1, Len(m) - 1) = l
    BY <1>1, <2>1
  <2>4. \A k \in 1 .. Len(m) : k = Len(m) \/ k \in 1 .. Len(l)
    BY <1>1, <2>1
  <2> HIDE DEF m
  <2>5. m \in DOMAIN d /\ ~IsType(d, m, "link")
    BY <1>5 DEF m
  <2>6. Standing(d, m)
    BY <1>5, <2>1, <2>2, <2>3, <2>4, <2>5 DEF Standing
  <2> QED
    BY <2>6 DEF m
<1> QED
  BY <1>3, <1>4, <1>5

LEMMA LookupStands ==
  ASSUME NEW name, NEW d, IsType(d, RootDir, "dir"), MaxNames \in Nat, NEW p \in Paths,
         LinksWithout(name, d), Without(name, p), Lookup(d, p) # NoValue
  PROVE  Standing(d, Lookup(d, p)) /\ Len(Lookup(d, p)) <= MaxNames
<1>1. PICK w : Walks(d, p, w)
  BY LookupWalks
<1> DEFINE S == {n \in 0 .. MaxNames :
                   w[n].end = "going" => Standing(d, w[n].at) /\ Len(w[n].at) <= n}
<1>2. Standing(d, RootDir) /\ Len(RootDir) = 0
  BY DEF Standing, RootDir, Paths
<1>3. 0 \in S
  BY <1>1, <1>2 DEF Walks, Begun
<1>4. ASSUME NEW n \in 1 .. MaxNames, n - 1 \in S PROVE n \in S
  <2> SUFFICES ASSUME w[n].end = "going" PROVE Standing(d, w[n].at) /\ Len(w[n].at) <= n
    OBVIOUS
  <2> DEFINE x == w[n - 1]
  <2>1. OnTheWay(name, x) /\ w[n] = Onward(d, x)
    BY <1>1, WalkOnTheWay DEF Walks
  <2>2. x.end = "going" => Standing(d, x.at) /\ Len(x.at) <= n - 1
    BY <1>4
  <2> HIDE DEF x
  <2>3. CASE Over(x)
    <3>1. w[n] = x
      BY <2>1, <2>3 DEF Onward
    <3>2. Len(x.at) \in Nat
      BY <2>1 DEF OnTheWay, Paths
    <3> QED
      BY <2>2, <3>1, <3>2
  <2>4. CASE ~Over(x)
    <3>1. OnTheWay(name, Passed(x, NextEntry(x))) /\ OnTheWay(name, Passed(x, Above(x.at)))
      BY <2>1, <2>4, NextEntryIs, PassedOn
    <3>2. /\ Ended(x, "broken").end # "going" /\ x.end = "going"
          /\ Ended(Passed(x, NextEntry(x)), "missing").end # "going"
          /\ Passed(x, NextEntry(x)).at = NextEntry(x) /\ Passed(x, Above(x.at)).at = Above(x.at)
      BY <2>1, <2>4, <3>1 DEF OnTheWay, Ended, Over, Passed
    <3>3. IsType(d, x.at, "dir")
      BY <2>1, <2>4, <3>2 DEF Onward
    <3>4. /\ Standing(d, x.at) /\ Len(x.at) <= n - 1 /\ Len(x.at) \in Nat
          /\ Len(Above(x.at)) \in Nat
      BY <2>1, <2>2, <2>4, <3>2, NextEntryIs DEF OnTheWay, Without, Paths
    <3>5. CASE Head(x.todo) = Up
      <4>1. w[n].at = Above(x.at)
        BY <2>1, <2>4, <3>2, <3>3, <3>5 DEF Onward
      <4> QED
        BY <3>4, <4>1, StandingSteps
    <3>6. CASE Head(x.todo) # Up
      <4>1. NextEntry(x) \in DOMAIN d
        BY <2>1, <2>4, <3>2, <3>3, <3>6 DEF Onward
      <4>2. CASE IsType(d, NextEntry(x), "link")
        <5>1. w[n] = Turned(x, d[NextEntry(x)])
          BY <2>1, <2>4, <3>3, <3>6, <4>1, <4>2 DEF Onward
        <5>2. w[n].at \in {RootDir, x.at}
          <6>1. x.hops # MaxHops
            BY <3>2, <5>1 DEF Turned
          <6> QED
            BY <2>1, <5>1, <6>1 DEF Turned, OnTheWay
        <5> QED
          BY <1>2, <3>4, <5>2
      <4>3. CASE ~IsType(d, NextEntry(x), "link")
        <5>1. w[n].at = NextEntry(x)
          BY <2>1, <2>4, <3>2, <3>3, <3>6, <4>1, <4>3 DEF Onward
        <5>2. Head(x.todo) \in Seq(Parts) /\ NextEntry(x) = Append(x.at, Head(x.todo))
          BY <2>1, <2>4, NextEntryIs DEF NextEntry
        <5>3. Standing(d, NextEntry(x))
          BY <3>3, <3>4, <3>6, <4>1, <4>3, <5>2, StandingSteps
        <5>4. Len(NextEntry(x)) = Len(x.at) + 1
          BY <3>4, <5>2 DEF Standing, Paths
        <5> QED
          BY <3>4, <5>1, <5>3, <5>4
      <4> QED
        BY <4>2, <4>3
    <3> QED
      BY <3>5, <3>6
  <2> QED
    BY <2>3, <2>4
<1> HIDE DEF S
<1>5. MaxNames \in S
  BY <1>3, <1>4, OneByOne
<1> QED
  BY <1>1, <1>5 DEF S, Walks, Reached

LEMMA LookupOfStanding ==
  ASSUME NEW d, IsType(d, RootDir, "dir"), MaxNames \in Nat, NEW l, Standing(d, l), Len(l) <= MaxNames
  PROVE  Lookup(d, l) = l
<1>1. PICK w : Walks(d, l, w)
  BY LookupWalks
<1>2. l \in Seq(Seq(Parts)) /\ Len(l) \in Nat
  BY DEF Standing, Paths
<1> DEFINE part(k) == [end |-> "going", at |-> SubSeq(l, 1, k), todo |-> SubSeq(l, k + 1, Len(l)), hops |-> 0]
           S == {n \in 0 .. MaxNames : w[n] = IF n <= Len(l) THEN part(n) ELSE part(Len(l))}
<1>3. 0 \in S
  <2>1. SubSeq(l, 1, 0) = RootDir /\ SubSeq(l, 1, Len(l)) = l
    BY <1>2 DEF RootDir
  <2> QED
    BY <1>1, <1>2, <2>1 DEF Walks, Begun
<1>4. ASSUME NEW n \in 1 .. MaxNames, n - 1 \in S PROVE n \in S
  <2>1. w[n] = Onward(d, w[n - 1])
    BY <1>1 DEF Walks
  <2>2. CASE n <= Len(l)
    <3> DEFINE at == SubSeq(l, 1, n - 1)
               todo == SubSeq(l, n, Len(l))
    <3>1. w[n - 1] = [end |-> "going", at |-> at, todo |-> todo, hops |-> 0]
      BY <1>2, <1>4, <2>2
    <3>2. todo # <<>> /\ Head(todo) = l[n] /\ Tail(todo) = SubSeq(l, n + 1, Len(l))
      <4> DEFINE rest == SubSeq(l, n + 1, Len(l))
      <4>1. /\ n \in Int /\ Len(l) \in Int /\ n + 1 \in Int
            /\ \A k \in n .. Len(l) : l[k] \in Seq(Parts)
            /\ \A k \in n + 1 .. Len(l) : l[k] \in Seq(Parts)
        BY <1>2, <2>2
      <4>2. /\ todo \in Seq(Seq(Parts)) /\ Len(todo) = Len(l) - n + 1
            /\ \A k \in 1 .. Len(l) - n + 1 : todo[k] = l[n + k - 1]
        BY <2>2, <4>1, SubSeqProperties
      <4>3. /\ rest \in Seq(Seq(Parts)) /\ Len(rest) = Len(l) - n
            /\ \A k \in 1 .. Len(l) - n : rest[k] = l[n + k]
        <5>1. /\ Len(rest) = IF n + 1 <= Len(l) THEN Len(l) - (n + 1) + 1 ELSE 0
              /\ \A k \in 1 .. Len(l) - (n + 1) + 1 : rest[k] = l[n + 1 + k - 1]
              /\ rest \in Seq(Seq(Parts))
          BY <4>1, SubSeqProperties
        <5> HIDE DEF rest
        <5>2. Len(rest) = Len(l) - n
          BY <1>2, <2>2, <5>1
        <5>3. ASSUME NEW k \in 1 .. Len(l) - n PROVE rest[k] = l[n + k]
          <6>1. k \in 1 .. Len(l) - (n + 1) + 1 /\ n + 1 + k - 1 = n + k
            BY <1>2, <2>2
          <6> QED
            BY <5>1, <6>1
        <5> QED
          BY <5>1, <5>2, <5>3
      <4> HIDE DEF todo, rest
      <4>4. todo # <<>> /\ Head(todo) = l[n]
        <5>1. 1 \in 1 .. Len(l) - n + 1 /\ n + 1 - 1 = n
          BY <1>2, <2>2
        <5>2. todo[1] = l[n]
          BY <4>2, <5>1
        <5> QED
          BY <1>2, <2>2, <4>2, <5>2
      <4>5. Tail(todo) \in Seq(Seq(Parts)) /\ Len(Tail(todo)) = Len(rest)
        BY <1>2, <2>2, <4>2, <4>3, <4>4
      <4>6. ASSUME NEW k \in 1 .. Len(rest) PROVE Tail(todo)[k] = rest[k]
        <5>1. k \in 1 .. Len(l) - n /\ k + 1 \in 1 .. Len(l) - n + 1 /\ n + (k + 1) - 1 = n + k
          BY <1>2, <2>2, <4>3
        <5>2. Tail(todo)[k] = todo[k + 1]
          BY <4>2, <4>4, <5>1
        <5> QED
          BY <4>2, <4>3, <5>1, <5>2
      <4>7. Tail(todo) = rest
        BY <4>3, <4>5, <4>6, SeqEqual
      <4> QED
        BY <4>4, <4>7 DEF rest
    <3>3. Append(at, l[n]) = SubSeq(l, 1, n)
      BY <1>2, <2>2
    <3>4. /\ l[n] # Up /\ SubSeq(l, 1, n) \in DOMAIN d /\ ~IsType(d, SubSeq(l, 1, n), "link")
          /\ IsType(d, at, "dir")
      BY <1>2, <2>2 DEF Standing
    <3> DEFINE x == w[n - 1]
    <3> HIDE DEF at, todo, x
    <3>5. /\ x = [end |-> "going", at |-> at, todo |-> todo, hops |-> 0]
          /\ w[n] = Onward(d, x)
      BY <2>1, <3>1 DEF x
    <3>6. ~Over(x) /\ NextEntry(x) = SubSeq(l, 1, n)
      BY <3>2, <3>3, <3>5 DEF Over, NextEntry
    <3>7. x.at = at /\ Head(x.todo) # Up
      BY <3>2, <3>4, <3>5
    <3>8. w[n] = Passed(x, SubSeq(l, 1, n))
      BY <3>4, <3>5, <3>6, <3>7 DEF Onward
    <3> DEFINE here == SubSeq(l, 1, n)
               rest == SubSeq(l, n + 1, Len(l))
    <3>9. w[n] = [end |-> "going", at |-> here, todo |-> rest, hops |-> 0]
      <4> HIDE DEF here, rest
      <4>1. w[n] = Passed(x, here) /\ Tail(todo) = rest
        BY <3>2, <3>8 DEF here, rest
      <4> QED
        BY <3>5, <4>1 DEF Passed
    <3> QED
      BY <2>2, <3>9
  <2>3. CASE ~(n <= Len(l))
    <3>1. w[n - 1] = part(Len(l))
      <4>1. CASE n - 1 = Len(l)
        BY <1>4, <4>1
      <4>2. CASE n - 1 # Len(l)
        BY <1>2, <1>4, <2>3, <4>2
      <4> QED
        BY <4>1, <4>2
    <3>2. SubSeq(l, Len(l) + 1, Len(l)) = <<>>
      BY <1>2
    <3>3. Over(w[n - 1])
      BY <3>1, <3>2 DEF Over
    <3> QED
      BY <2>1, <2>3, <3>1, <3>3 DEF Onward
  <2> QED
    BY <2>2, <2>3
<1> HIDE DEF S
<1>5. MaxNames \in S
  BY <1>3, <1>4, OneByOne
<1>6. w[MaxNames] = part(Len(l))
  <2>1. CASE MaxNames = Len(l)
    BY <1>5, <2>1 DEF S
  <2>2. CASE MaxNames # Len(l)
    BY <1>2, <1>5, <2>2 DEF S
  <2> QED
    BY <2>1, <2>2
<1>7. SubSeq(l, 1, Len(l)) = l /\ SubSeq(l, Len(l) + 1, Len(l)) = <<>>
  BY <1>2
<1> QED
  BY <1>1, <1>6, <1>7 DEF Walks, Reached

\* The name of an entry of such a directory is its location.
LEMMA NormalizedIsItself ==
  ASSUME NEW d, IsType(d, RootDir, "dir"), MaxNames \in Nat, NoValue \notin Paths,
         NEW l, Standing(d, l), Len(l) <= MaxNames, NEW x \in Seq(Parts), x # Up
  PROVE  NormalizeName(d, Append(l, x)) = {Append(l, x)}
<1>1. Lookup(d, l) = l /\ l \in Paths /\ l # NoValue
  BY LookupOfStanding DEF Standing
<1>2. /\ Append(l, x) # RootDir /\ Last(Append(l, x)) = x /\ Front(Append(l, x)) = l
  BY <1>1, AppendEnds
<1> QED
  BY <1>1, <1>2 DEF NormalizeName

\* What is missing is nowhere.
LEMMA MissingIsNowhere ==
  ASSUME NEW name, NEW d, IsType(d, RootDir, "dir"), MaxNames \in Nat, NEW p, Without(name, p),
         LinksWithout(name, d), Follow(d, p).end = "missing"
  PROVE  Follow(d, p).at \notin DOMAIN d /\ ~EndsIn(name, Follow(d, p).at)
<1>1. PICK w : Walks(d, p, w)
  BY LookupWalks
<1> DEFINE S == {n \in 0 .. MaxNames :
                   w[n].end = "missing" => w[n].at \notin DOMAIN d /\ ~EndsIn(name, w[n].at)}
<1>2. 0 \in S
  BY <1>1 DEF Walks, Begun
<1>3. ASSUME NEW n \in 1 .. MaxNames, n - 1 \in S PROVE n \in S
  <2> SUFFICES ASSUME w[n].end = "missing" PROVE w[n].at \notin DOMAIN d /\ ~EndsIn(name, w[n].at)
    OBVIOUS
  <2> DEFINE x == w[n - 1]
  <2>1. OnTheWay(name, x) /\ w[n] = Onward(d, x)
    BY <1>1, WalkOnTheWay DEF Walks
  <2>2. x.end = "missing" => x.at \notin DOMAIN d /\ ~EndsIn(name, x.at)
    BY <1>3
  <2> HIDE DEF x
  <2>3. CASE Over(x)
    BY <2>1, <2>2, <2>3 DEF Onward
  <2>4. CASE ~Over(x)
    <3>1. OnTheWay(name, Passed(x, NextEntry(x))) /\ OnTheWay(name, Passed(x, Above(x.at)))
      BY <2>1, <2>4, NextEntryIs, PassedOn
    <3>2. /\ Ended(x, "broken").end = "broken" /\ x.end = "going"
          /\ Ended(Passed(x, NextEntry(x)), "missing").at = NextEntry(x)
          /\ Passed(x, NextEntry(x)).end = "going" /\ Passed(x, Above(x.at)).end = "going"
      BY <2>1, <2>4, <3>1 DEF OnTheWay, Ended, Over, Passed
    <3>3. ASSUME NEW link PROVE Turned(x, link).end # "missing"
      BY <2>1, <3>2 DEF Turned, Ended, OnTheWay
    <3>4. w[n].at = NextEntry(x) /\ NextEntry(x) \notin DOMAIN d
      BY <2>1, <2>4, <3>2, <3>3 DEF Onward
    <3> QED
      BY <2>1, <2>4, <3>4, NextEntryIs
  <2> QED
    BY <2>3, <2>4
<1> HIDE DEF S
<1>4. MaxNames \in S
  BY <1>2, <1>3, OneByOne
<1> QED
  BY <1>1, <1>4 DEF S, Walks

-----------------------------------------------------------------------------
(***************************************************************************)
(* A command that writes: where its report and its stage are to be.        *)
(***************************************************************************)
USE OutputAssumption DEF OutputAssumption

StageOf(r) == StageName(r.dest)
Top(r) == Lookup(r.before, Front(r.dest))
Goal(r) == Append(Top(r), Last(r.dest))
StageLoc(r) == Append(Top(r), StageOf(r))
Endings == {"-wal", "-shm", "-journal"}

IsRun(r) ==
  /\ r = [step |-> r.step, command |-> r.command, inputs |-> r.inputs, dest |-> r.dest,
          before |-> r.before, kills |-> r.kills, others |-> r.others]
  /\ r.dest # RootDir /\ Without(StageOf(r), r.dest) /\ r.command \in {"coverage", "dedup"}
  /\ \A i \in r.inputs :
       Without(StageOf(r), i.path) /\ i.kind \in {"db", "archive", "dir"}
  /\ IsDisk(r.before) /\ LinksWithout(StageOf(r), r.before)

\* Where an input is read, once it is there.
Leads(r, i) ==
  {i.path} \union
  IF i.kind # "db" THEN {}
  ELSE {Sidecar(q, s) : q \in {i.path, Led(StageOf(r), r.before, i.path)} \ {NoValue}, s \in Endings}

\* What the gate has made sure of.
Barred(r) ==
  /\ Last(r.dest) # Up
  /\ r.command = "coverage" => \A i \in r.inputs :
       /\ i.kind # "dir" => \A p \in Leads(r, i) : Led(StageOf(r), r.before, p) # Goal(r)
       /\ i.kind = "dir" /\ Lookup(r.before, i.path) # NoValue =>
            ~IsPrefix(Lookup(r.before, i.path), Top(r))

Kept(d, r) ==
  \A l \in DOMAIN r.before :
    (Top(r) # NoValue /\ l = StageLoc(r)) \/ (l \in DOMAIN d /\ d[l] = r.before[l])
LinksOld(d, r) ==
  \A l \in DOMAIN d : d[l].type = "link" => l \in DOMAIN r.before /\ r.before[l] = d[l]
OursKnown(d, r) ==
  \A l \in DOMAIN d : d[l].ino = Ours =>
    /\ Top(r) # NoValue /\ Barred(r)
    /\ l = StageLoc(r) \/ (l = Goal(r) /\ d[l].bytes = "report")

\* How far the command is.
Writing == {"clear", "create", "write", "link", "unstage", "unstage to fail"}
HowFar(d, r) ==
  /\ r.step \in {"gate", "refused", "written", "failed"} \union Writing
  /\ r.step = "gate" /\ Top(r) = NoValue => d = r.before
  /\ r.step \in Writing => Top(r) # NoValue /\ Barred(r)
  /\ r.step \in {"write", "link"} =>
       /\ StageLoc(r) \in DOMAIN d
       /\ d[StageLoc(r)] = FileWith(Ours, IF r.step = "write" THEN "part" ELSE "report")

OutputInv ==
  /\ IsRun(outRun) /\ Kept(entries, outRun) /\ LinksOld(entries, outRun)
  /\ OursKnown(entries, outRun) /\ HowFar(entries, outRun)

LEMMA StageNameIs ==
  ASSUME NEW p \in Paths, p # RootDir
  PROVE  StageName(p) \in Seq(Parts) /\ StageName(p) # Up
<1>1. Last(p) \in Seq(Parts)
  BY DEF Paths, Last, RootDir
<1>2. <<".">> \o Last(p) \o <<".tmp">> \in Seq(Parts) /\ Len(<<".">> \o Last(p) \o <<".tmp">>) = Len(Last(p)) + 2
  <2>1. <<".">> \in Seq(Parts) /\ Len(<<".">>) = 1 /\ <<".tmp">> \in Seq(Parts) /\ Len(<<".tmp">>) = 1
    OBVIOUS
  <2>2. <<".">> \o Last(p) \in Seq(Parts) /\ Len(<<".">> \o Last(p)) = 1 + Len(Last(p))
    BY <1>1, <2>1, ConcatProperties
  <2>3. /\ <<".">> \o Last(p) \o <<".tmp">> \in Seq(Parts)
        /\ Len(<<".">> \o Last(p) \o <<".tmp">>) = 1 + Len(Last(p)) + 1
    BY <2>1, <2>2, ConcatProperties
  <2> QED
    BY <1>1, <2>3
<1>3. Len(Last(p)) \in Nat /\ Len(Up) = 1
  BY <1>1 DEF Up
<1> QED
  BY <1>2, <1>3 DEF StageName

LEMMA SidecarWithout ==
  ASSUME NEW dest \in Paths, dest # RootDir, NEW q, Without(StageName(dest), q), NEW s \in Endings
  PROVE  Without(StageName(dest), Sidecar(q, s))
<1> DEFINE x == IF q = RootDir THEN <<s>> ELSE Append(Last(q), s)
           before == IF q = RootDir THEN <<>> ELSE Last(q)
<1>1. Last(dest) \in Seq(Parts)
  BY DEF Paths, Last, RootDir
<1>2. before \in Seq(Parts)
  <2>1. CASE q = RootDir
    BY <2>1
  <2>2. CASE q # RootDir
    <3>1. Last(q) \in Seq(Parts)
      BY <2>2, ShorterWithout DEF RootDir
    <3> QED
      BY <2>2, <3>1
  <2> QED
    BY <2>1, <2>2
<1>3. s \in Parts /\ s # ".tmp"
  BY DEF Endings
<1>4. x = Append(before, s)
  <2>1. CASE q = RootDir
    <3>1. Append(<<>>, s) = <<s>>
      OBVIOUS
    <3> QED
      BY <2>1, <3>1
  <2>2. CASE q # RootDir
    BY <2>2
  <2> QED
    BY <2>1, <2>2
<1> HIDE DEF x, before
<1>5. x \in Seq(Parts) /\ x[Len(x)] = s
  BY <1>2, <1>3, <1>4
<1>6. StageName(dest)[Len(StageName(dest))] = ".tmp"
  <2> DEFINE first == <<".">> \o Last(dest)
  <2>1. first \in Seq(Parts)
    <3>1. <<".">> \in Seq(Parts)
      OBVIOUS
    <3> QED
      BY <1>1, <3>1, ConcatProperties
  <2>2. StageName(dest) = first \o <<".tmp">>
    BY DEF StageName
  <2> HIDE DEF first
  <2> QED
    BY <2>1, <2>2
<1>7. x # StageName(dest)
  BY <1>3, <1>5, <1>6
<1>8. Sidecar(q, s) = Append(Front(q), x)
  BY DEF Sidecar, x
<1>9. Without(StageName(dest), Front(q))
  BY ShorterWithout
<1>10. Without(StageName(dest), Append(Front(q), x))
  BY <1>5, <1>7, <1>9, LongerWithout
<1> QED
  BY <1>8, <1>10

LEMMA RunPlaces ==
  ASSUME NEW r, IsRun(r)
  PROVE  /\ r.dest \in Paths /\ StageOf(r) \in Seq(Parts) /\ StageOf(r) # Up
         /\ Front(StagePath(r.dest)) = Front(r.dest) /\ StagePath(r.dest) # RootDir
         /\ Last(StagePath(r.dest)) = StageOf(r)
         /\ Last(r.dest) \in Seq(Parts) /\ Last(r.dest) # StageOf(r)
         /\ Without(StageOf(r), Front(r.dest))
         /\ Top(r) # NoValue =>
              /\ Without(StageOf(r), Top(r)) /\ Top(r) \in Paths
              /\ Goal(r) \in Paths /\ Goal(r) # RootDir /\ StageLoc(r) \in Paths /\ StageLoc(r) # RootDir
              /\ Goal(r) # StageLoc(r) /\ EndsIn(StageOf(r), StageLoc(r)) /\ ~EndsIn(StageOf(r), Goal(r))
              /\ Above(StageLoc(r)) = Top(r) /\ Goal(r) # Top(r)
<1>1. r.dest \in Paths /\ r.dest # RootDir /\ Without(StageOf(r), r.dest)
  BY DEF IsRun, Without
<1>2. StageOf(r) \in Seq(Parts) /\ StageOf(r) # Up
  BY <1>1, StageNameIs DEF StageOf
<1>3. /\ Without(StageOf(r), Front(r.dest)) /\ Front(r.dest) \in Paths
      /\ Last(r.dest) \in Seq(Parts) /\ Last(r.dest) # StageOf(r)
  BY <1>1, ShorterWithout DEF RootDir, Without
<1>4. StagePath(r.dest) = Append(Front(r.dest), StageOf(r))
  BY DEF StagePath, StageOf
<1>5. /\ Front(StagePath(r.dest)) = Front(r.dest) /\ StagePath(r.dest) # RootDir
      /\ Last(StagePath(r.dest)) = StageOf(r)
  BY <1>2, <1>3, <1>4, AppendEnds
<1>6. ASSUME Top(r) # NoValue
      PROVE  /\ Without(StageOf(r), Top(r)) /\ Top(r) \in Paths
             /\ Goal(r) \in Paths /\ Goal(r) # RootDir /\ StageLoc(r) \in Paths /\ StageLoc(r) # RootDir
             /\ Goal(r) # StageLoc(r) /\ EndsIn(StageOf(r), StageLoc(r)) /\ ~EndsIn(StageOf(r), Goal(r))
             /\ Above(StageLoc(r)) = Top(r) /\ Goal(r) # Top(r)
  <2>1. Without(StageOf(r), Top(r)) /\ Top(r) \in Paths
    BY <1>3, <1>6, LookupWithout DEF Top, IsRun, Without
  <2>2. /\ Goal(r) \in Paths /\ Goal(r) # RootDir /\ Last(Goal(r)) = Last(r.dest)
        /\ StageLoc(r) \in Paths /\ StageLoc(r) # RootDir /\ Last(StageLoc(r)) = StageOf(r)
        /\ Front(StageLoc(r)) = Top(r) /\ Front(Goal(r)) = Top(r)
    BY <1>2, <1>3, <2>1, AppendEnds DEF Goal, StageLoc
  <2>3. Goal(r) # Top(r)
    <3>1. Len(Goal(r)) = Len(Top(r)) + 1 /\ Len(Top(r)) \in Nat
      BY <1>3, <2>1 DEF Goal, Paths
    <3> QED
      BY <3>1
  <2> QED
    BY <1>3, <2>1, <2>2, <2>3 DEF EndsIn, Above
<1> QED
  BY <1>1, <1>2, <1>3, <1>5, <1>6

\* What is so of the places while the command runs.
LEMMA PlacesNow ==
  ASSUME NEW r, IsRun(r), NEW d, Kept(d, r), LinksOld(d, r)
  PROVE  /\ KeptBut(StageOf(r), r.before, d) /\ LinksWithout(StageOf(r), d)
         /\ LinkedAlike(StageOf(r), d, r.before) /\ IsType(d, RootDir, "dir")
         /\ Top(r) # NoValue =>
              /\ Lookup(d, Front(r.dest)) = Top(r)
              /\ EntryAt(d, StagePath(r.dest)) = IF StageLoc(r) \in DOMAIN d THEN StageLoc(r) ELSE NoValue
              /\ Last(r.dest) # Up =>
                   EntryAt(d, r.dest) = IF Goal(r) \in DOMAIN d THEN Goal(r) ELSE NoValue
<1>1. KeptBut(StageOf(r), r.before, d)
  BY RunPlaces DEF Kept, KeptBut
<1>2. LinksWithout(StageOf(r), d)
  BY DEF LinksOld, LinksWithout, IsRun, IsType
<1>3. LinkedAlike(StageOf(r), d, r.before)
  BY <1>1 DEF LinksOld, LinkedAlike, KeptBut, IsType
<1>4. IsType(d, RootDir, "dir")
  BY <1>1 DEF KeptBut, EndsIn, IsRun, IsDisk, IsType
<1>5. ASSUME Top(r) # NoValue PROVE Lookup(d, Front(r.dest)) = Top(r)
  BY <1>1, <1>5, RunPlaces, LookupKept DEF Top, IsRun
<1>6. ASSUME Top(r) # NoValue
      PROVE  EntryAt(d, StagePath(r.dest)) = IF StageLoc(r) \in DOMAIN d THEN StageLoc(r) ELSE NoValue
  BY <1>5, <1>6, RunPlaces DEF EntryAt, StageLoc
<1>7. ASSUME Top(r) # NoValue, Last(r.dest) # Up
      PROVE  EntryAt(d, r.dest) = IF Goal(r) \in DOMAIN d THEN Goal(r) ELSE NoValue
  BY <1>5, <1>7 DEF EntryAt, Goal, IsRun
<1> QED
  BY <1>1, <1>2, <1>3, <1>4, <1>5, <1>6, <1>7

\* Together is at fault wherever one of them is.
LEMMA TogetherHas ==
  ASSUME NEW S, NEW s \in S
  PROVE  /\ Together(S).unresolved = (\E t \in S : t.unresolved)
         /\ s.names \subseteq Together(S).names /\ s.dirs \subseteq Together(S).dirs
BY DEF Together, Protects

\* A file that is protected as an input cannot lead to a name the gate lets through.
LEMMA InputFileBars ==
  ASSUME NEW name, NEW d, IsType(d, RootDir, "dir"), LinksWithout(name, d), NEW p, Without(name, p),
         NEW top, Standing(d, top), Len(top) <= MaxNames, NEW x \in Seq(Parts), x # Up,
         ~AddInputFile(d, p).unresolved, Append(top, x) \notin AddInputFile(d, p).names
  PROVE  /\ Lenient(d, p) = Led(name, d, p) /\ Led(name, d, p) # NoValue
         /\ Led(name, d, p) # Append(top, x)
<1>1. /\ AddInputFile(d, p).unresolved = (Lenient(d, p) = NoValue)
      /\ AddInputFile(d, p).names = UNION {NormalizeName(d, s) : s \in Spellings(d, p)}
  BY DEF AddInputFile, Protects
<1>2. Lenient(d, p) # NoValue /\ Lenient(d, p) = Led(name, d, p)
  BY <1>1, FoundIsLed
<1>3. Lenient(d, p) \in Spellings(d, p)
  BY <1>2 DEF Spellings
<1>4. NormalizeName(d, Append(top, x)) = {Append(top, x)}
  BY NormalizedIsItself
<1>5. Lenient(d, p) # Append(top, x)
  <2> SUFFICES ASSUME Lenient(d, p) = Append(top, x) PROVE FALSE
    OBVIOUS
  <2>1. Append(top, x) \in NormalizeName(d, Lenient(d, p))
    BY <1>4
  <2>2. NormalizeName(d, Lenient(d, p)) \subseteq AddInputFile(d, p).names
    <3> DEFINE all == Spellings(d, p)
               one == Lenient(d, p)
    <3> HIDE DEF all, one
    <3>1. one \in all /\ AddInputFile(d, p).names = UNION {NormalizeName(d, s) : s \in all}
      BY <1>1, <1>3 DEF all, one
    <3>2. NormalizeName(d, one) \subseteq UNION {NormalizeName(d, s) : s \in all}
      BY <3>1
    <3> QED
      BY <3>1, <3>2 DEF one
  <2> QED
    BY <2>1, <2>2
<1> QED
  BY <1>2, <1>5

LEMMA GateBars ==
  ASSUME NEW r, IsRun(r), NEW d, Kept(d, r), LinksOld(d, r), Top(r) # NoValue,
         CheckDest(d, Together({Protected(d, r.command, i) : i \in r.inputs}), r.dest)
  PROVE  Barred(r)
<1> DEFINE all == {Protected(d, r.command, i) : i \in r.inputs}
           set == Together(all)
           name == StageOf(r)
<1>1. /\ LinksWithout(name, d) /\ LinkedAlike(name, d, r.before) /\ IsType(d, RootDir, "dir")
      /\ Lookup(d, Front(r.dest)) = Top(r) /\ KeptBut(name, r.before, d)
  BY PlacesNow
<1>2. /\ Last(r.dest) # Up /\ ~set.unresolved /\ Goal(r) \notin set.names
      /\ \A root \in set.dirs : ~Beneath(Goal(r), root)
  BY <1>1 DEF CheckDest, Goal
<1>3. Standing(d, Top(r)) /\ Len(Top(r)) <= MaxNames
  BY <1>1, RunPlaces, LookupStands DEF Without
<1>4. Last(r.dest) \in Seq(Parts) /\ Goal(r) = Append(Top(r), Last(r.dest))
  BY RunPlaces DEF Goal
<1>5. \A p : Led(name, r.before, p) = Led(name, d, p)
  BY <1>1, OnlyLinksAlike DEF Led
<1>6. ASSUME NEW p, Without(name, p), ~AddInputFile(d, p).unresolved, Goal(r) \notin AddInputFile(d, p).names
      PROVE  /\ Lenient(d, p) = Led(name, d, p) /\ Led(name, d, p) # NoValue
             /\ Led(name, r.before, p) # Goal(r)
  BY <1>1, <1>2, <1>3, <1>4, <1>5, <1>6, InputFileBars
<1>7. ASSUME NEW i \in r.inputs, r.command = "coverage"
      PROVE  /\ i.kind # "dir" => \A p \in Leads(r, i) : Led(name, r.before, p) # Goal(r)
             /\ i.kind = "dir" /\ Lookup(r.before, i.path) # NoValue =>
                  ~IsPrefix(Lookup(r.before, i.path), Top(r))
  <2> DEFINE part == Protected(d, r.command, i)
  <2>1. part \in all
    OBVIOUS
  <2>2. ~part.unresolved /\ Goal(r) \notin part.names /\ \A root \in part.dirs : ~Beneath(Goal(r), root)
    <3> HIDE DEF part, all
    <3> QED
      BY <1>2, <2>1, TogetherHas
  <2>3. Without(name, i.path) /\ i.kind \in {"db", "archive", "dir"}
    BY DEF IsRun
  <2>4. CASE i.kind = "archive"
    <3>1. part = AddInputFile(d, i.path) /\ Leads(r, i) = {i.path}
      BY <1>7, <2>4 DEF Protected, Leads
    <3> QED
      BY <1>6, <2>2, <2>3, <2>4, <3>1
  <2>5. CASE i.kind = "db"
    <3> DEFINE names == Spellings(d, i.path)
               files == {AddInputFile(d, s) : s \in names}
               sidecars == {AddInputFile(d, Sidecar(s, x)) : s \in names, x \in {"-wal", "-shm", "-journal"}}
    <3>1. part = Together(files \union sidecars)
      BY <1>7, <2>5 DEF Protected, AddInputDb
    <3>2. ASSUME NEW s \in files \union sidecars PROVE ~s.unresolved /\ Goal(r) \notin s.names
      <4> HIDE DEF files, sidecars, part
      <4> QED
        BY <2>2, <3>1, TogetherHas
    <3>3. i.path \in names
      <4>1. i.path # NoValue
        BY <2>3 DEF Without
      <4> QED
        BY <4>1 DEF Spellings
    <3> HIDE DEF names
    <3>4. /\ Lenient(d, i.path) = Led(name, d, i.path) /\ Led(name, d, i.path) # NoValue
          /\ Led(name, r.before, i.path) # Goal(r)
      BY <1>6, <2>3, <3>2, <3>3
    <3>5. Led(name, r.before, i.path) \in names /\ Without(name, Led(name, r.before, i.path))
      <4>1. Lenient(d, i.path) \in names
        BY <3>4 DEF names, Spellings
      <4>2. Without(name, Lenient(d, i.path))
        BY <1>1, <2>3, <3>4, LookupWithout
      <4> QED
        BY <1>5, <3>4, <4>1, <4>2
    <3>6. ASSUME NEW q \in {i.path, Led(name, r.before, i.path)}, NEW x \in Endings
          PROVE  Led(name, r.before, Sidecar(q, x)) # Goal(r)
      <4>1. q \in names /\ Without(name, q)
        BY <2>3, <3>3, <3>5
      <4>2. Without(name, Sidecar(q, x))
        BY <4>1, SidecarWithout, RunPlaces DEF IsRun, StageOf
      <4>3. AddInputFile(d, Sidecar(q, x)) \in files \union sidecars
        BY <4>1 DEF Endings
      <4> QED
        BY <1>6, <3>2, <4>2, <4>3
    <3>7. Leads(r, i) \subseteq {i.path} \union {Sidecar(q, x) : q \in {i.path, Led(name, r.before, i.path)}, x \in Endings}
      BY DEF Leads
    <3> QED
      BY <2>5, <3>4, <3>6, <3>7
  <2>6. CASE i.kind = "dir"
    <3> SUFFICES ASSUME Lookup(r.before, i.path) # NoValue
                 PROVE  ~IsPrefix(Lookup(r.before, i.path), Top(r))
      BY <2>6
    <3> DEFINE root == Lookup(r.before, i.path)
    <3>1. Lookup(d, i.path) = root
      BY <1>1, <2>3, LookupKept DEF IsRun
    <3>2. part.dirs = {root}
      BY <1>7, <2>6, <3>1 DEF Protected, AddDirTree, Protects
    <3>3. ~IsPrefix(root, Goal(r))
      BY <2>2, <3>2 DEF Beneath
    <3>4. root \in Paths /\ Top(r) \in Paths
      BY <2>3, RunPlaces, LookupWithout DEF IsRun, Without
    <3> HIDE DEF root
    <3>5. ASSUME IsPrefix(root, Top(r)) PROVE IsPrefix(root, Goal(r))
      <4>1. Len(root) <= Len(Top(r)) /\ SubSeq(root, 1, Len(root)) = SubSeq(Top(r), 1, Len(root))
        BY <3>5 DEF IsPrefix
      <4>2. /\ Len(Goal(r)) = Len(Top(r)) + 1
            /\ SubSeq(Goal(r), 1, Len(root)) = SubSeq(Top(r), 1, Len(root))
        BY <1>4, <3>4, <4>1 DEF Paths
      <4>3. Len(root) \in Nat /\ Len(Top(r)) \in Nat
        BY <3>4 DEF Paths
      <4> QED
        BY <4>1, <4>2, <4>3 DEF IsPrefix
    <3> QED
      BY <3>3, <3>5 DEF root
  <2> QED
    BY <2>3, <2>4, <2>5, <2>6
<1> QED
  BY <1>2, <1>7 DEF Barred

-----------------------------------------------------------------------------
(***************************************************************************)
(* The steps.                                                              *)
(***************************************************************************)
SameBut(r, q) ==
  /\ q = [step |-> q.step, command |-> r.command, inputs |-> r.inputs, dest |-> r.dest,
          before |-> r.before, kills |-> q.kills, others |-> r.others]

LEMMA SameRun ==
  ASSUME NEW r, IsRun(r), NEW q, SameBut(r, q)
  PROVE  /\ IsRun(q) /\ Top(q) = Top(r) /\ Goal(q) = Goal(r) /\ StageLoc(q) = StageLoc(r)
         /\ Barred(r) => Barred(q)
         /\ \A d : /\ Kept(d, r) => Kept(d, q)
                   /\ LinksOld(d, r) => LinksOld(d, q)
                   /\ OursKnown(d, r) => OursKnown(d, q)
<1>1. /\ q.command = r.command /\ q.inputs = r.inputs /\ q.dest = r.dest /\ q.before = r.before
      /\ q = [step |-> q.step, command |-> q.command, inputs |-> q.inputs, dest |-> q.dest,
              before |-> q.before, kills |-> q.kills, others |-> q.others]
  BY DEF SameBut
<1>2. Top(q) = Top(r) /\ Goal(q) = Goal(r) /\ StageLoc(q) = StageLoc(r) /\ StageOf(q) = StageOf(r)
  BY <1>1 DEF Top, Goal, StageLoc, StageOf
<1>3. IsRun(q)
  BY <1>1, <1>2 DEF IsRun
<1>4. \A i : Leads(q, i) = Leads(r, i)
  BY <1>1, <1>2 DEF Leads
<1>5. Barred(r) => Barred(q)
  BY <1>1, <1>2, <1>4 DEF Barred
<1> QED
  BY <1>1, <1>2, <1>3, <1>5 DEF Kept, LinksOld, OursKnown

\* The stage goes.
LEMMA StageGone ==
  ASSUME NEW r, IsRun(r), Top(r) # NoValue, NEW d, Kept(d, r), LinksOld(d, r), OursKnown(d, r)
  PROVE  LET e == [l \in DOMAIN d \ {StageLoc(r)} |-> d[l]] IN
         Kept(e, r) /\ LinksOld(e, r) /\ OursKnown(e, r)
<1> DEFINE e == [l \in DOMAIN d \ {StageLoc(r)} |-> d[l]]
<1>1. DOMAIN e = DOMAIN d \ {StageLoc(r)} /\ \A l \in DOMAIN e : e[l] = d[l]
  OBVIOUS
<1> HIDE DEF e
<1>2. Kept(e, r) /\ LinksOld(e, r) /\ OursKnown(e, r)
  BY <1>1 DEF Kept, LinksOld, OursKnown
<1> QED
  BY <1>2 DEF e

\* Something is put where nothing was, or in the place of the stage.
LEMMA PutThere ==
  ASSUME NEW r, IsRun(r), NEW d, Kept(d, r), LinksOld(d, r), OursKnown(d, r),
         NEW loc, loc \notin DOMAIN r.before \/ (Top(r) # NoValue /\ loc = StageLoc(r)),
         NEW entry, entry.type # "link",
         entry.ino = Ours =>
           /\ Top(r) # NoValue /\ Barred(r)
           /\ loc = StageLoc(r) \/ (loc = Goal(r) /\ entry.bytes = "report")
  PROVE  /\ Kept(With(d, loc, entry), r) /\ LinksOld(With(d, loc, entry), r)
         /\ OursKnown(With(d, loc, entry), r)
<1> DEFINE e == With(d, loc, entry)
<1>1. /\ DOMAIN e = DOMAIN d \union {loc} /\ e[loc] = entry
      /\ \A l \in DOMAIN d : l # loc => e[l] = d[l]
  BY DEF With
<1> HIDE DEF e
<1>2. Kept(e, r)
  BY <1>1 DEF Kept
<1>3. LinksOld(e, r)
  <2> SUFFICES ASSUME NEW l \in DOMAIN e, e[l].type = "link" PROVE l \in DOMAIN r.before /\ r.before[l] = e[l]
    BY DEF LinksOld
  <2>1. l \in DOMAIN d /\ e[l] = d[l]
    BY <1>1
  <2> QED
    BY <2>1 DEF LinksOld
<1>4. OursKnown(e, r)
  <2> SUFFICES ASSUME NEW l \in DOMAIN e, e[l].ino = Ours
               PROVE  /\ Top(r) # NoValue /\ Barred(r)
                      /\ l = StageLoc(r) \/ (l = Goal(r) /\ e[l].bytes = "report")
    BY DEF OursKnown
  <2>1. CASE l = loc
    BY <1>1, <2>1
  <2>2. CASE l # loc
    BY <1>1, <2>2 DEF OursKnown
  <2> QED
    BY <2>1, <2>2
<1> QED
  BY <1>2, <1>3, <1>4 DEF e

\* A file of another program, under the name of the report, keeps none of its
\* inputs from leading where it led.
LEMMA TakenBars ==
  ASSUME NEW r, IsRun(r), Top(r) # NoValue, Barred(r), Goal(r) \notin DOMAIN r.before,
         NEW q, q = [r EXCEPT !.others = @ - 1, !.before = With(@, Goal(r), FileWith(Others, "other"))]
  PROVE  /\ IsRun(q) /\ Top(q) = Top(r) /\ Goal(q) = Goal(r) /\ StageLoc(q) = StageLoc(r) /\ Barred(q)
<1> DEFINE b == r.before
           e == With(b, Goal(r), FileWith(Others, "other"))
           name == StageOf(r)
<1>1. /\ q = [step |-> r.step, command |-> r.command, inputs |-> r.inputs, dest |-> r.dest,
              before |-> e, kills |-> r.kills, others |-> r.others - 1]
  BY DEF IsRun
<1>2. /\ q.step = r.step /\ q.command = r.command /\ q.inputs = r.inputs /\ q.dest = r.dest
      /\ q.before = e /\ q.kills = r.kills /\ q.others = r.others - 1
  BY <1>1
<1>3. /\ DOMAIN e = DOMAIN b \union {Goal(r)} /\ e[Goal(r)] = FileWith(Others, "other")
      /\ \A l \in DOMAIN b : e[l] = b[l]
  BY DEF With
<1>4. Goal(r) \in Paths /\ Goal(r) # RootDir
  BY RunPlaces
<1>5. FileWith(Others, "other").type = "file" /\ FileWith(Others, "other").ino # Ours
  BY DEF FileWith, Others, Ours
<1> HIDE DEF e, b
<1>6. IsDisk(b) /\ LinksWithout(name, b)
  BY DEF IsRun, b
<1>7. IsDisk(e)
  <2>1. IsType(e, RootDir, "dir")
    BY <1>3, <1>6 DEF IsDisk, IsType
  <2>2. DOMAIN e \subseteq Paths
    BY <1>3, <1>4, <1>6 DEF IsDisk
  <2>3. ASSUME NEW l \in DOMAIN e PROVE e[l].ino # Ours /\ (e[l].type = "link" => e[l].to \in Paths)
    BY <1>3, <1>5, <1>6 DEF IsDisk
  <2> QED
    BY <2>1, <2>2, <2>3 DEF IsDisk
<1>8. LinkedAlike(name, e, b)
  BY <1>3, <1>5 DEF LinkedAlike, IsType
<1>9. LinksWithout(name, e)
  BY <1>3, <1>5, <1>6 DEF LinksWithout, IsType
<1>10. KeptBut(name, b, e)
  BY <1>3 DEF KeptBut
<1>11. StageOf(q) = name
  BY <1>2 DEF StageOf
<1>12. IsRun(q)
  BY <1>1, <1>2, <1>7, <1>9, <1>11 DEF IsRun
<1>13. Top(q) = Top(r)
  BY <1>2, <1>6, <1>10, LookupKept, RunPlaces DEF Top, b
<1>14. Goal(q) = Goal(r) /\ StageLoc(q) = StageLoc(r)
  BY <1>2, <1>11, <1>13 DEF Goal, StageLoc
<1>15. \A p : Led(name, e, p) = Led(name, b, p)
  BY <1>8, OnlyLinksAlike DEF Led
<1>16. \A i : Leads(q, i) = Leads(r, i)
  BY <1>2, <1>11, <1>15 DEF Leads, b
<1>17. ASSUME NEW i \in r.inputs, i.kind = "dir", r.command = "coverage", Lookup(e, i.path) # NoValue
       PROVE  ~IsPrefix(Lookup(e, i.path), Top(r))
  <2>1. Without(name, i.path) /\ i.path \in Paths
    BY DEF IsRun, Without
  <2>2. Lookup(e, i.path) \in {Goal(r), Lookup(b, i.path)}
    BY <1>3, <1>5, <1>6, <1>17, <2>1, LookupPastNewFile DEF b, e
  <2>3. CASE Lookup(e, i.path) = Goal(r)
    <3>1. Len(Goal(r)) = Len(Top(r)) + 1 /\ Len(Top(r)) \in Nat
      BY RunPlaces DEF Goal, Paths
    <3> QED
      BY <2>3, <3>1 DEF IsPrefix
  <2>4. CASE Lookup(e, i.path) = Lookup(b, i.path)
    BY <1>17, <2>4 DEF Barred, b
  <2> QED
    BY <2>2, <2>3, <2>4
<1>18. Barred(q)
  BY <1>2, <1>11, <1>13, <1>14, <1>15, <1>16, <1>17 DEF Barred, b
<1> QED
  BY <1>12, <1>13, <1>14, <1>18

LEMMA OutputStarts == OutputInit => OutputInv
<1> SUFFICES ASSUME OutputInit PROVE OutputInv
  OBVIOUS
<1>1. PICK n \in DOMAIN Outputs :
        \E d \in Outputs[n].disks, command \in Outputs[n].commands,
           inputs \in Outputs[n].inputs, dest \in Outputs[n].dests :
          /\ entries = d
          /\ outRun = [step |-> "gate", command |-> command, inputs |-> inputs, dest |-> dest,
                       before |-> d, kills |-> Outputs[n].kills, others |-> Outputs[n].others]
  BY DEF OutputInit
<1> DEFINE o == Outputs[n]
<1>2. PICK d \in o.disks, command \in o.commands, inputs \in o.inputs, dest \in o.dests :
        /\ entries = d
        /\ outRun = [step |-> "gate", command |-> command, inputs |-> inputs, dest |-> dest,
                     before |-> d, kills |-> o.kills, others |-> o.others]
  BY <1>1
<1>3. /\ outRun.step = "gate" /\ outRun.command = command /\ outRun.inputs = inputs
      /\ outRun.dest = dest /\ outRun.before = d /\ outRun.kills = o.kills /\ outRun.others = o.others
  BY <1>2
<1>4. /\ o.commands \subseteq {"coverage", "dedup"}
      /\ o.dests \subseteq Paths \ {RootDir} /\ IsDisk(d)
      /\ \A i \in UNION o.inputs :
           i.kind \in {"db", "archive", "dir"} /\ i.path \in Paths
      /\ \A path \in {dest} \union {i.path : i \in UNION o.inputs} \union LinkTargets(d) :
           StageName(dest) \notin ToSet(path)
  OBVIOUS
<1> HIDE DEF o
<1>5. StageOf(outRun) = StageName(dest)
  BY <1>3 DEF StageOf
<1>6. Without(StageName(dest), dest) /\ dest # RootDir
  BY <1>2, <1>4 DEF Without
<1>7. ASSUME NEW i \in inputs
      PROVE  Without(StageName(dest), i.path) /\ i.kind \in {"db", "archive", "dir"}
  <2>1. i \in UNION o.inputs
    BY <1>2
  <2>2. i.path \in {k.path : k \in UNION o.inputs}
    BY <2>1
  <2> QED
    BY <1>2, <1>4, <2>1, <2>2 DEF Without
<1>8. LinksWithout(StageName(dest), d)
  <2> SUFFICES ASSUME NEW l \in DOMAIN d, d[l].type = "link"
               PROVE  Without(StageName(dest), d[l].to)
    BY DEF LinksWithout, IsType
  <2>1. d[l].to \in LinkTargets(d)
    BY DEF LinkTargets
  <2> QED
    BY <1>4, <2>1 DEF Without, IsDisk
<1>9. IsRun(outRun)
  BY <1>2, <1>3, <1>4, <1>5, <1>6, <1>7, <1>8 DEF IsRun
<1>10. Kept(entries, outRun) /\ LinksOld(entries, outRun)
  BY <1>2, <1>3 DEF Kept, LinksOld
<1>11. OursKnown(entries, outRun)
  BY <1>2, <1>4 DEF OursKnown, IsDisk
<1>12. HowFar(entries, outRun)
  BY <1>2, <1>3 DEF HowFar, Writing
<1> QED
  BY <1>9, <1>10, <1>11, <1>12 DEF OutputInv

\* What a step needs that goes on without changing more of the command.
LEMMA GoesOn ==
  ASSUME OutputInv, NEW q, SameBut(outRun, q), NEW e,
         Kept(e, outRun), LinksOld(e, outRun), OursKnown(e, outRun),
         q.step \in {"gate", "refused", "written", "failed"} \union Writing,
         q.step = "gate" /\ Top(outRun) = NoValue => e = outRun.before,
         q.step \in Writing => Top(outRun) # NoValue /\ Barred(outRun),
         q.step \in {"write", "link"} =>
           /\ StageLoc(outRun) \in DOMAIN e
           /\ e[StageLoc(outRun)] = FileWith(Ours, IF q.step = "write" THEN "part" ELSE "report")
  PROVE  IsRun(q) /\ Kept(e, q) /\ LinksOld(e, q) /\ OursKnown(e, q) /\ HowFar(e, q)
<1>1. /\ IsRun(q) /\ Top(q) = Top(outRun) /\ StageLoc(q) = StageLoc(outRun)
      /\ Barred(outRun) => Barred(q)
      /\ Kept(e, q) /\ LinksOld(e, q) /\ OursKnown(e, q)
  BY SameRun DEF OutputInv
<1>2. q.before = outRun.before
  BY DEF SameBut
<1> QED
  BY <1>1, <1>2 DEF HowFar

LEMMA GoesIsSame ==
  ASSUME IsRun(outRun), NEW step, OutGoes(step)
  PROVE  SameBut(outRun, outRun') /\ outRun'.step = step
<1>1. outRun = [step |-> outRun.step, command |-> outRun.command, inputs |-> outRun.inputs,
                dest |-> outRun.dest, before |-> outRun.before, kills |-> outRun.kills,
                others |-> outRun.others]
  BY DEF IsRun
<1>2. outRun' = [step |-> step, command |-> outRun.command, inputs |-> outRun.inputs,
                 dest |-> outRun.dest, before |-> outRun.before, kills |-> outRun.kills,
                 others |-> outRun.others]
  BY <1>1 DEF OutGoes
<1>3. /\ outRun'.step = step /\ outRun'.kills = outRun.kills /\ outRun'.others = outRun.others
  BY <1>2
<1> QED
  BY <1>2, <1>3 DEF SameBut

\* Where the stage is, while the command is at work.
LEMMA StagedNow ==
  ASSUME OutputInv, outRun.step \in Writing
  PROVE  /\ Top(outRun) # NoValue /\ Barred(outRun)
         /\ Staged = IF StageLoc(outRun) \in DOMAIN entries THEN StageLoc(outRun) ELSE NoValue
         /\ NoValue \notin Paths /\ StageLoc(outRun) \in Paths
         /\ Lookup(entries, Front(outRun.dest)) = Top(outRun)
         /\ EntryAt(entries, outRun.dest) =
              IF Goal(outRun) \in DOMAIN entries THEN Goal(outRun) ELSE NoValue
<1>1. Top(outRun) # NoValue /\ Barred(outRun)
  BY DEF OutputInv, HowFar
<1>2. Last(outRun.dest) # Up
  BY <1>1 DEF Barred
<1> QED
  BY <1>1, <1>2, PlacesNow, RunPlaces DEF OutputInv, Staged

LEMMA StepGate == OutputInv /\ Gate => OutputInv'
<1> SUFFICES ASSUME OutputInv, Gate PROVE OutputInv'
  OBVIOUS
<1> USE DEF OutputInv
<1>1. outRun.step = "gate" /\ entries' = entries
  BY DEF Gate, OutAt
<1> DEFINE ok == CheckDest(entries, Together({Protected(entries, outRun.command, i) : i \in outRun.inputs}),
                           outRun.dest)
<1>2. (ok /\ OutGoes("clear")) \/ OutGoes("refused")
  BY DEF Gate
<1>3. CASE OutGoes("refused")
  <2>1. SameBut(outRun, outRun') /\ outRun'.step = "refused"
    BY <1>3, GoesIsSame
  <2> QED
    BY <1>1, <2>1, GoesOn DEF Writing
<1>4. CASE ok /\ OutGoes("clear")
  <2>1. SameBut(outRun, outRun') /\ outRun'.step = "clear"
    BY <1>4, GoesIsSame
  <2>2. Top(outRun) # NoValue
    <3> SUFFICES ASSUME Top(outRun) = NoValue PROVE FALSE
      OBVIOUS
    <3>1. entries = outRun.before
      BY <1>1 DEF HowFar
    <3>2. Lookup(entries, Front(outRun.dest)) = NoValue
      BY <3>1 DEF Top
    <3> QED
      BY <1>4, <3>2 DEF CheckDest
  <2>3. Barred(outRun)
    BY <1>4, <2>2, GateBars
  <2> QED
    BY <1>1, <2>1, <2>2, <2>3, GoesOn DEF Writing
<1> QED
  BY <1>2, <1>3, <1>4

\* The stage is removed, or is not there.
LEMMA StepAway ==
  ASSUME OutputInv, outRun.step \in Writing, NEW step \in {"create", "written", "failed"}, OutGoes(step),
         IF Staged # NoValue /\ ~IsType(entries, Staged, "dir") THEN Unlink(Staged) ELSE UNCHANGED entries
  PROVE  OutputInv'
<1> USE DEF OutputInv
<1>1. SameBut(outRun, outRun') /\ outRun'.step = step
  BY GoesIsSame
<1>2. Kept(entries', outRun) /\ LinksOld(entries', outRun) /\ OursKnown(entries', outRun)
  <2>1. CASE entries' = entries
    BY <2>1
  <2>2. CASE Staged # NoValue /\ Unlink(Staged)
    <3>1. Staged = StageLoc(outRun) /\ Top(outRun) # NoValue
      BY <2>2, StagedNow
    <3>2. entries' = [l \in DOMAIN entries \ {StageLoc(outRun)} |-> entries[l]]
      BY <2>2, <3>1 DEF Unlink
    <3> QED
      BY <3>1, <3>2, StageGone
  <2> QED
    BY <2>1, <2>2
<1>3. Top(outRun) # NoValue /\ Barred(outRun)
  BY StagedNow
<1> QED
  BY <1>1, <1>2, <1>3, GoesOn DEF Writing

LEMMA StepClear == OutputInv /\ ClearStage => OutputInv'
BY StepAway DEF ClearStage, OutAt, Writing

LEMMA StepUnstage == OutputInv /\ Unstage => OutputInv'
<1> SUFFICES ASSUME OutputInv, NEW end \in {"written", "failed"},
                    OutAt(IF end = "written" THEN "unstage" ELSE "unstage to fail"), OutGoes(end),
                    IF Staged # NoValue /\ ~IsType(entries, Staged, "dir") THEN Unlink(Staged)
                    ELSE UNCHANGED entries
             PROVE  OutputInv'
  BY DEF Unstage
<1>1. outRun.step \in Writing
  BY DEF OutAt, Writing
<1> QED
  BY <1>1, StepAway

LEMMA StepCreate == OutputInv /\ CreateStage => OutputInv'
<1> SUFFICES ASSUME OutputInv, CreateStage PROVE OutputInv'
  OBVIOUS
<1> USE DEF OutputInv
<1> DEFINE dir == Lookup(entries, Front(outRun.dest))
           new == Create(Append(dir, Last(StagePath(outRun.dest))), FileWith(Ours, "part"))
<1>1. outRun.step \in Writing
  BY DEF CreateStage, OutAt, Writing
<1>2. /\ Top(outRun) # NoValue /\ Barred(outRun) /\ dir = Top(outRun)
  BY <1>1, StagedNow
<1>3. (new /\ OutGoes("write")) \/ (OutGoes("unstage to fail") /\ entries' = entries)
  BY DEF CreateStage
<1>4. CASE new /\ OutGoes("write")
  <2>1. SameBut(outRun, outRun') /\ outRun'.step = "write"
    BY <1>4, GoesIsSame
  <2>2. entries' = With(entries, StageLoc(outRun), FileWith(Ours, "part"))
    BY <1>2, <1>4, RunPlaces DEF Create, StageLoc
  <2>3. FileWith(Ours, "part").type # "link"
    BY DEF FileWith
  <2>4. Kept(entries', outRun) /\ LinksOld(entries', outRun) /\ OursKnown(entries', outRun)
    BY <1>2, <2>2, <2>3, PutThere
  <2>5. StageLoc(outRun) \in DOMAIN entries' /\ entries'[StageLoc(outRun)] = FileWith(Ours, "part")
    BY <2>2 DEF With
  <2> QED
    BY <1>2, <2>1, <2>4, <2>5, GoesOn DEF Writing
<1>5. CASE OutGoes("unstage to fail") /\ entries' = entries
  <2>1. SameBut(outRun, outRun') /\ outRun'.step = "unstage to fail"
    BY <1>5, GoesIsSame
  <2> QED
    BY <1>2, <1>5, <2>1, GoesOn DEF Writing
<1> QED
  BY <1>3, <1>4, <1>5

LEMMA StepWrite == OutputInv /\ WriteStage => OutputInv'
<1> SUFFICES ASSUME OutputInv, WriteStage PROVE OutputInv'
  OBVIOUS
<1> USE DEF OutputInv
<1>1. outRun.step = "write" /\ outRun.step \in Writing
  BY DEF WriteStage, OutAt, Writing
<1>2. Top(outRun) # NoValue /\ Barred(outRun)
  BY <1>1, StagedNow
<1>3. \/ OutGoes("link") /\ entries' = [entries EXCEPT ![Staged].bytes = "report"]
      \/ OutGoes("unstage to fail") /\ entries' = entries
  BY DEF WriteStage
<1>4. CASE OutGoes("link") /\ entries' = [entries EXCEPT ![Staged].bytes = "report"]
  <2>1. SameBut(outRun, outRun') /\ outRun'.step = "link"
    BY <1>4, GoesIsSame
  <2>2. /\ StageLoc(outRun) \in DOMAIN entries /\ Staged = StageLoc(outRun)
        /\ entries[StageLoc(outRun)] = FileWith(Ours, "part")
    BY <1>1, StagedNow DEF HowFar
  <2>3. [FileWith(Ours, "part") EXCEPT !.bytes = "report"] = FileWith(Ours, "report")
    BY DEF FileWith
  <2>4. entries' = With(entries, StageLoc(outRun), FileWith(Ours, "report"))
    <3> DEFINE loc == StageLoc(outRun)
               x == FileWith(Ours, "part")
               y == FileWith(Ours, "report")
    <3> HIDE DEF loc, x, y
    <3>1. loc \in DOMAIN entries /\ entries[loc] = x /\ [x EXCEPT !.bytes = "report"] = y
      BY <2>2, <2>3 DEF loc, x, y
    <3>2. [entries EXCEPT ![loc].bytes = "report"] =
            [l \in DOMAIN entries |-> IF l = loc THEN [entries[loc] EXCEPT !.bytes = "report"] ELSE entries[l]]
      OBVIOUS
    <3>3. DOMAIN entries \union {loc} = DOMAIN entries
      BY <3>1
    <3>4. entries' = With(entries, loc, y)
      BY <1>4, <2>2, <3>1, <3>2, <3>3 DEF With, loc
    <3> QED
      BY <3>4 DEF loc, y
  <2>5. FileWith(Ours, "report").type # "link"
    BY DEF FileWith
  <2>6. Kept(entries', outRun) /\ LinksOld(entries', outRun) /\ OursKnown(entries', outRun)
    BY <1>2, <2>4, <2>5, PutThere
  <2>7. StageLoc(outRun) \in DOMAIN entries' /\ entries'[StageLoc(outRun)] = FileWith(Ours, "report")
    BY <2>4 DEF With
  <2> QED
    BY <1>2, <2>1, <2>6, <2>7, GoesOn DEF Writing
<1>5. CASE OutGoes("unstage to fail") /\ entries' = entries
  <2>1. SameBut(outRun, outRun') /\ outRun'.step = "unstage to fail"
    BY <1>5, GoesIsSame
  <2> QED
    BY <1>2, <1>5, <2>1, GoesOn DEF Writing
<1> QED
  BY <1>3, <1>4, <1>5

LEMMA StepLink == OutputInv /\ LinkOutput => OutputInv'
<1> SUFFICES ASSUME OutputInv, LinkOutput PROVE OutputInv'
  OBVIOUS
<1> USE DEF OutputInv
<1> DEFINE loc == Append(Above(Staged), Last(outRun.dest))
<1>1. outRun.step = "link" /\ outRun.step \in Writing
  BY DEF LinkOutput, OutAt, Writing
<1>2. Top(outRun) # NoValue /\ Barred(outRun)
  BY <1>1, StagedNow
<1>3. /\ StageLoc(outRun) \in DOMAIN entries /\ Staged = StageLoc(outRun)
      /\ entries[StageLoc(outRun)] = FileWith(Ours, "report")
  BY <1>1, StagedNow DEF HowFar
<1>4. loc = Goal(outRun) /\ Goal(outRun) # StageLoc(outRun)
  BY <1>2, <1>3, RunPlaces DEF Goal
<1>5. \/ OutGoes("unstage to fail") /\ entries' = entries
      \/ loc \notin DOMAIN entries /\ OutGoes("unstage") /\ Create(loc, entries[Staged])
  BY DEF LinkOutput
<1>6. CASE loc \notin DOMAIN entries /\ OutGoes("unstage") /\ Create(loc, entries[Staged])
  <2>1. SameBut(outRun, outRun') /\ outRun'.step = "unstage"
    BY <1>6, GoesIsSame
  <2>2. entries' = With(entries, Goal(outRun), FileWith(Ours, "report"))
    BY <1>3, <1>4, <1>6 DEF Create
  <2>3. FileWith(Ours, "report").type # "link" /\ FileWith(Ours, "report").bytes = "report"
    BY DEF FileWith
  <2>4. Goal(outRun) \notin DOMAIN outRun.before
    BY <1>4, <1>6 DEF Kept
  <2>5. Kept(entries', outRun) /\ LinksOld(entries', outRun) /\ OursKnown(entries', outRun)
    BY <1>2, <2>2, <2>3, <2>4, PutThere
  <2> QED
    BY <1>2, <2>1, <2>5, GoesOn DEF Writing
<1>7. CASE OutGoes("unstage to fail") /\ entries' = entries
  <2>1. SameBut(outRun, outRun') /\ outRun'.step = "unstage to fail"
    BY <1>7, GoesIsSame
  <2> QED
    BY <1>2, <1>7, <2>1, GoesOn DEF Writing
<1> QED
  BY <1>5, <1>6, <1>7

LEMMA StepKilled == OutputInv /\ KilledWriting => OutputInv'
<1> SUFFICES ASSUME OutputInv, KilledWriting PROVE OutputInv'
  OBVIOUS
<1> USE DEF OutputInv
<1>1. /\ outRun' = [outRun EXCEPT !.step = "gate", !.kills = @ - 1] /\ entries' = entries
      /\ outRun.step \notin {"none", "refused", "written", "failed"}
  BY DEF KilledWriting, OutEnded
<1>2. outRun = [step |-> outRun.step, command |-> outRun.command, inputs |-> outRun.inputs,
                dest |-> outRun.dest, before |-> outRun.before, kills |-> outRun.kills,
                others |-> outRun.others]
  BY DEF IsRun
<1>3. outRun' = [step |-> "gate", command |-> outRun.command, inputs |-> outRun.inputs,
                 dest |-> outRun.dest, before |-> outRun.before, kills |-> outRun.kills - 1,
                 others |-> outRun.others]
  BY <1>1, <1>2
<1>4. SameBut(outRun, outRun') /\ outRun'.step = "gate"
  BY <1>3 DEF SameBut
<1>5. Top(outRun) = NoValue => entries = outRun.before
  BY <1>1 DEF HowFar, Writing
<1> QED
  BY <1>1, <1>4, <1>5, GoesOn DEF Writing

LEMMA StepTaken == OutputInv /\ NameTaken => OutputInv'
<1> SUFFICES ASSUME OutputInv, NameTaken PROVE OutputInv'
  OBVIOUS
<1> USE DEF OutputInv
<1> DEFINE file == FileWith(Others, "other")
           goal == Goal(outRun)
           b == outRun.before
<1>1. outRun.step \in Writing /\ outRun.step \in {"clear", "create", "write", "link"}
  BY DEF NameTaken, Writing
<1>2. /\ Top(outRun) # NoValue /\ Barred(outRun) /\ NoValue \notin Paths
      /\ Lookup(entries, Front(outRun.dest)) = Top(outRun)
      /\ EntryAt(entries, outRun.dest) = IF goal \in DOMAIN entries THEN goal ELSE NoValue
  BY <1>1, StagedNow
<1>3. /\ goal \in Paths /\ goal # StageLoc(outRun)
  BY <1>2, RunPlaces
<1>4. goal \notin DOMAIN entries
  BY <1>2, <1>3 DEF NameTaken
<1>5. goal \notin DOMAIN b
  BY <1>3, <1>4 DEF Kept
<1>6. /\ entries' = With(entries, goal, file)
      /\ outRun' = [outRun EXCEPT !.others = @ - 1, !.before = With(@, goal, file)]
  BY <1>2 DEF NameTaken, Goal
<1>7. /\ IsRun(outRun') /\ Top(outRun') = Top(outRun) /\ Goal(outRun') = goal
      /\ StageLoc(outRun') = StageLoc(outRun) /\ Barred(outRun')
  BY <1>2, <1>5, <1>6, TakenBars
<1>8. outRun' = [step |-> outRun.step, command |-> outRun.command, inputs |-> outRun.inputs,
                 dest |-> outRun.dest, before |-> With(b, goal, file), kills |-> outRun.kills,
                 others |-> outRun.others - 1]
  <2> DEFINE r == outRun
  <2>1. r = [step |-> r.step, command |-> r.command, inputs |-> r.inputs, dest |-> r.dest,
             before |-> r.before, kills |-> r.kills, others |-> r.others]
    BY DEF IsRun
  <2> QED
    BY <1>6, <2>1
<1>9. outRun'.step = outRun.step /\ outRun'.before = With(b, goal, file)
  BY <1>8
<1>10. file.type = "file" /\ file.ino # Ours
  BY DEF FileWith, Others, Ours
<1>11. /\ DOMAIN entries' = DOMAIN entries \union {goal} /\ entries'[goal] = file
       /\ \A l \in DOMAIN entries : entries'[l] = entries[l]
  BY <1>4, <1>6 DEF With
<1>12. /\ DOMAIN outRun'.before = DOMAIN b \union {goal} /\ outRun'.before[goal] = file
       /\ \A l \in DOMAIN b : outRun'.before[l] = b[l]
  BY <1>5, <1>9 DEF With
<1> HIDE DEF file, goal, b
<1>13. Kept(entries', outRun')
  BY <1>7, <1>11, <1>12 DEF Kept, b
<1>14. LinksOld(entries', outRun')
  <2> SUFFICES ASSUME NEW l \in DOMAIN entries', entries'[l].type = "link"
               PROVE  l \in DOMAIN outRun'.before /\ outRun'.before[l] = entries'[l]
    BY DEF LinksOld
  <2>1. l \in DOMAIN entries /\ entries'[l] = entries[l]
    BY <1>10, <1>11
  <2> QED
    BY <1>12, <2>1 DEF LinksOld, b
<1>15. OursKnown(entries', outRun')
  <2> SUFFICES ASSUME NEW l \in DOMAIN entries', entries'[l].ino = Ours
               PROVE  /\ Top(outRun') # NoValue /\ Barred(outRun')
                      /\ l = StageLoc(outRun') \/ (l = Goal(outRun') /\ entries'[l].bytes = "report")
    BY DEF OursKnown
  <2>1. l \in DOMAIN entries /\ entries'[l] = entries[l]
    BY <1>10, <1>11
  <2> QED
    BY <1>7, <2>1 DEF OursKnown, goal
<1>16. HowFar(entries', outRun')
  BY <1>1, <1>2, <1>7, <1>9, <1>11 DEF HowFar, Writing
<1> QED
  BY <1>7, <1>13, <1>14, <1>15, <1>16

LEMMA StepRestore == OutputInv /\ Restore => OutputInv'
<1> SUFFICES ASSUME OutputInv, Restore PROVE OutputInv'
  OBVIOUS
<1> USE DEF OutputInv
<1>1. PICK i \in outRun.inputs :
        LET w == Follow(entries, i.path) IN
        /\ OutEnded /\ w.end = "missing"
        /\ Create(w.at, IF w.todo = <<>> /\ i.kind # "dir" THEN FileWith(Restored, "restored")
                        ELSE [type |-> "dir", ino |-> Restored])
        /\ UNCHANGED outRun
  BY DEF Restore
<1> DEFINE loc == Follow(entries, i.path).at
           new == IF Follow(entries, i.path).todo = <<>> /\ i.kind # "dir"
                  THEN FileWith(Restored, "restored") ELSE [type |-> "dir", ino |-> Restored]
<1>2. /\ outRun.step \in {"none", "refused", "written", "failed"} /\ outRun' = outRun
      /\ entries' = With(entries, loc, new) /\ Follow(entries, i.path).end = "missing"
  BY <1>1 DEF OutEnded, Create
<1>3. loc \notin DOMAIN entries /\ ~EndsIn(StageOf(outRun), loc)
  <2>1. /\ LinksWithout(StageOf(outRun), entries) /\ IsType(entries, RootDir, "dir")
        /\ Without(StageOf(outRun), i.path)
    BY PlacesNow DEF IsRun
  <2> QED
    BY <1>2, <2>1, MissingIsNowhere
<1>4. loc \notin DOMAIN outRun.before
  BY <1>3, RunPlaces DEF Kept
<1>5. new.type # "link" /\ new.ino # Ours
  BY DEF FileWith, Restored, Ours
<1> HIDE DEF loc, new
<1>6. Kept(entries', outRun) /\ LinksOld(entries', outRun) /\ OursKnown(entries', outRun)
  BY <1>2, <1>4, <1>5, PutThere
<1>7. HowFar(entries', outRun)
  BY <1>2 DEF HowFar, Writing
<1> QED
  BY <1>2, <1>6, <1>7

LEMMA OutputSteps == OutputInv /\ [OutputNext]_outVars => OutputInv'
<1> SUFFICES ASSUME OutputInv, [OutputNext]_outVars PROVE OutputInv'
  OBVIOUS
<1>1. CASE UNCHANGED outVars
  BY <1>1 DEF outVars, OutputInv
<1> QED
  BY <1>1, StepGate, StepClear, StepCreate, StepWrite, StepLink, StepUnstage, StepKilled, StepTaken,
     StepRestore DEF OutputNext

\* Whatever a command that writes its report has come to, of whatever inputs,
\* in whatever file system: what was there is there, but for the stage; links
\* are those there were; the report and its stage are where they are to be, and
\* were put there because no input leads, or would lead, to the name.
THEOREM OutputInvariant == OutputSpec => []OutputInv
<1>1. OutputInit => OutputInv
  BY OutputStarts
<1>2. OutputInv /\ [OutputNext]_outVars => OutputInv'
  BY OutputSteps
<1> QED
  BY <1>1, <1>2, PTL DEF OutputSpec

-----------------------------------------------------------------------------
(***************************************************************************)
(* What follows for the inputs.                                            *)
(***************************************************************************)
LEMMA BeneathNew ==
  ASSUME NEW top \in Paths, NEW x \in Seq(Parts), NEW root \in Paths, IsPrefix(root, Append(top, x))
  PROVE  root = Append(top, x) \/ IsPrefix(root, top)
<1> DEFINE l == Append(top, x)
<1>1. /\ Len(root) <= Len(l) /\ SubSeq(root, 1, Len(root)) = SubSeq(l, 1, Len(root))
      /\ Len(l) = Len(top) + 1 /\ l \in Paths
  BY DEF IsPrefix, Paths
<1>2. CASE Len(root) = Len(l)
  <2> HIDE DEF l
  <2>1. SubSeq(root, 1, Len(root)) = root /\ SubSeq(l, 1, Len(l)) = l
    BY <1>1 DEF Paths
  <2> QED
    BY <1>1, <1>2, <2>1 DEF l
<1>3. CASE Len(root) <= Len(top)
  <2>1. SubSeq(l, 1, Len(root)) = SubSeq(top, 1, Len(root))
    BY <1>3 DEF Paths
  <2> QED
    BY <1>1, <1>3, <2>1 DEF IsPrefix
<1>4. Len(root) = Len(l) \/ Len(root) <= Len(top)
  BY <1>1 DEF Paths
<1> QED
  BY <1>2, <1>3, <1>4

\* No input leads to what the command has put.
LEMMA InputsElsewhere ==
  ASSUME NEW r, IsRun(r), NEW d, Kept(d, r), LinksOld(d, r), OursKnown(d, r),
         NEW i \in r.inputs, i.kind # "dir", NEW p \in ReadPaths(d, i),
         r.command = "coverage" \/ Lookup(r.before, p) # NoValue,
         NEW l \in DOMAIN d, d[l].ino = Ours
  PROVE  Lookup(d, p) # l
<1> DEFINE name == StageOf(r)
<1>1. /\ KeptBut(name, r.before, d) /\ LinksWithout(name, d) /\ LinkedAlike(name, d, r.before)
      /\ IsType(d, RootDir, "dir")
  BY PlacesNow
<1>2. /\ Top(r) # NoValue /\ Barred(r) /\ (l = StageLoc(r) \/ l = Goal(r))
  BY DEF OursKnown
<1>3. l \in Paths /\ l # NoValue /\ EndsIn(name, StageLoc(r))
  BY <1>2, RunPlaces
<1>4. Without(name, i.path) /\ i.path # NoValue
  BY DEF IsRun, Without
<1>5. ASSUME NEW q, Without(name, q), Lookup(d, q) # NoValue
      PROVE  Without(name, Lookup(d, q)) /\ Lookup(d, q) = Led(name, r.before, q)
  <2>1. Led(name, d, q) = Led(name, r.before, q)
    BY <1>1, OnlyLinksAlike DEF Led
  <2> QED
    BY <1>1, <1>5, <2>1, LookupWithout, FoundIsLed
<1>6. Without(name, p) /\ p \in Leads(r, i)
  <2>1. CASE p = i.path
    BY <1>4, <2>1 DEF Leads
  <2>2. CASE p # i.path
    <3>1. i.kind = "db" /\ p \in {Sidecar(q, s) : q \in {i.path, Lookup(d, i.path)} \ {NoValue},
                                                 s \in {"-wal", "-shm", "-journal"}}
      BY <2>2 DEF ReadPaths
    <3>2. PICK q \in {i.path, Lookup(d, i.path)} \ {NoValue}, s \in Endings : p = Sidecar(q, s)
      BY <3>1 DEF Endings
    <3>3. Without(name, q) /\ q \in {i.path, Led(name, r.before, i.path)} \ {NoValue}
      BY <1>4, <1>5, <3>2
    <3>4. Without(name, Sidecar(q, s))
      BY <3>2, <3>3, SidecarWithout DEF IsRun, StageOf, Without
    <3> QED
      BY <3>1, <3>2, <3>3, <3>4 DEF Leads
  <2> QED
    BY <2>1, <2>2
<1> SUFFICES ASSUME Lookup(d, p) = l PROVE FALSE
  OBVIOUS
<1>7. Without(name, l) /\ l = Led(name, r.before, p)
  BY <1>3, <1>5, <1>6
<1>8. l = Goal(r) /\ ~EndsIn(name, l)
  BY <1>2, <1>3, <1>7, EndIsAName
<1>9. CASE r.command = "coverage"
  BY <1>2, <1>6, <1>7, <1>8, <1>9 DEF Barred
<1>10. CASE Lookup(r.before, p) # NoValue
  <2>1. Lookup(r.before, p) = l
    BY <1>1, <1>6, <1>10, LookupKept DEF IsRun
  <2>2. l \in DOMAIN r.before
    <3>1. IsType(r.before, RootDir, "dir") /\ LinksWithout(name, r.before) /\ p \in Paths
      BY <1>6 DEF IsRun, IsDisk, Without
    <3>2. Standing(r.before, l)
      BY <1>6, <1>10, <2>1, <3>1, LookupStands
    <3> QED
      BY <3>1, <3>2, StandingSteps
  <2>3. d[l] = r.before[l]
    BY <1>1, <1>8, <2>2 DEF KeptBut
  <2> QED
    BY <2>2, <2>3 DEF IsRun, IsDisk
<1> QED
  BY <1>9, <1>10

\* Nothing of coverage is put in a directory that is a source.
LEMMA SourcesElsewhere ==
  ASSUME NEW r, IsRun(r), r.command = "coverage", NEW d, Kept(d, r), LinksOld(d, r), OursKnown(d, r),
         NEW i \in r.inputs, i.kind = "dir", Lookup(r.before, i.path) # NoValue,
         NEW l \in DOMAIN d, d[l].ino = Ours
  PROVE  ~Beneath(l, Lookup(r.before, i.path))
<1> DEFINE name == StageOf(r)
           root == Lookup(r.before, i.path)
<1>1. /\ KeptBut(name, r.before, d) /\ Top(r) # NoValue /\ Barred(r)
      /\ l = StageLoc(r) \/ l = Goal(r)
  BY PlacesNow DEF OursKnown
<1>2. /\ IsType(r.before, RootDir, "dir") /\ LinksWithout(name, r.before) /\ i.path \in Paths
      /\ Without(name, i.path)
  BY DEF IsRun, IsDisk, Without
<1>3. Without(name, root) /\ root \in Paths
  BY <1>2, LookupWithout DEF Without
<1>4. root \in DOMAIN r.before
  <2>1. Standing(r.before, root)
    BY <1>2, LookupStands
  <2> QED
    BY <1>2, <2>1, StandingSteps
<1>5. ~IsPrefix(root, Top(r))
  BY <1>1, <1>2 DEF Barred
<1>6. /\ Top(r) \in Paths /\ StageOf(r) \in Seq(Parts) /\ Last(r.dest) \in Seq(Parts)
      /\ EndsIn(name, StageLoc(r)) /\ ~EndsIn(name, Goal(r))
  BY <1>1, RunPlaces
<1>7. root # l
  <2> SUFFICES ASSUME root = l PROVE FALSE
    OBVIOUS
  <2>1. ~EndsIn(name, l)
    BY <1>3, EndIsAName
  <2>2. d[l] = r.before[l] /\ l \in DOMAIN r.before
    BY <1>1, <1>4, <2>1 DEF KeptBut
  <2> QED
    BY <2>2 DEF IsRun, IsDisk
<1> HIDE DEF root
<1>8. ~IsPrefix(root, l)
  BY <1>1, <1>3, <1>5, <1>6, <1>7, BeneathNew DEF StageLoc, Goal
<1> QED
  BY <1>8 DEF Beneath, root

LEMMA InvariantIsSafe == OutputInv => OutputSafe
<1> SUFFICES ASSUME OutputInv PROVE OutputSafe
  OBVIOUS
<1> USE DEF OutputInv
<1> DEFINE before == outRun.before
           stage(d) == EntryAt(d, StagePath(outRun.dest))
           ours == {l \in DOMAIN entries : entries[l].ino = Ours}
<1>1. ASSUME NEW l \in DOMAIN before \ {stage(before)} PROVE l \in DOMAIN entries /\ entries[l] = before[l]
  <2>1. Kept(before, outRun) /\ LinksOld(before, outRun)
    BY DEF Kept, LinksOld
  <2>2. Top(outRun) # NoValue => l # StageLoc(outRun)
    BY <1>1, <2>1, PlacesNow
  <2> QED
    BY <2>2 DEF Kept
<1>2. ASSUME NEW l \in ours \ {stage(entries)} PROVE entries[l].bytes = "report"
  <2>1. Top(outRun) # NoValue => l # StageLoc(outRun)
    BY <1>2, PlacesNow
  <2> QED
    BY <2>1 DEF OursKnown
<1>3. ASSUME NEW i \in outRun.inputs, outRun.command = "coverage" PROVE SourceSpared(i)
  BY <1>3, SourcesElsewhere DEF SourceSpared
<1>4. ASSUME NEW i \in outRun.inputs, NEW p \in ReadPaths(entries, i), i.kind # "dir",
             outRun.command = "coverage" \/ Lookup(before, p) # NoValue
      PROVE  Lookup(entries, p) \notin ours
  BY <1>4, InputsElsewhere
<1> QED
  BY <1>1, <1>2, <1>3, <1>4 DEF OutputSafe

\* For every file system and all the inputs and names a command may be given,
\* with any number of kills, of names taken by others and of inputs restored:
\* what was there stays; coverage puts nothing in a source directory; nothing but the
\* whole report appears under its name; no input leads to it, now or later.
THEOREM OutputsAreSafe == OutputSpec => []OutputSafe
BY OutputInvariant, InvariantIsSafe, PTL
=============================================================================
