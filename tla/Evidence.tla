------------------------------ MODULE Evidence ------------------------------
(***************************************************************************)
(* What one index is evidence of (src/core/diff_input.rs, legacy.rs): the  *)
(* entries its source held, the rows the indexer stored of them, and the   *)
(* snapshot the loader makes of the index.  The truth about the source is  *)
(* kept beside the rows, so that a report can be compared with it.         *)
(***************************************************************************)
EXTENDS Naturals, Sequences, FiniteSets

CONSTANTS
  Content,   \* contents of files; a content stands for its hash too
  Length,    \* the length of each content
  Name,      \* exact names of entries
  TextOf,  \* each name as lossy UTF-8 text
  Garbled,   \* the texts that hold U+FFFD
  None       \* no hash, no kind, no path, nothing recorded

EntryTypes == {"file", "hardlink", "symlink", "unsupported"}
Flags == {"READ_ERROR", "PAX_UNPARSED", "SPARSE", "LOSSY_PATH"}
Kinds == {"image", "raw", "video", "text", "binary"}

Unproven == {"READ_ERROR", "PAX_UNPARSED"}
Unsized == {"SPARSE"} \union Unproven

(***************************************************************************)
(* An entry of a source: its name and content, and what the indexer stored *)
(* of it.  A hash is that of the content unless the read failed or the pax *)
(* records were not understood; a size is the content's length unless one  *)
(* of those happened or the file is sparse.  Before sparse files were      *)
(* handled, the hash was of the condensed stream.                          *)
(***************************************************************************)
Entry == [name : Name, entry : EntryTypes, content : Content,
          hash : Content \union {None}, size : Nat, flags : SUBSET (Flags \ {"LOSSY_PATH"}),
          stat : Nat \union {None}, kind : Kinds \union {None}]

FaithfullyStored(m, mode) ==
  m.entry = "file" =>
    /\ \/ m.hash \in {None, m.content} \/ m.flags \intersect Unproven # {}
       \/ mode = None /\ "SPARSE" \in m.flags
    /\ m.size = Length[m.content] \/ m.flags \intersect Unsized # {}

\* A row as the loader hands it on; its id tells which entry it is of.
IndexRow == [id : Nat, path : Name, entry : EntryTypes, size : Nat, hash : Content \union {None},
        stat : Nat \union {None}, kind : Kinds \union {None}, flags : SUBSET Flags]

ASSUME EvidenceAssumption ==
  /\ None \notin Content /\ None \notin Nat /\ None \notin IndexRow
  /\ Length \in [Content -> Nat]
  /\ TextOf \in [Name -> Name]
  /\ \A n \in Name : TextOf[n] # n => TextOf[n] \in Garbled

(***************************************************************************)
(* An index file.  A source has more entries than its index has rows when  *)
(* indexing stopped early.                                                 *)
(***************************************************************************)
Index ==
  [uuid : Nat, readable : BOOLEAN, schema : BOOLEAN, algo : BOOLEAN, signed : BOOLEAN,
   completed : BOOLEAN, mode : {"full", "metadata-only", None}, pathRaw : BOOLEAN,
   entries : Seq(Entry), indexed : Nat, type : {"dir", "archive"},
   source : {"exact", "lossy", "relative", None}, stat : Nat \union {None}]

WellFormed(x) ==
  /\ \A i \in DOMAIN x.entries : FaithfullyStored(x.entries[i], x.mode)
  /\ x.indexed <= Len(x.entries)
  /\ x.completed => x.indexed = Len(x.entries)

\* The last entry of a name is the one that extraction leaves.
Effective(x, i) ==
  \A j \in DOMAIN x.entries : j > i => x.entries[j].name # x.entries[i].name

\* The entry of that name that counts, if there is one.
At(x, n) == {i \in DOMAIN x.entries : x.entries[i].name = n /\ Effective(x, i)}

\* No entry that was read takes its place: where all were read it is effective,
\* and an index that stopped early speaks of no more than it read.
Stands(x, i) == \A j \in 1 .. x.indexed : j > i => x.entries[j].name # x.entries[i].name

\* The source held c as a regular file when it was indexed.
Holds(x, c) ==
  \E i \in DOMAIN x.entries :
    x.entries[i].entry = "file" /\ x.entries[i].content = c /\ Stands(x, i)

-----------------------------------------------------------------------------
(***************************************************************************)
(* The loader.  An index from before v1.0.1 has no path_raw: each name is  *)
(* its rendering, and one that holds U+FFFD is flagged.  One from before   *)
(* sparse files were handled has no content_mode, and is refused when it   *)
(* has a sparse row.                                                       *)
(***************************************************************************)
StoredName(x, m) == IF x.pathRaw THEN m.name ELSE TextOf[m.name]

RowOf(x, i) ==
  LET m == x.entries[i] IN
  [id |-> i, path |-> StoredName(x, m), entry |-> m.entry, size |-> m.size,
   hash |-> m.hash, stat |-> m.stat, kind |-> m.kind,
   flags |-> IF ~x.pathRaw /\ StoredName(x, m) \in Garbled
             THEN m.flags \union {"LOSSY_PATH"} ELSE m.flags]

RowsOf(x) == IF x.schema THEN {RowOf(x, i) : i \in 1 .. x.indexed} ELSE {}

LegacySparse(x) == x.mode = None /\ \E r \in RowsOf(x) : "SPARSE" \in r.flags

Compatible(x) == x.schema /\ x.algo /\ x.signed

State(x) ==
  IF ~x.readable \/ LegacySparse(x) THEN "Unavailable"
  ELSE IF ~Compatible(x) THEN "Incompatible"
  ELSE IF ~x.completed THEN "Incomplete" ELSE "Complete"

\* What load_index hands on: never an error, and no rows when unavailable.
Loaded(x) ==
  [state |-> State(x), mode |-> x.mode, uuid |-> IF x.signed THEN x.uuid ELSE None,
   compatible |-> Compatible(x),
   rows |-> IF State(x) = "Unavailable" THEN {} ELSE RowsOf(x)]

-----------------------------------------------------------------------------
(* Names an older indexer did not record exactly. *)
NameUncertain(r) == "LOSSY_PATH" \in r.flags
CouldBe(stored, path) == stored = TextOf[path]

\* A row whose name is known and that no later row of that name replaces.
Visible(rows) ==
  {r \in rows : ~NameUncertain(r) /\
     \A q \in rows : ~NameUncertain(q) /\ q.path = r.path => q.id <= r.id}

Uncertain(rows) == {r \in rows : NameUncertain(r)}
Shadowed(rows) == rows \ (Visible(rows) \union Uncertain(rows))

\* Faulty variant: records that were not parsed are ignored.
TrustedHashDespitePax(r) == IF r.entry = "file" /\ "READ_ERROR" \notin r.flags THEN r.hash ELSE None

TrustedHash(r) == IF r.entry = "file" /\ r.flags \intersect Unproven = {} THEN r.hash ELSE None
TrustedSize(r) == IF r.flags \intersect Unsized = {} THEN r.size ELSE None

=============================================================================
