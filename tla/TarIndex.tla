------------------------------ MODULE TarIndex ------------------------------
(***************************************************************************)
(* Indexing an archive (index_tar in src/core/indexer.rs) and the passes   *)
(* that end every build (finalize_v3 in src/core/store.rs).  Stages and    *)
(* promotion are those of IndexFile.                                       *)
(***************************************************************************)
EXTENDS Processing, FiniteSetsExt, Functions

CONSTANTS
  Rendered,   \* the text of each name: the name itself when it is UTF-8
  Words,      \* how often each word occurs in the indexed part of each content
  WordFlush,  \* WORD_FLUSH_THRESHOLD
  Archives    \* sequence of the archives and options explored

VARIABLES
  archive,  \* the members, in the order they are read
  tarRun    \* the index run

tarVars == <<archive, tarRun>>

ContentTypes == {"file", "continuous", "gnu sparse"}
LinkTypes == {"hardlink", "symlink"}

RowKinds == {"text", "image", "raw", "video", "binary", "link", "empty"}
RowFlags == {"FTS_TRUNCATED", "IMAGE_OVER_CAP", "READ_ERROR", "SPARSE", "SHADOWED",
             "DECODE_FAILED", "PAX_UNPARSED"}

\* What tar-rs gives of a member, and the contents that extraction leaves of it.
ArchiveMember ==
  LET NameOr == DOMAIN Rendered \union {NoValue}
      Pax == [sparse : BOOLEAN, broken : BOOLEAN, name : NameOr, size : Nat \union {NoValue}]
  IN [type : ContentTypes \union LinkTypes \union {"other", "corrupt"}, path : DOMAIN Rendered,
      target : NameOr, content : Bytes \union {NoValue}, leaves : Bytes \union {NoValue},
      pax : Pax, size : Nat]

\* A member that is read, and whose map of holes is known, is read as it is
\* extracted.
ASSUME TarAssumption ==
  /\ NoValue \notin DOMAIN Rendered /\ NoValue \notin Bytes
  /\ NoValue \notin [hash : Bytes \union {NoValue}, kind : RowKinds, flags : SUBSET RowFlags]
  /\ Rendered \in [DOMAIN Rendered -> DOMAIN Rendered]
  /\ \A p \in DOMAIN Rendered : Media[p] \in {"image", "heic", "raw", "video", "other"}
  /\ \A c \in Bytes : Words[c] \in [DOMAIN Words[c] -> Nat]
  /\ \A i \in DOMAIN Archives : \A members \in Archives[i].members :
       /\ members \in Seq(ArchiveMember)
       /\ \A m \in Range(members) :
            m.type \in ContentTypes /\ m.content # NoValue /\ ~m.pax.sparse /\ ~m.pax.broken
              => m.leaves = m.content

\* What pax records say that a member is a map of holes; each may be unreadable.
PaxFlags(m) ==
  (IF m.type = "gnu sparse" \/ m.pax.sparse THEN {"SPARSE"} ELSE {})
    \union (IF m.pax.broken THEN {"PAX_UNPARSED"} ELSE {})
RealName(m) == IF m.pax.sparse /\ m.pax.name # NoValue THEN m.pax.name ELSE m.path
RealSize(m) == IF m.pax.sparse /\ m.pax.size # NoValue THEN m.pax.size ELSE m.size

\* Text for reading, and the bytes where the text is not they.
Captured(name) ==
  IF name = NoValue THEN [text |-> NoValue, raw |-> NoValue]
  ELSE [text |-> Rendered[name], raw |-> IF Rendered[name] = name THEN NoValue ELSE name]

TarRow(name, type, target, size, o) ==
  [name |-> Captured(name), type |-> type, target |-> Captured(target), size |-> size,
   kind |-> o.kind, hash |-> o.hash, flags |-> o.flags]

MetadataKind(text, size) ==
  IF size = 0 THEN "empty" ELSE IF Media[text] = "other" THEN "binary" ELSE MediaKind(text)

-----------------------------------------------------------------------------
\* Word statistics, gathered and flushed when there are many.
NoWords == [w \in {} |-> <<0, 0>>]
Merged(f, g) ==
  LET of(h, w) == IF w \in DOMAIN h THEN h[w] ELSE <<0, 0>> IN
  [w \in DOMAIN f \union DOMAIN g |-> <<of(f, w)[1] + of(g, w)[1], of(f, w)[2] + of(g, w)[2]>>]
AccumulateWords(buffer, c) == Merged(buffer, [w \in DOMAIN Words[c] |-> <<Words[c][w], 1>>])

\* Word counts keep what a document says only in full mode, and when asked.
CountsWords(o) == tarRun.mode = "full" /\ tarRun.wordStats /\ o.kind = "text"

RecordWords(o) ==
  LET buffer == AccumulateWords(tarRun.buffer, o.hash)
      full == Cardinality(DOMAIN buffer) >= WordFlush IN
  IF ~CountsWords(o) THEN [buffer |-> tarRun.buffer, freq |-> tarRun.freq]
  ELSE [buffer |-> IF full THEN NoWords ELSE buffer,
        freq |-> IF full THEN Merged(tarRun.freq, buffer) ELSE tarRun.freq]

\* IndexRun::record: a row, and what it adds to the summary.
Counters == {"indexed", "binary", "truncated", "hashed", "links", "sparse", "unparsed"}
Told(row, o, sparse) ==
  {c \in Counters :
     \/ c = "links" /\ row.type \in LinkTypes
     \/ c = "sparse" /\ sparse
     \/ c = "unparsed" /\ "PAX_UNPARSED" \in row.flags
     \/ /\ o # NoValue
        /\ \/ c = "indexed" /\ o.kind = "text"
           \/ c = "binary" /\ o.kind = "binary"
           \/ c = "truncated" /\ "FTS_TRUNCATED" \in o.flags
           \/ c = "hashed" /\ o.hash # NoValue}

Record(row, o, sparse) ==
  LET words == IF o = NoValue THEN [buffer |-> tarRun.buffer, freq |-> tarRun.freq]
               ELSE RecordWords(o) IN
  tarRun' = [tarRun EXCEPT !.at = @ + 1, !.rows = Append(@, row),
               !.buffer = words.buffer, !.freq = words.freq,
               !.summary = [c \in DOMAIN @ |-> IF c \in Told(row, o, sparse) THEN @[c] + 1 ELSE @[c]]]

-----------------------------------------------------------------------------
(***************************************************************************)
(* The members.                                                            *)
(***************************************************************************)
Member == archive[tarRun.at]
AtMember(types) ==
  /\ tarRun.step = "members" /\ tarRun.at <= Len(archive) /\ Member.type \in types
  /\ UNCHANGED archive

\* Nothing can be read after a corrupt header.
CorruptMember == AtMember({"corrupt"}) /\ tarRun' = [tarRun EXCEPT !.step = "failed"]

\* Directories, devices, fifos, and pax records of their own.
SkipMember == AtMember({"other"}) /\ tarRun' = [tarRun EXCEPT !.at = @ + 1]

LinkMember ==
  /\ AtMember(LinkTypes)
  /\ LET m == Member IN
     Record(TarRow(m.path, m.type, m.target, 0, Outcome(NoValue, "link", {})), NoValue, FALSE)

\* Contents that are not read: because none is, or because what tar-rs reads of
\* a file with holes is not the file.
UnreadMember ==
  /\ AtMember(ContentTypes) /\ (tarRun.mode = "metadata-only" \/ Member.pax.sparse)
  /\ LET m == Member
         kind == IF tarRun.mode = "metadata-only"
                 THEN MetadataKind(Rendered[RealName(m)], RealSize(m)) ELSE "binary"
     IN Record(TarRow(RealName(m), "file", NoValue, RealSize(m),
                      Outcome(NoValue, kind, PaxFlags(m))), NoValue, m.pax.sparse)

ReadMember ==
  /\ AtMember(ContentTypes) /\ tarRun.mode # "metadata-only" /\ ~Member.pax.sparse
  /\ LET m == Member
         o == IF m.content = NoValue THEN ReadFailed ELSE Fresh(Rendered[m.path], m.content) IN
     Record(TarRow(m.path, "file", NoValue, m.size, [o EXCEPT !.flags = @ \union PaxFlags(m)]),
            o, FALSE)

-----------------------------------------------------------------------------
(***************************************************************************)
(* The passes over the rows.                                               *)
(***************************************************************************)
RowsNamed(rows, text) == {i \in DOMAIN rows : rows[i].name.text = text}

\* Faulty variant: any row of the target's name will do.
TargetHashOfAnyRow(rows, i) ==
  LET of == {j \in RowsNamed(rows, rows[i].target.text) : rows[j].hash # NoValue} IN
  IF rows[i].target.text = NoValue \/ of = {} THEN NoValue ELSE rows[Max(of)].hash

\* The hash a hard link takes: that of the latest row of its target, or none.
TargetHash(rows, i) ==
  LET of == RowsNamed(rows, rows[i].target.text) IN
  IF rows[i].target.text = NoValue \/ of = {} THEN NoValue ELSE rows[Max(of)].hash

ResolveOnce(rows) ==
  [i \in DOMAIN rows |->
     IF rows[i].type = "hardlink" /\ rows[i].hash = NoValue
     THEN [rows[i] EXCEPT !.hash = TargetHash(rows, i)] ELSE rows[i]]

LinkPasses == 5
ResolveLinks(rows) ==
  LET pass[n \in 0 .. LinkPasses] == IF n = 0 THEN rows ELSE ResolveOnce(pass[n - 1])
  IN pass[LinkPasses]

\* The last row of a path is what extraction leaves there.
MarkShadowed(rows) ==
  [i \in DOMAIN rows |->
     IF i = Max(RowsNamed(rows, rows[i].name.text)) THEN rows[i]
     ELSE [rows[i] EXCEPT !.flags = @ \union {"SHADOWED"}]]

FlushWords(run) == [run EXCEPT !.freq = Merged(@, run.buffer), !.buffer = NoWords]

\* The end of the archive is drained for its fingerprint, the build completed.
Finish ==
  /\ tarRun.step = "members" /\ tarRun.at > Len(archive) /\ UNCHANGED archive
  /\ tarRun' = [FlushWords(tarRun) EXCEPT !.step = "complete",
                  !.rows = MarkShadowed(ResolveLinks(@))]

PromoteTar ==
  /\ tarRun.step = "complete" /\ UNCHANGED archive
  /\ tarRun' = [tarRun EXCEPT !.step = "promoted"]

CancelTar ==
  /\ tarRun.step \in {"members", "complete"} /\ UNCHANGED archive
  /\ tarRun' = [tarRun EXCEPT !.step = "cancelled"]

TarIdle == archive = <<>> /\ tarRun = [step |-> "none"]

TarInit ==
  \E i \in DOMAIN Archives : LET a == Archives[i] IN
  \E members \in a.members, mode \in a.modes, wordStats \in a.wordStats :
    /\ archive = members
    /\ tarRun = [step |-> "members", at |-> 1, mode |-> mode, wordStats |-> wordStats,
                 rows |-> <<>>, buffer |-> NoWords, freq |-> NoWords,
                 summary |-> [c \in Counters |-> 0]]

TarNext ==
  \/ CorruptMember \/ SkipMember \/ LinkMember \/ UnreadMember \/ ReadMember
  \/ Finish \/ PromoteTar \/ CancelTar

TarSpec == TarInit /\ [][TarNext]_tarVars

-----------------------------------------------------------------------------
\* What extraction leaves under each name.  A link shares the file its target
\* is then; a target that is not there leaves no link.
ExtractOne(files, m) ==
  LET put(p, c) == [q \in DOMAIN files \union {p} |-> IF q = p THEN c ELSE files[q]] IN
  CASE m.type \in ContentTypes -> put(RealName(m), m.leaves)
    [] m.type = "hardlink" /\ m.target \in DOMAIN files -> put(m.path, files[m.target])
    [] m.type = "symlink" -> Restrict(files, DOMAIN files \ {m.path})
    [] OTHER -> files

Extracted ==
  LET left[n \in 0 .. Len(archive)] ==
        IF n = 0 THEN [q \in {} |-> NoValue] ELSE ExtractOne(left[n - 1], archive[n])
  IN left[Len(archive)]

\* A target that is replaced after a link to it was made, names that look the
\* same as text, and a sparse map hidden from tar-rs behind a link are not told
\* apart by the rows.
Entries == {i \in DOMAIN archive : archive[i].type \in ContentTypes \union LinkTypes}
Links == {i \in Entries : archive[i].type = "hardlink"}
NameOf(m) == IF m.type \in ContentTypes THEN RealName(m) ELSE m.path
Replaced == \E i \in Links, j \in Entries : i < j /\ NameOf(archive[j]) = archive[i].target
LookAlike ==
  \E p, q \in {NameOf(archive[i]) : i \in Entries} \union ({archive[i].target : i \in Links} \ {NoValue}) :
    p # q /\ Rendered[p] = Rendered[q]
HiddenMap == \E i \in Entries : archive[i].type \in ContentTypes /\ archive[i].pax.broken
Plainly == ~Replaced /\ ~LookAlike /\ ~(HiddenMap /\ Links # {})

\* All entries have rows, and those whose bytes are doubtful are counted.
AllTold ==
  /\ Len(tarRun.rows) = Cardinality(Entries)
  /\ tarRun.summary["unparsed"]
       = Cardinality({i \in DOMAIN tarRun.rows : "PAX_UNPARSED" \in tarRun.rows[i].flags})

\* The texts that say a word, and where they say it.
Saying(rows, w) == {i \in DOMAIN rows : rows[i].kind = "text" /\ w \in DOMAIN Words[rows[i].hash]}
Occurrences(rows, w) == UNION {{i} \X (1 .. Words[rows[i].hash][w]) : i \in Saying(rows, w)}

WordsTrue ==
  tarRun.mode = "full" /\ tarRun.wordStats =>
    \A w \in UNION {DOMAIN Words[c] : c \in Bytes} :
      Saying(tarRun.rows, w) # {} =>
        /\ w \in DOMAIN tarRun.freq
        /\ tarRun.freq[w] = <<Cardinality(Occurrences(tarRun.rows, w)),
                             Cardinality(Saying(tarRun.rows, w))>>

\* Whether a row may leave the bytes unknown.
MayNotKnow(i) ==
  \/ tarRun.mode = "metadata-only"
  \/ tarRun.rows[i].flags \intersect {"READ_ERROR", "SPARSE"} # {}
  \/ /\ tarRun.rows[i].type = "hardlink"
     /\ TargetHash(tarRun.rows, i) = NoValue \/ Cardinality(Links) > LinkPasses

\* Under each name that extraction leaves, the one row that is not shadowed has the
\* hash of what is there, or may not know it.
RowsTrue ==
  LET rows == tarRun.rows
      nameOf(i) == IF rows[i].name.raw = NoValue THEN rows[i].name.text ELSE rows[i].name.raw
      final == {i \in DOMAIN rows : "SHADOWED" \notin rows[i].flags}
  IN Plainly =>
       \A p \in DOMAIN Extracted :
         \E i \in final : /\ nameOf(i) = p /\ \A j \in final : nameOf(j) = p => j = i
                          /\ \/ rows[i].hash = Extracted[p]
                             \/ rows[i].hash = NoValue /\ MayNotKnow(i)
                             \/ "PAX_UNPARSED" \in rows[i].flags

\* What a promoted index says of an archive is true of the archive, and of what its
\* extraction leaves.
TarTrue == tarRun.step = "promoted" => AllTold /\ WordsTrue /\ RowsTrue

=============================================================================
