------------------------------ MODULE MCDedup ------------------------------
(***************************************************************************)
(* Catalogs and commands for Dedup: two archives, up to four images.       *)
(***************************************************************************)
EXTENDS Dedup

CONSTANTS c1, c2

EightBits == 1 .. 8
FourBands == <<{1, 2}, {3, 4}, {5, 6}, {7, 8}>>

CRow(a, id, content) ==
  [archive |-> a, id |-> id, entry |-> "file", kind |-> "text", size |-> 1,
   hash |-> content, phash |-> NoValue, pixels |-> 0, exif |-> NoTime, mtime |-> NoTime,
   indexed |-> NoTime, clean |-> TRUE, length |-> 1, wanted |-> TRUE, shadowed |-> FALSE,
   sparse |-> FALSE]
Image(a, id, content, bits) ==
  [CRow(a, id, content) EXCEPT !.kind = "image", !.phash = bits, !.pixels = id]

Archive(id, algo) ==
  [id |-> id, names |-> {id}, algo |-> algo, indexed |-> id, status |-> "ok"]
BothArchives == {Archive(1, "v1"), Archive(2, "v1")}
Catalog(archives, rows) == [archives |-> archives, rows |-> rows]

\* Images at distances 0, 1, 3 and 4 of each other, in chains and apart.
Chain == {Image(1, 1, c1, {1, 3}), Image(1, 2, c2, {1, 3, 5, 7}),
          Image(2, 1, c2, {1, 3, 5, 7, 2, 4}), Image(2, 2, c1, {1, 3})}
Apart == {Image(1, 1, c1, {1, 3}), Image(2, 1, c2, {3, 5, 7}), Image(2, 2, c2, {1, 2, 4, 5, 7})}
FirstBand == {Image(1, 1, c1, {1, 3}), Image(2, 1, c2, {1, 5, 7})}
Flat == {Image(1, 1, c1, {}), Image(2, 1, c1, {8}), Image(2, 2, c1, NoValue)}

Singles == {CRow(1, 1, c1), [CRow(1, 2, c1) EXCEPT !.shadowed = TRUE],
          [CRow(2, 1, c1) EXCEPT !.entry = "hardlink"],
          [CRow(2, 2, c1) EXCEPT !.mtime = 5, !.clean = FALSE],
          [CRow(2, 3, c2) EXCEPT !.length = 2], [CRow(1, 3, c2) EXCEPT !.exif = 3],
          [CRow(1, 4, c1) EXCEPT !.entry = "symlink"], [CRow(1, 5, c1) EXCEPT !.sparse = TRUE],
          [CRow(2, 4, c1) EXCEPT !.kind = "empty", !.size = 0]}
Shadowing == {rows \in SUBSET Singles : Cardinality(rows) \in 2 .. 3}

Ask == [exact |-> TRUE, near |-> TRUE, threshold |-> 3, kind |-> NoValue, minSize |-> 1,
        archives |-> {}, across |-> FALSE, includeEmpty |-> FALSE, sort |-> "wasted",
        limit |-> 9, cap |-> 9]

Gone == Catalog({Archive(1, "v1")}, {CRow(1, 1, c1)})
Resynced == Catalog({Archive(1, "v1"), Archive(2, "v2")}, {Image(1, 1, c1, {1, 3}), Image(2, 7, c1, {1})})

SomeFinds == <<
  [catalogs |-> {Catalog(BothArchives, Chain), Catalog(BothArchives, Apart), Catalog(BothArchives, FirstBand),
                 Catalog(BothArchives, Flat)},
   later |-> {},
   params |-> {[Ask EXCEPT !.threshold = t, !.sort = s] : t \in {0, 2, 3, 4}, s \in {"wasted", "newest"}}],
  [catalogs |-> {Catalog(BothArchives, FirstBand \union {CRow(1, 8, c2), CRow(2, 8, c2)})},
   later |-> {Gone, Resynced},
   params |-> {Ask, [Ask EXCEPT !.cap = 1], [Ask EXCEPT !.limit = 1],
               [Ask EXCEPT !.archives = {1}], [Ask EXCEPT !.archives = {3}]}],
  [catalogs |-> {Catalog(BothArchives, rows) : rows \in Shadowing},
   later |-> {},
   params |-> {[Ask EXCEPT !.near = FALSE], [Ask EXCEPT !.sort = "count", !.across = TRUE],
               [Ask EXCEPT !.includeEmpty = TRUE, !.minSize = 0]}],
  [catalogs |-> {Catalog({Archive(1, "v1"), Archive(2, "v2")}, FirstBand)},
   later |-> {}, params |-> {Ask}] >>

=============================================================================
