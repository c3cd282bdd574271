----------------------------- MODULE MCOpening -----------------------------
(***************************************************************************)
(* What two sessions may find under the path of the master catalog.        *)
(***************************************************************************)
EXTENDS MasterOpening

File(maker, format, appid, tables, columns) ==
  [format |-> format, link |-> FALSE, alias |-> FALSE, appid |-> appid, tables |-> tables,
   columns |-> columns, wal |-> FALSE, maker |-> maker]

OldColumns == {{"pb0"}, {"pb0", "path_raw"}, {"pb0", "path_raw", "content_mode"}}
Masters ==
  {File("master", "sqlite", "none", {"archives", "files"}, c) : c \in OldColumns}
  \union {File("master", "sqlite", "ours", {"archives", "files"}, c) : c \in OldColumns}
  \union {File("master", "sqlite", "ours", {}, {}),
          File("master", "sqlite", "ours", {"archives"}, {"content_mode"})}
NotMasters ==
  {File("indexer", "sqlite", "none", t, {}) : t \in {{"files", "files_fts"}, {"files_fts"}}}
  \union {File("someone", "sqlite", "another", {"archives", "files"}, {"pb0"}),
          File("someone", "sqlite", "none", {"archives", "files"}, {"path_raw"}),
          File("someone", "sqlite", "none", {"files"}, {"pb0"}),
          File("someone", "other", "none", {}, {}), File("someone", "empty", "none", {}, {})}

SomeCatalogs ==
  Masters \union NotMasters \union {NothingThere, [NothingThere EXCEPT !.alias = TRUE]}
  \union {[f EXCEPT !.link = TRUE] : f \in NotMasters}

=============================================================================
