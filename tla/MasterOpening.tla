--------------------------- MODULE MasterOpening ---------------------------
(***************************************************************************)
(* Opening the master catalog (probe, open_at and init_master_conn in      *)
(* src/core/master.rs): what stands under its path is identified, created, *)
(* adopted or refused, and brought to the present schema, by several       *)
(* sessions at once that fail or are killed between any two statements,    *)
(* each of which commits by itself.  Only BackupSage creates a file there  *)
(* meanwhile.                                                              *)
(***************************************************************************)
CONSTANTS
  Opener,   \* sessions that open the catalog
  Catalogs  \* what may stand under the path

VARIABLES
  catalog,  \* the file under the path
  atFirst,    \* what it was at first
  opener    \* the sessions

openVars == <<catalog, atFirst, opener>>

Tables == {"archives", "files", "files_fts"}
Columns == {"pb0", "path_raw", "content_mode"}
AppIds == {"none", "ours", "another"}
OpenerSteps == {"look", "read id", "read tables", "create", "stamp", "journal", "archives",
                "files", "see path_raw", "add path_raw", "see content_mode", "add content_mode",
                "open", "refused", "stopped", "away"}

\* alias: the name is that of a sidecar of another file.  Who made the file
\* is what the probe has to find out.
CatalogFile ==
  [format : {"absent", "empty", "other", "sqlite"}, link : BOOLEAN, alias : BOOLEAN,
   appid : AppIds, tables : SUBSET Tables, columns : SUBSET Columns, wal : BOOLEAN,
   maker : {"nobody", "master", "indexer", "someone"}]

Signed(f) == f.format = "sqlite" /\ f.appid = "ours"
ByVersion1(f) ==
  /\ f.format = "sqlite" /\ f.appid = "none"
  /\ {"archives", "files"} \subseteq f.tables /\ "files_fts" \notin f.tables
  /\ "pb0" \in f.columns
Complete(f) == {"archives", "files"} \subseteq f.tables /\ Columns \subseteq f.columns

ASSUME CatalogsAssumption ==
  \A f \in Catalogs :
    /\ f \in CatalogFile
    /\ f.maker = "nobody" <=> f.format = "absent"
    /\ f.format = "absent" => f.tables = {}
    /\ f.maker = "master" =>
         /\ ~f.link /\ (Signed(f) \/ ByVersion1(f))
         /\ "files" \in f.tables => "pb0" \in f.columns
    /\ f.maker = "indexer" => f.format = "sqlite" /\ f.appid = "none" /\ "files_fts" \in f.tables
    /\ f.maker = "someone" => ~Signed(f) /\ ~ByVersion1(f)

-----------------------------------------------------------------------------
Goes(s, step) == opener' = [opener EXCEPT ![s].step = step]
OpenerAt(s, step) == opener[s].step = step
Writes(s, before, after) == OpenerAt(s, before) /\ Goes(s, after) /\ UNCHANGED atFirst
Reads(s, before, after) == Writes(s, before, after) /\ UNCHANGED catalog

\* probe: the names, the entry and its first bytes.
Look(s) ==
  LET f == catalog IN
  Reads(s, "look", CASE f.alias -> "refused"
                     [] ~f.alias /\ f.format = "absent" -> "create"
                     [] ~f.alias /\ f.format = "sqlite" /\ ~f.link -> "read id"
                     [] OTHER -> "refused")

ReadAppId(s) ==
  /\ OpenerAt(s, "read id")
  /\ opener' = [opener EXCEPT ![s] =
                  [step |-> IF catalog.appid = "ours" THEN "journal" ELSE "read tables",
                   appid |-> catalog.appid, new |-> FALSE]]
  /\ UNCHANGED <<catalog, atFirst>>

\* Faulty variant: a master of version 1 is known by the names of its tables.
ReadTablesByName(s) ==
  Reads(s, "read tables",
        IF /\ "files_fts" \notin catalog.tables
           /\ opener[s].appid = "none"
           /\ {"archives", "files"} \subseteq catalog.tables
        THEN "stamp" ELSE "refused")

\* A per-source index and a foreign file are refused alike.
ReadTables(s) ==
  Reads(s, "read tables",
        IF /\ "files_fts" \notin catalog.tables
           /\ opener[s].appid = "none"
           /\ {"archives", "files"} \subseteq catalog.tables
           /\ "pb0" \in catalog.columns
        THEN "stamp" ELSE "refused")

\* Connection::open creates the file, empty.
CreateFile(s) ==
  /\ OpenerAt(s, "create")
  /\ opener' = [opener EXCEPT ![s] = [step |-> "stamp", appid |-> "none", new |-> TRUE]]
  /\ catalog' = IF catalog.format = "absent" THEN [catalog EXCEPT !.format = "empty"] ELSE catalog
  /\ UNCHANGED atFirst

StampId(s) ==
  /\ Writes(s, "stamp", "journal")
  /\ catalog' = [catalog EXCEPT !.format = "sqlite", !.appid = "ours"]

-----------------------------------------------------------------------------
\* init_master_conn.
SetJournal(s) == Writes(s, "journal", "archives") /\ catalog' = [catalog EXCEPT !.wal = TRUE]

CreateArchives(s) ==
  /\ Writes(s, "archives", "files")
  /\ catalog' = IF "archives" \in catalog.tables THEN catalog
                ELSE [catalog EXCEPT !.tables = @ \union {"archives"},
                                     !.columns = @ \union {"content_mode"}]

CreateFiles(s) ==
  /\ Writes(s, "files", IF opener[s].new THEN "open" ELSE "see path_raw")
  /\ catalog' = IF "files" \in catalog.tables THEN catalog
                ELSE [catalog EXCEPT !.tables = @ \union {"files"},
                                     !.columns = @ \union {"pb0", "path_raw"}]

\* The migrations: a column that another session has just added is an error.
SeeColumn(s, at, column, add, next) ==
  Reads(s, at, IF column \in catalog.columns THEN next ELSE add)

AddColumn(s, at, column, next) ==
  /\ Writes(s, at, IF column \in catalog.columns THEN "stopped" ELSE next)
  /\ catalog' = [catalog EXCEPT !.columns = @ \union {column}]

MigratePathRaw(s) ==
  \/ SeeColumn(s, "see path_raw", "path_raw", "add path_raw", "see content_mode")
  \/ AddColumn(s, "add path_raw", "path_raw", "see content_mode")

MigrateContentMode(s) ==
  \/ SeeColumn(s, "see content_mode", "content_mode", "add content_mode", "open")
  \/ AddColumn(s, "add content_mode", "content_mode", "open")

\* An error, or the end of the process.
Stopped(s) ==
  /\ opener[s].step \notin {"look", "open", "refused", "stopped", "away"}
  /\ Goes(s, "stopped") /\ UNCHANGED <<catalog, atFirst>>

Again(s) ==
  /\ opener[s].step \in {"open", "refused", "stopped"}
  /\ Goes(s, "look") /\ UNCHANGED <<catalog, atFirst>>

OpeningInit ==
  /\ catalog \in Catalogs
  /\ atFirst = catalog
  /\ opener = [s \in Opener |-> [step |-> "look", appid |-> "none", new |-> FALSE]]

NothingThere ==
  [format |-> "absent", link |-> FALSE, alias |-> FALSE, appid |-> "none", tables |-> {},
   columns |-> {}, wal |-> FALSE, maker |-> "nobody"]

OpeningIdle ==
  /\ catalog = NothingThere /\ atFirst = NothingThere
  /\ opener = [s \in Opener |-> [step |-> "away", appid |-> "none", new |-> FALSE]]

OpeningNext ==
  \E s \in Opener :
    \/ Look(s) \/ ReadAppId(s) \/ ReadTables(s) \/ CreateFile(s) \/ StampId(s)
    \/ SetJournal(s) \/ CreateArchives(s) \/ CreateFiles(s)
    \/ MigratePathRaw(s) \/ MigrateContentMode(s)
    \/ Stopped(s) \/ Again(s)

OpeningSpec == OpeningInit /\ [][OpeningNext]_openVars

-----------------------------------------------------------------------------
(***************************************************************************)
(* Whatever sessions ran and wherever they stopped: a file that is not a   *)
(* master is as it was; a master is still recognised as one; a new one is  *)
(* signed before anything else is in it; and the catalog of a session that *)
(* has opened it is signed and has every table and column.                 *)
(***************************************************************************)
OpensOwn ==
  /\ atFirst.maker \in {"indexer", "someone"} => catalog = atFirst
  /\ atFirst.maker = "master" => Signed(catalog) \/ ByVersion1(catalog)
  /\ atFirst.maker = "nobody" => Signed(catalog) \/ catalog.tables = {}
  /\ \A s \in Opener : OpenerAt(s, "open") => Signed(catalog) /\ Complete(catalog)
=============================================================================
