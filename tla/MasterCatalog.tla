--------------------------- MODULE MasterCatalog ---------------------------
(***************************************************************************)
(* The master catalog (src/core/master.rs): the registry of per-source     *)
(* indexes and the replicated file rows, touched by several sessions at    *)
(* once, each running add, sync, sync --prune, verify, verify --deep or rm *)
(* as a sequence of SQL statements and file-system calls.                  *)
(*                                                                         *)
(* An index is known by its index_uuid.  A build never changes an index in *)
(* place, so everything read from one index file (source path, schema      *)
(* version, completed, the recorded stat and hash of the source, the file  *)
(* rows) is a function of the uuid: StatusOf, SourceOf and seen below.     *)
(* The replica rows of an archive are named by the uuid they were read     *)
(* from.                                                                   *)
(***************************************************************************)
EXTENDS Integers

CONSTANTS
  Session,    \* processes that have the same master.db open
  Path,       \* canonical db_path values
  Source,     \* the indexed archives and directories
  Uuid,       \* index identities, one per build
  Version,    \* what a source can contain
  MaxId,      \* bound on archive_id
  None,       \* no file, no row, no value
  SourceOf,   \* meta.source of each index
  DirSource,  \* sources whose source_type is "dir"
  V2,         \* indexes with schema version 2 (no hashes, no file rows)
  Partial,    \* indexes whose meta.completed is not 1
  StatOf,     \* size and mtime of a source with a given content
  Commands,   \* commands each session may be given
  Events,     \* kinds of outside event that may happen
  Budget      \* bound on the number of outside events

Id == 1..MaxId
Status == {"ok", "stale-index", "db-missing", "archive-missing",
           "incomplete", "v2-limited"}
AllCommands == {"add", "sync", "prune", "verify", "deep", "rm"}

ASSUME CatalogAssumption ==
  /\ MaxId \in Nat
  /\ Budget \in Nat
  /\ None \notin Uuid \union Path \union Version
  /\ SourceOf \in [Uuid -> Source]
  /\ DirSource \subseteq Source
  /\ V2 \subseteq Uuid
  /\ Partial \subseteq Uuid
  /\ DOMAIN StatOf = Version
  /\ Commands \in [Session -> SUBSET AllCommands]

VARIABLES
  archives,   \* table archives: a row, or NoRow, for each archive_id
  replica,    \* table files: whose rows are stored under each archive_id
  disk,       \* the index file at each path
  locked,     \* paths with a writer's lock or journal beside the index
  seen,       \* the source content each index was built from, None before
  now,        \* the current content of each source, None when it is gone
  sess,       \* the control state of each session
  budget,     \* outside events left
  moved,      \* history: an index file has been moved or copied
  emptied,    \* history: ids whose file rows an rm has deleted, but not the row
  longGone    \* history: paths without a file since before the last DaysPass

vars == <<archives, replica, disk, locked, seen, now, sess, budget, moved, emptied, longGone>>
world == <<disk, locked, seen, now, budget, moved, longGone>>
master == <<archives, replica, emptied>>

(***************************************************************************)
(* The tables.  "aged" abstracts synced_unix: TRUE when it is older than   *)
(* the cutoff of --prune.                                                  *)
(***************************************************************************)
NoRow == [uuid |-> None, path |-> None, status |-> "db-missing", aged |-> FALSE]
Row == {NoRow} \union [uuid : Uuid, path : Path, status : Status, aged : BOOLEAN]

Registered(i) == archives[i].uuid # None
IsFirst(i, S) == i \in S /\ \A j \in S : i <= j

\* An INTEGER PRIMARY KEY without AUTOINCREMENT: one more than the largest.
IsNewRowid(i) ==
  /\ \A j \in Id : Registered(j) => j < i
  /\ i = 1 \/ (i - 1 \in Id /\ Registered(i - 1))

Completeness(u) == IF u \in Partial THEN "incomplete" ELSE "ok"
StatusOf(u) == IF u \in V2 THEN "v2-limited" ELSE Completeness(u)
RowsOf(u) == IF u \in V2 THEN None ELSE u

\* LockedIndex::open succeeds: there is an index and no writer beside it.
Readable(p) == disk[p] # None /\ p \notin locked

(***************************************************************************)
(* A session.  pc names the next step of the command; list and cur are the *)
(* snapshot list() returned and the row it is at; path and uuid are the    *)
(* index being read; target is the archive_id a statement will touch;      *)
(* current and intact say that the WAL snapshot and the file stamp are     *)
(* still the latest; alone (history) that nothing outside the session      *)
(* changed since the command began.                                        *)
(***************************************************************************)
PC == {"idle", "next", "identify", "missing", "unreadable", "judged", "age",
       "refresh", "compare", "hash", "open", "lookup", "upsert", "finish",
       "stamp", "commit", "find", "dropFiles", "dropRow", "done"}

Idle == [pc |-> "idle", cmd |-> "none", list |-> [i \in Id |-> NoRow],
         cur |-> 0, path |-> None, uuid |-> None, target |-> 0,
         verdict |-> "ok", current |-> FALSE, intact |-> FALSE, alone |-> TRUE]

SessionState ==
  [pc : PC, cmd : AllCommands \union {"none"}, list : [Id -> Row],
   cur : 0..MaxId, path : Path \union {None}, uuid : Uuid \union {None},
   target : 0..MaxId, verdict : Status, current : BOOLEAN,
   intact : BOOLEAN, alone : BOOLEAN]

At(s, pc) == sess[s].pc = pc
Running(s, cmds) == sess[s].cmd \in cmds

\* What the session does after the statement it is at: `add` and `rm` from
\* the command line return, within sync and verify the loop goes on.
Resume(s) ==
  IF Running(s, {"add", "rm"})
  THEN [Idle EXCEPT !.pc = "done", !.cmd = sess[s].cmd, !.alone = sess[s].alone]
  ELSE [Idle EXCEPT !.pc = "next", !.cmd = sess[s].cmd, !.list = sess[s].list,
                    !.cur = sess[s].cur, !.alone = sess[s].alone]

\* A step that writes nothing to the master.
Local(s, next) ==
  /\ sess' = [sess EXCEPT ![s] = next]
  /\ UNCHANGED <<master, world>>

\* The error return of every command: the open transaction rolls back.
Fail(s) == Local(s, Idle)

\* One session is between its first write and COMMIT: the WAL write lock.
WriterPC == {"finish", "stamp", "commit"}
MidAdd == {"lookup", "upsert"} \union WriterPC
Writing(s) == sess[s].pc \in WriterPC
WriteLocked(s) == \E t \in Session \ {s} : Writing(t)

\* A write of session s is committed; if it touched a row, every other open
\* read snapshot is now an old one.
Committed(s, next, touched) ==
  sess' = [t \in Session |->
             IF t = s THEN next
             ELSE IF At(t, "idle") \/ ~touched THEN sess[t]
             ELSE [sess[t] EXCEPT !.current = FALSE, !.alone = FALSE]]

\* Faulty variant: the row is inserted when it is gone.
UpdateRowInserts(s, i, row, next) ==
  /\ ~WriteLocked(s)
  /\ archives' = [archives EXCEPT ![i] = row]
  /\ Committed(s, next, TRUE)
  /\ UNCHANGED <<replica, emptied, world>>

\* An autocommit UPDATE of the row with one archive_id.  One that matches a
\* row counts as a commit even if it writes what is there already.
UpdateRow(s, i, row, next) ==
  /\ ~WriteLocked(s)
  /\ archives' = IF Registered(i) THEN [archives EXCEPT ![i] = row] ELSE archives
  /\ Committed(s, next, Registered(i))
  /\ UNCHANGED <<replica, emptied, world>>

\* busy_timeout ran out, or the process was interrupted.
Busy(s) ==
  /\ sess[s].pc \in {"missing", "unreadable", "judged", "refresh",
                     "upsert", "dropFiles", "dropRow"}
  /\ WriteLocked(s)
  /\ Fail(s)

-----------------------------------------------------------------------------
(***************************************************************************)
(* Master::add, from the command line or from within sync.                 *)
(***************************************************************************)
StartAdd(s, p) ==
  /\ At(s, "idle") /\ "add" \in Commands[s]
  /\ Local(s, [Idle EXCEPT !.pc = "open", !.cmd = "add", !.path = p])

\* resolve_db_arg and read_identity: the handle stays open on this inode.
OpenIndex(s) ==
  /\ At(s, "open") /\ Readable(sess[s].path)
  /\ Local(s, [sess[s] EXCEPT !.pc = "lookup", !.uuid = disk[sess[s].path],
                              !.intact = TRUE])

OpenRefused(s) ==
  /\ At(s, "open") /\ ~Readable(sess[s].path)
  /\ Fail(s)

\* Faulty variant: an index is looked up by its uuid only.
MatchesUuid(s) == {i \in Id : Registered(i) /\ archives[i].uuid = sess[s].uuid}

\* BEGIN, then the identity query: first row in rowid order with this
\* index_uuid or this db_path.  The read fixes the transaction's snapshot.
Matches(s) == {i \in Id : Registered(i) /\ (\/ archives[i].uuid = sess[s].uuid
                                            \/ archives[i].path = sess[s].path)}

Lookup(s) ==
  /\ At(s, "lookup")
  /\ \E i \in 0..MaxId :
       /\ IF Matches(s) = {} THEN i = 0 ELSE IsFirst(i, Matches(s))
       /\ Local(s, [sess[s] EXCEPT !.pc = "upsert", !.target = i, !.current = TRUE])

\* Faulty variants: the lookup is not in the transaction of the write; the
\* table has no UNIQUE constraint.
SnapshotIsIgnored(s) == TRUE
UuidIsNotChecked(s) == TRUE

\* The write may begin: the snapshot is the latest commit, nobody else
\* writes, and index_uuid stays UNIQUE.
SnapshotIsLatest(s) == sess[s].current
UuidIsFree(s) ==
  \A j \in Id \ {sess[s].target} : archives[j].uuid # sess[s].uuid

\* UPDATE or INSERT, then the replica rows, all inside the transaction.
Upsert(s) ==
  /\ At(s, "upsert") /\ ~WriteLocked(s)
  /\ SnapshotIsLatest(s) /\ UuidIsFree(s)
  /\ \E i \in Id :
       /\ IF sess[s].target = 0 THEN IsNewRowid(i) ELSE i = sess[s].target
       /\ Local(s, [sess[s] EXCEPT !.pc = "finish", !.target = i])

\* The next rowid is beyond the bound MaxId.
OutOfIds(s) == sess[s].target = 0 /\ \A i \in Id : ~IsNewRowid(i)

\* SQLITE_BUSY_SNAPSHOT, or the UNIQUE constraint fails: ROLLBACK.
UpsertRefused(s) ==
  /\ At(s, "upsert")
  /\ ~SnapshotIsLatest(s) \/ ~UuidIsFree(s) \/ OutOfIds(s)
  /\ Fail(s)

\* replicate_from reads through the handle, never through the path.
RowsRead(s) == RowsOf(sess[s].uuid)

\* finish_index makes two observations, one after the other: no journal or
\* writer beside the index, then the file at the path is the one opened.
Unlocked(s) == sess[s].path \notin locked
SameFile(s) == sess[s].intact

FinishJournal(s) ==
  /\ At(s, "finish") /\ Unlocked(s)
  /\ Local(s, [sess[s] EXCEPT !.pc = "stamp"])

FinishStamp(s) ==
  /\ At(s, "stamp") /\ SameFile(s)
  /\ Local(s, [sess[s] EXCEPT !.pc = "commit"])

\* "registration abandoned, nothing was recorded"
Rollback(s) ==
  /\ (At(s, "finish") /\ ~Unlocked(s)) \/ (At(s, "stamp") /\ ~SameFile(s))
  /\ Fail(s)

\* COMMIT, whatever has become of the file since it was proven.
Commit(s) ==
  /\ At(s, "commit")
  /\ archives' = [archives EXCEPT ![sess[s].target] =
                    [uuid |-> sess[s].uuid, path |-> sess[s].path,
                     status |-> StatusOf(sess[s].uuid), aged |-> FALSE]]
  /\ replica' = [replica EXCEPT ![sess[s].target] = RowsRead(s)]
  /\ emptied' = emptied \ {sess[s].target}
  /\ Committed(s, Resume(s), TRUE)
  /\ UNCHANGED world

-----------------------------------------------------------------------------
(***************************************************************************)
(* Master::sync, with and without --prune.                                 *)
(***************************************************************************)
StartWalk(s, c) ==
  /\ At(s, "idle") /\ c \in Commands[s] \ {"add", "rm"}
  /\ Local(s, [Idle EXCEPT !.pc = "next", !.cmd = c, !.list = archives])

\* Faulty variant: the walk does not leave a row behind.
ListedFrom(s) == {i \in Id : i >= sess[s].cur /\ sess[s].list[i].uuid # None}

Listed(s) == {i \in Id : i > sess[s].cur /\ sess[s].list[i].uuid # None}
IsNext(s, i) == At(s, "next") /\ IsFirst(i, Listed(s))

EndWalk(s) ==
  /\ At(s, "next") /\ Listed(s) = {}
  /\ Local(s, [Idle EXCEPT !.pc = "done", !.cmd = sess[s].cmd,
                           !.alone = sess[s].alone])

\* db_path.exists() of the row list() returned.
AfterMissing(s) == IF Running(s, {"prune"}) THEN "age" ELSE "next"
SyncVisit(s) == \E i \in Id :
  /\ IsNext(s, i) /\ Running(s, {"sync", "prune"})
  /\ Local(s, [sess[s] EXCEPT
       !.cur = i,
       !.pc = IF disk[sess[s].list[i].path] # None THEN "identify"
              ELSE IF sess[s].list[i].status # "db-missing" THEN "missing"
              ELSE AfterMissing(s)])

\* Faulty variants: a rebuilt index is taken for the listed one; an unreadable
\* index is skipped.
SyncIdentifyByStatus(s) ==
  /\ At(s, "identify")
  /\ LET row == sess[s].list[sess[s].cur]
     IN Local(s,
          IF ~Readable(row.path) THEN [sess[s] EXCEPT !.pc = "unreadable"]
          ELSE IF row.status = "db-missing"
          THEN [sess[s] EXCEPT !.pc = "open", !.path = row.path]
          ELSE [sess[s] EXCEPT !.pc = "refresh", !.uuid = disk[row.path]])
SyncIdentifySkips(s) ==
  /\ At(s, "identify")
  /\ LET row == sess[s].list[sess[s].cur]
         u == disk[row.path]
     IN Local(s,
          IF ~Readable(row.path) THEN Resume(s)
          ELSE IF u # row.uuid \/ row.status = "db-missing"
          THEN [sess[s] EXCEPT !.pc = "open", !.path = row.path]
          ELSE [sess[s] EXCEPT !.pc = "refresh", !.uuid = u])

\* read_identity, and the choice it leads to.
SyncIdentify(s) ==
  /\ At(s, "identify")
  /\ LET row == sess[s].list[sess[s].cur]
         u == disk[row.path]
     IN Local(s,
          IF ~Readable(row.path) THEN [sess[s] EXCEPT !.pc = "unreadable"]
          ELSE IF u # row.uuid \/ row.status = "db-missing"
          THEN [sess[s] EXCEPT !.pc = "open", !.path = row.path]
          ELSE [sess[s] EXCEPT !.pc = "refresh", !.uuid = u])

\* set_status(db-missing) for an absent or an unreadable index.
SyncMark(s) ==
  /\ At(s, "missing") \/ At(s, "unreadable")
  /\ UpdateRow(s, sess[s].cur, [archives[sess[s].cur] EXCEPT !.status = "db-missing"],
       [sess[s] EXCEPT !.pc = IF At(s, "missing") THEN AfterMissing(s) ELSE "next"])

\* Same index as listed: status, db_size, db_mtime_unix and synced_unix.
SyncRefresh(s) ==
  /\ At(s, "refresh")
  /\ UpdateRow(s, sess[s].cur,
       [archives[sess[s].cur] EXCEPT !.status = StatusOf(sess[s].uuid), !.aged = FALSE],
       Resume(s))

\* synced_unix is read again; a row that is gone counts as expired.
Expired(i) == ~Registered(i) \/ archives[i].aged
PruneCheck(s) ==
  /\ At(s, "age")
  /\ Local(s, IF Expired(sess[s].cur)
              THEN [sess[s] EXCEPT !.pc = "find", !.target = sess[s].cur]
              ELSE Resume(s))

-----------------------------------------------------------------------------
(***************************************************************************)
(* Master::verify.                                                         *)
(***************************************************************************)
SourceRecorded(s) == SourceOf[sess[s].list[sess[s].cur].uuid]

VerifyVisit(s) == \E i \in Id :
  /\ IsNext(s, i) /\ Running(s, {"verify", "deep"})
  /\ LET row == sess[s].list[i]
         src == SourceOf[row.uuid]
         at(pc, v) == [sess[s] EXCEPT !.cur = i, !.pc = pc, !.verdict = v]
     IN Local(s,
          IF row.status \in {"db-missing", "v2-limited"} THEN at("next", "ok")
          ELSE IF now[src] = None THEN at("judged", "archive-missing")
          ELSE IF src \in DirSource THEN at("next", "ok")
          ELSE at("compare", "ok"))

\* A stat is stored for tar sources and not by v2, a hash by complete builds.
HasStat(u) == u \notin V2 /\ SourceOf[u] \notin DirSource
HasHash(u) == HasStat(u) /\ u \notin Partial
StatOfContent(c) == IF c = None THEN None ELSE StatOf[c]

\* The stored stat comes from the live row, the hash from the listed one.
StatDiffers(s, i) ==
  LET u == archives[i].uuid
  IN HasStat(u) /\ StatOfContent(now[SourceRecorded(s)]) # StatOf[seen[u]]
\* Faulty variant: a source that is back stays marked.
JudgeStaleOnly(s, stale) ==
  LET row == sess[s].list[sess[s].cur]
  IN IF stale THEN [sess[s] EXCEPT !.pc = "judged", !.verdict = "stale-index"]
     ELSE IF row.status = "stale-index"
     THEN [sess[s] EXCEPT !.pc = "judged", !.verdict = Completeness(row.uuid)]
     ELSE Resume(s)

\* What verify does with its finding: a fresh index only has to be unmarked.
Judge(s, stale) ==
  LET row == sess[s].list[sess[s].cur]
  IN IF stale THEN [sess[s] EXCEPT !.pc = "judged", !.verdict = "stale-index"]
     ELSE IF row.status \in {"stale-index", "archive-missing"}
     THEN [sess[s] EXCEPT !.pc = "judged", !.verdict = Completeness(row.uuid)]
     ELSE Resume(s)

VerifyCompare(s) ==
  /\ At(s, "compare") /\ Registered(sess[s].cur)
  /\ LET stale == StatDiffers(s, sess[s].cur)
         hashed == Running(s, {"deep"}) /\ HasHash(sess[s].list[sess[s].cur].uuid)
     IN Local(s, IF ~stale /\ hashed THEN [sess[s] EXCEPT !.pc = "hash"]
                 ELSE Judge(s, stale))

VerifyHash(s) ==
  /\ At(s, "hash") /\ now[SourceRecorded(s)] # None
  /\ Local(s, Judge(s, now[SourceRecorded(s)] # seen[sess[s].list[sess[s].cur].uuid]))

\* query_row finds no such archive_id, or the source cannot be opened to be
\* hashed: verify returns the error.
VerifyFails(s) ==
  /\ \/ At(s, "compare") /\ ~Registered(sess[s].cur)
     \/ At(s, "hash") /\ now[SourceRecorded(s)] = None
  /\ Fail(s)

VerifyMark(s) ==
  /\ At(s, "judged")
  /\ UpdateRow(s, sess[s].cur,
       [archives[sess[s].cur] EXCEPT !.status = sess[s].verdict], Resume(s))

-----------------------------------------------------------------------------
(***************************************************************************)
(* Master::rm, by archive_id or by db_path, and from sync --prune.         *)
(***************************************************************************)
StartRm(s, i, p) ==
  /\ At(s, "idle") /\ "rm" \in Commands[s]
  /\ Local(s, [Idle EXCEPT !.pc = "find", !.cmd = "rm", !.target = i, !.path = p])

KeyMatches(s) ==
  {i \in Id : Registered(i) /\ (i = sess[s].target \/ archives[i].path = sess[s].path)}

RmFind(s) ==
  /\ At(s, "find")
  /\ \E i \in Id :
       /\ KeyMatches(s) = {i}
       /\ Local(s, [sess[s] EXCEPT !.pc = "dropFiles", !.target = i])

RmRefused(s) ==
  /\ At(s, "find")
  /\ \A i \in Id : KeyMatches(s) # {i}
  /\ Fail(s)

\* Two autocommit statements, in two steps.
RmFiles(s) ==
  /\ At(s, "dropFiles") /\ ~WriteLocked(s)
  /\ replica' = [replica EXCEPT ![sess[s].target] = None]
  /\ emptied' = emptied \union {sess[s].target}
  /\ Committed(s, [sess[s] EXCEPT !.pc = "dropRow"],
               replica[sess[s].target] # None)
  /\ UNCHANGED <<archives, world>>

\* Faulty variant: foreign keys are not enforced.
RmRowNoCascade(s) ==
  /\ At(s, "dropRow") /\ ~WriteLocked(s)
  /\ archives' = [archives EXCEPT ![sess[s].target] = NoRow]
  /\ Committed(s, Resume(s), Registered(sess[s].target))
  /\ UNCHANGED <<replica, emptied, world>>

\* DELETE FROM archives, with ON DELETE CASCADE on files.
RmRow(s) ==
  /\ At(s, "dropRow") /\ ~WriteLocked(s)
  /\ archives' = [archives EXCEPT ![sess[s].target] = NoRow]
  /\ replica' = [replica EXCEPT ![sess[s].target] = None]
  /\ emptied' = emptied \ {sess[s].target}
  /\ Committed(s, Resume(s), Registered(sess[s].target))
  /\ UNCHANGED world

\* The command has returned Ok to main.rs and the process exits.
Return(s) == At(s, "done") /\ Local(s, Idle)

-----------------------------------------------------------------------------
(***************************************************************************)
(* What happens outside the sessions: index files are built, moved, copied *)
(* and deleted, a writer opens one, sources change, days go by, and a      *)
(* session is killed.                                                      *)
(***************************************************************************)
\* Paths in P got another file: their stamps no longer compare equal.
Outside(P) ==
  /\ budget > 0 /\ budget' = budget - 1
  /\ sess' = [t \in Session |->
                IF At(t, "idle") THEN sess[t]
                ELSE [sess[t] EXCEPT !.alone = FALSE,
                        !.intact = sess[t].intact /\ sess[t].path \notin P]]
  /\ UNCHANGED master

\* A build is promoted by rename over its final path (indexer.rs).
Build(p, u) ==
  /\ "build" \in Events /\ seen[u] = None /\ now[SourceOf[u]] # None
  /\ p \notin locked
  /\ disk' = [disk EXCEPT ![p] = u]
  /\ seen' = [seen EXCEPT ![u] = now[SourceOf[u]]]
  /\ longGone' = longGone \ {p}
  /\ Outside({p}) /\ UNCHANGED <<locked, now, moved>>

Relocate(p, q, keep) ==
  /\ p # q /\ disk[p] # None /\ p \notin locked /\ q \notin locked
  /\ disk' = [disk EXCEPT ![q] = disk[p], ![p] = IF keep THEN disk[p] ELSE None]
  /\ moved' = TRUE
  /\ longGone' = longGone \ {q}
  /\ Outside(IF keep THEN {q} ELSE {p, q}) /\ UNCHANGED <<locked, seen, now>>

Move(p, q) == "move" \in Events /\ Relocate(p, q, FALSE)
Copy(p, q) == "copy" \in Events /\ Relocate(p, q, TRUE)

Delete(p) ==
  /\ "delete" \in Events /\ disk[p] # None /\ p \notin locked
  /\ disk' = [disk EXCEPT ![p] = None]
  /\ Outside({p}) /\ UNCHANGED <<locked, seen, now, moved, longGone>>

WriterComes(p) ==
  /\ "lock" \in Events /\ disk[p] # None /\ p \notin locked
  /\ locked' = locked \union {p}
  /\ Outside({}) /\ UNCHANGED <<disk, seen, now, moved, longGone>>

WriterGoes(p) ==
  /\ "lock" \in Events /\ p \in locked
  /\ locked' = locked \ {p}
  /\ Outside({}) /\ UNCHANGED <<disk, seen, now, moved, longGone>>

ChangeSource(src, v) ==
  /\ "source" \in Events /\ now[src] # v
  /\ now' = [now EXCEPT ![src] = v]
  /\ Outside({}) /\ UNCHANGED <<disk, locked, seen, moved, longGone>>

DaysPass ==
  /\ "days" \in Events /\ budget > 0 /\ budget' = budget - 1
  /\ archives' = [i \in Id |-> IF Registered(i) THEN [archives[i] EXCEPT !.aged = TRUE]
                               ELSE NoRow]
  /\ longGone' = {p \in Path : disk[p] = None}
  /\ sess' = [t \in Session |-> IF At(t, "idle") THEN sess[t]
                                ELSE [sess[t] EXCEPT !.alone = FALSE]]
  /\ UNCHANGED <<replica, disk, locked, seen, now, moved, emptied>>

Crash(s) ==
  /\ "crash" \in Events /\ ~At(s, "idle") /\ budget > 0
  /\ budget' = budget - 1
  /\ sess' = [sess EXCEPT ![s] = Idle]
  /\ UNCHANGED <<master, disk, locked, seen, now, moved, longGone>>

-----------------------------------------------------------------------------
Init ==
  /\ archives = [i \in Id |-> NoRow]
  /\ replica = [i \in Id |-> None]
  /\ disk = [p \in Path |-> None]
  /\ locked = {}
  /\ seen = [u \in Uuid |-> None]
  /\ now \in [Source -> Version]
  /\ sess = [s \in Session |-> Idle]
  /\ budget = Budget
  /\ moved = FALSE
  /\ emptied = {}
  /\ longGone = Path

AddStep(s) == OpenIndex(s) \/ OpenRefused(s) \/ Lookup(s) \/ Upsert(s)
              \/ UpsertRefused(s) \/ FinishJournal(s) \/ FinishStamp(s)
              \/ Rollback(s) \/ Commit(s)
SyncStep(s) == SyncVisit(s) \/ SyncIdentify(s) \/ SyncMark(s) \/ SyncRefresh(s)
               \/ PruneCheck(s)
VerifyStep(s) == VerifyVisit(s) \/ VerifyCompare(s) \/ VerifyHash(s)
                 \/ VerifyFails(s) \/ VerifyMark(s)
RmStep(s) == RmFind(s) \/ RmRefused(s) \/ RmFiles(s) \/ RmRow(s)

\* The steps a running command takes by itself.
Step(s) == AddStep(s) \/ SyncStep(s) \/ VerifyStep(s) \/ RmStep(s)
           \/ EndWalk(s) \/ Return(s)

Start(s) ==
  \/ \E p \in Path : StartAdd(s, p) \/ StartRm(s, 0, p)
  \/ \E i \in Id : StartRm(s, i, None)
  \/ \E c \in AllCommands : StartWalk(s, c)

Environment ==
  \/ \E p \in Path : Delete(p) \/ WriterComes(p) \/ WriterGoes(p)
  \/ \E p \in Path, u \in Uuid : Build(p, u)
  \/ \E p, q \in Path : Move(p, q) \/ Copy(p, q)
  \/ \E src \in Source, v \in Version \union {None} : ChangeSource(src, v)
  \/ DaysPass
  \/ \E s \in Session : Crash(s)

Next == Environment \/ \E s \in Session : Start(s) \/ Step(s) \/ Busy(s)

Spec == Init /\ [][Next]_vars

\* A running command goes on: no step waits for anything but SQLite's busy
\* handler, which gets the lock or gives up after five seconds.
FairSpec == Spec /\ \A s \in Session : WF_vars(Step(s) \/ Busy(s))

-----------------------------------------------------------------------------
(* Properties. *)

\* Every variable has its type.
TypeOK ==
  /\ archives \in [Id -> Row]
  /\ replica \in [Id -> Uuid \union {None}]
  /\ disk \in [Path -> Uuid \union {None}]
  /\ locked \subseteq Path
  /\ seen \in [Uuid -> Version \union {None}]
  /\ now \in [Source -> Version \union {None}]
  /\ sess \in [Session -> SessionState]
  /\ budget \in 0..Budget
  /\ moved \in BOOLEAN
  /\ emptied \subseteq Id
  /\ longGone \subseteq Path

\* The file rows stored under an archive_id come from the index that the
\* registry row names, and no rows are left behind when the row is gone, so a
\* reused archive_id never inherits another index's files (add, rm).
ReplicaCoherent ==
  \A i \in Id : replica[i] # None => replica[i] = archives[i].uuid

\* A row lacks file rows of its index only while an rm of it is half done: once
\* that rm has been killed, or has given up, no sync brings them back (rm, sync).
Replicated ==
  \A i \in Id : Registered(i) /\ i \notin emptied => replica[i] = RowsOf(archives[i].uuid)

\* No two registry rows carry the same index_uuid (add).
UniqueUuid ==
  \A i, j \in Id : Registered(i) /\ archives[i].uuid = archives[j].uuid => i = j

\* What a session has in hand is real: while it identifies a row it has a
\* listed one, while it registers an index it has the index's path and, while
\* the stamp is unchanged, the file itself, and while it writes no other row
\* has the index's uuid (add, sync).
InHand(r) ==
  /\ r.pc = "identify" => r.cur \in Id /\ r.list[r.cur] # NoRow
  /\ r.pc \in {"open"} \union MidAdd => r.path # None
  /\ r.pc \in MidAdd =>
       r.uuid # None /\ (r.intact => disk[r.path] = r.uuid)
  /\ r.pc \in WriterPC =>
       r.target \in Id /\ \A j \in Id \ {r.target} : archives[j].uuid # r.uuid
  /\ r.pc \in {"dropFiles", "dropRow"} => r.target \in Id
SessionsInHand == \A s \in Session : InHand(sess[s])

\* At most one session is between its first write and COMMIT (add).
OneWriter == \A s, t \in Session : Writing(s) /\ Writing(t) => s = t

\* The inductive invariant behind the theorems.
CatalogInv ==
  TypeOK /\ ReplicaCoherent /\ Replicated /\ UniqueUuid /\ SessionsInHand /\ OneWriter

\* As long as index files only appear, are rebuilt in place and disappear, a
\* path is registered once, however the sessions interleave (add, sync).
OneRowPerRebuiltPath ==
  moved \/ \A i, j \in Id :
              Registered(i) /\ archives[i].path = archives[j].path => i = j

\* Nothing outside session s changed since its command began, which has now
\* returned Ok; the row's path is registered twice; the index at it is at
\* another path too.
Undisturbed(s, cmds) == At(s, "done") /\ Running(s, cmds) /\ sess[s].alone
PathIsShared(i) == \E j \in Id \ {i} : archives[j].path = archives[i].path
IsCopied(i) == \E p \in Path \ {archives[i].path} : disk[p] = disk[archives[i].path]

\* What a returned sync tells is so: an absent or unreadable index is marked,
\* any other row has the identity, status and file rows of the index that is
\* at its path, although sync decided from the list it read first.
SyncTells ==
  \A s \in Session, i \in Id :
    Undisturbed(s, {"sync", "prune"}) /\ Registered(i) =>
      IF Readable(archives[i].path)
      THEN PathIsShared(i) \/ IsCopied(i) \/
           /\ archives[i].uuid = disk[archives[i].path]
           /\ archives[i].status = StatusOf(archives[i].uuid)
           /\ i \in emptied \/ replica[i] = RowsOf(archives[i].uuid)
      ELSE archives[i].status = "db-missing"

\* What a returned verify tells is so: a tar source that is gone, or whose
\* stat differs, is marked accordingly, a mark is never stale itself, and
\* after --deep an unmarked complete index has the content of its source.
VerifyTells ==
  \A s \in Session, i \in Id :
    LET st == archives[i].status
        u == archives[i].uuid
    IN Undisturbed(s, {"verify", "deep"}) /\ Registered(i)
       /\ st \notin {"db-missing", "v2-limited"} /\ HasStat(u) =>
         /\ (st = "archive-missing") <=> (now[SourceOf[u]] = None)
         /\ now[SourceOf[u]] # None =>
              /\ st = "stale-index" => now[SourceOf[u]] # seen[u]
              /\ StatOf[now[SourceOf[u]]] # StatOf[seen[u]] => st = "stale-index"
              /\ Running(s, {"deep"}) /\ HasHash(u) /\ st # "stale-index" =>
                   now[SourceOf[u]] = seen[u]

\* Every command returns, whatever other sessions hold the write lock.
EveryCommandEnds == \A s \in Session : ~At(s, "idle") ~> At(s, "idle")

\* Whatever else the sessions do, if again and again a sync runs undisturbed
\* then, once files stop changing, the registry agrees with the disk for good;
\* except when an index was moved: then a sync may fail each time (add).
Agrees(i) ==
  Registered(i) =>
    IF Readable(archives[i].path)
    THEN archives[i].status # "db-missing" /\ archives[i].uuid = disk[archives[i].path]
    ELSE archives[i].status = "db-missing"
SyncRepeats == []<>(\E s \in Session : Undisturbed(s, {"sync"}))
SyncSettles == SyncRepeats => <>[](moved \/ \A i \in Id : Agrees(i))

-----------------------------------------------------------------------------
(* What the documents say and the code does not do. *)

\* "no duplicate rows possible": a db_path is registered once.
OneRowPerPath ==
  \A i, j \in Id : Registered(i) /\ archives[i].path = archives[j].path => i = j

\* "Delete registrations whose .db has been missing this many days": what
\* sync --prune removes has had no file since before the cutoff.
PruneOnlyLongGone ==
  [][\A s \in Session : Running(s, {"prune"}) /\ RmRow(s) =>
       LET row == archives[sess[s].target]
       IN row.uuid # None => row.path \in longGone]_vars

\* "Two-layer staleness, surfaced separately": a stale-index mark goes only
\* when the row gets another index or the source is as it was indexed.
StaleStaysReported ==
  [][\A i \in Id : archives[i].status = "stale-index" /\ archives'[i].status = "ok" =>
       \/ archives'[i].uuid # archives[i].uuid
       \/ now[SourceOf[archives[i].uuid]] = seen[archives[i].uuid]]_vars

-----------------------------------------------------------------------------
(***************************************************************************)
(* The sessions together implement Registry, in which a registration is    *)
(* proven in one step and recorded in another, with only files changing in *)
(* between, and every change of status and removal is one step.            *)
(***************************************************************************)
Entries == {[uuid |-> archives[i].uuid, path |-> archives[i].path,
             status |-> archives[i].status, rows |-> replica[i]]
              : i \in {j \in Id : Registered(j)}}
Proven == {[uuid |-> sess[s].uuid, path |-> sess[s].path]
             : s \in {t \in Session : At(t, "commit")}}
Abstract == INSTANCE Registry WITH entries <- Entries, proven <- Proven

\* No interleaving, conflict or crash of the sessions shows in the registry:
\* each of their steps is an atomic step of Registry or changes nothing there.
\* What is recorded was at its path when its reading ended, and nothing else
\* was recorded since.
ImplementsRegistry == Abstract!Spec
=============================================================================
