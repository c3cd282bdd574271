# A TLA+ model of BackupSage

BackupSage indexes backup archives and directories into SQLite files, keeps a
catalog of these indexes, and answers from them what is duplicated, what is
covered by how many copies and what differs.  It never changes a backup.  This
directory holds TLA+ specifications of the parts whose correctness depends on
order: concurrent commands on one catalog, index files that are replaced while
they are read, interrupted builds, supervised child processes, and the
judgements derived from all of these.  Paths below are relative to the
repository (`src/src/core/...` is the Rust crate's `src/core/...`).

## 1. The system

| Component | Source | State | Operations | Hard part |
|---|---|---|---|---|
| Master catalog | `core/master.rs` | `master.db`: registry rows, replicated file rows | add, sync, sync --prune, verify, verify --deep, rm, list | several processes on one database; a walk over an old list; index files replaced meanwhile |
| Master opening | `core/master.rs:93-232` | application id, schema | probe, open_at, open_in_memory | a crash while the file is created |
| Index reading | `core/index_read.rs`, `core/searcher.rs:46-110` | a read transaction on one inode, a stamp | open, finish | the file is replaced, written or journaled while it is read |
| Index building | `core/indexer.rs` | the staged file, the batch transaction, the final path | create, batches, finish, promote, cancel | killed or cancelled at any point; two builds of one archive; a reader meanwhile |
| Output files | `core/outpath.rs` | the protected set, the staged report, the destination | protect, check, stage, promote | an output that would replace an input under another name; a race for the name; a kill between link and unlink |
| Store | `core/store.rs` | the tables of one index | hard-link resolution, shadowing, finalize | a fixpoint over links; order of entries |
| Directory source and reuse | `core/source_dir.rs`, `source_dir/reuse.rs` | snapshot of a tree, the previous index | walk, read a stable file, reuse a row | files change while they are read |
| Search | `core/searcher.rs` | none | search one, search all | the registry list is old when an index is opened |
| Dedup | `core/dedup.rs` | groups of file rows | exact groups, near groups, keeper, actionable | several statements without a transaction; grouping rules |
| Plan | `core/plan.rs` | a JSON plan | build, load, verify | a tampered or inconsistent plan must be refused |
| Coverage | `core/coverage_input.rs`, `coverage.rs`, `coverage_report.rs`, `floors.rs` | trust, currency and presence of each copy | load, trust, group, evaluate a floor | unknown must never count as present or as absent |
| Diff | `core/diff_input.rs`, `diff.rs` | two loaded indexes | load, probe source, compare | confidence of a verdict |
| Borg runtime | `core/borg/*.rs` | child process, pipes, private state directory | supervise, run, execute, create and validate state | timeout, cancellation, output limits and exit race; orphan grandchildren |
| Borg guard | `core/borg_guard.rs` | none | classify a path | pure |
| Legacy rows | `core/legacy.rs` | none | could_be | pure |
| Progress | `core/progress.rs` | cancellation flag, deadline | cancel, check | polled by the builders |
| Media helpers | `core/phash.rs`, `core/exif_date.rs` | none | hashes, dates | pure arithmetic over image data |
| Rendering and CLI | `main.rs`, `cli.rs`, `format.rs`, `report.rs`, `terminal.rs`, `textsafe.rs`, `web/lib.rs` | none | print | presentation |

How they interact: the CLI runs one command per process.  A build writes a
staged file beside the final path and renames it over (outpath); a report that is
written to a file is staged too, but never replaces anything.  Every reader
goes through the locked reader (index_read).  The catalog reads an index
through it and copies its rows; search, dedup and coverage start from the
catalog's list and open the indexes by the recorded path, so the catalog can be
older than the files and the files can be older than the sources.  Nothing
locks across processes but SQLite's own locks.

What makes each part correct:

- catalog: rows stored under an id come from the index that the registry names;
  concurrent commands look atomic; what sync and verify report is so; repeated
  sync catches up with the disk;
- reading: what is returned comes from one state of one file, or an error is;
- building: the final path holds a complete index, the old one or nothing; a
  foreign file is never replaced; an interrupted build is never taken for a
  complete one;
- store: a hard link has the content of what it links to; the last entry of a
  path wins;
- reuse: a reused row describes the file as it is;
- coverage: a copy counts only if it is trusted and current; a floor is met,
  missed or undecided, never guessed;
- dedup and plan: what is actionable is still there in its keeper when all that
  is actionable is gone; an accepted plan is canonical and was true of the indexes
  while it was verified, and carrying it out in any order does what it says;
- diff: a difference, a move or an absence is claimed only if it is proven;
- output files: no input and no foreign file is ever changed or shadowed;
- catalog opening: a foreign file stays as it is, a master is recognised as one
  whatever was killed while it was created;
- Borg runtime: no process outlives a run; the failure that is reported is one
  that happened; ok is answered only after every input was found in order again
  since the run ended.

## 2. The modules

### MasterCatalog (`core/master.rs`)

State: `archives` and `replica` are the two tables, `disk` the index file at
every path, `locked` the paths with a writer or a journal beside the index,
`seen` and `now` the content each index was built from and the content its
source has now.  `sess` holds for every process the position in its command and
what it holds in local variables: the list it walks, the row it is at, the index
it reads, the archive_id the next statement will touch.  Two flags stand for
what SQLite and the stamp check know: `current` (the transaction's snapshot is
still the latest commit) and `intact` (the file at the path is still the one
that was opened).  `emptied` remembers the ids of which an rm has deleted the
file rows and not yet, or never, the registration: Replicated says that these are
the only registrations whose file rows are not those of their index.

An index is identified by its uuid; a build makes a new one.  So all an index
says is a function of the uuid (`SourceOf`, `V2`, `Partial`, `StatusOf`,
`RowsOf`) and the file rows are represented by the uuid they were read from.

| Actions | Code |
|---|---|
| StartAdd, OpenIndex/OpenRefused, Lookup, Upsert/UpsertRefused, FinishJournal, FinishStamp, Commit/Rollback | `Master::add`, `resolve_db_arg`, `read_identity`, `register_tx`, `replicate_from`, `finish_index` |
| StartWalk, SyncVisit, SyncIdentify, SyncMark, SyncRefresh, PruneCheck, EndWalk | `Master::sync`; add and rm within it are the actions above and below |
| VerifyVisit, VerifyCompare, VerifyHash, VerifyFails, VerifyMark | `Master::verify` |
| StartRm, RmFind/RmRefused, RmFiles, RmRow | `Master::rm` |
| Busy, Crash | the busy handler giving up; a killed process |
| Build, Move, Copy, Delete, WriterComes/Goes, ChangeSource, DaysPass | what happens outside |

Each action is one SQL statement or one file-system observation with the local
code after it.  The replication of the rows is part of Upsert, because the write lock
and the snapshot of the index hide its statements from everybody else.  The two
looks of `finish_index` (at the files beside the index, FinishJournal, and at its
stamp, FinishStamp) and COMMIT are steps of their own: files change between them.
In WAL mode a deferred transaction whose snapshot is old cannot become a writer
(SQLITE_BUSY_SNAPSHOT): that is `SnapshotIsLatest`.

`Registry` is the abstract specification: registrations that appear, change
status, lose their rows and disappear in single steps, under the files at the
paths, which change by themselves.  An index is proven in one step, while it is at the
path as a whole, and recorded in a later one, by which the file may be another; between
the two nobody else records anything.  `ImplementsRegistry` checks that the
catalog implements it, with `Entries` and `Proven` as refinement mapping.

Abstractions: labels and source paths as rm keys are left out (archive_id and
db_path remain); `synced_unix` is young or aged; a `.db` argument only, not the
source path that resolves to it; several targets of `master add` are several
commands.  The catalog is open already; MasterOpening is about how it gets there.


### MasterOpening (`core/master.rs:93-232`)

State: `catalog` is what stands under the path of master.db (format, application
id, tables, columns, WAL, whether a link stands there, and who made the file),
`atFirst` what stood there before, `opener` the position of every session.

| Actions | Code |
|---|---|
| Look, ReadAppId, ReadTables | `Master::probe`: link, size, header, application id, tables of version 1 |
| CreateFile, StampId, SetJournal | `Master::open_at` up to the connection in WAL mode |
| CreateArchives, CreateFiles, MigratePathRaw, MigrateContentMode | `init_master_conn`: every statement commits by itself, and a migration looks for its column before it adds it |
| Stopped, Again | a statement fails, the process is killed, the command is given again |

Only BackupSage creates a file under the path meanwhile (a file that another
program puts between the probe and `Connection::open` would be adopted).

### OutputFiles (`core/outpath.rs`)

State: `entries` is a file system (locations to directories, files with inodes,
links), `outRun` the command: its inputs, the destination, the position.

| Definitions | Code |
|---|---|
| Spellings, NormalizeName, Lenient, LinkChain | the names and identities that a path is protected under, also when it, or a link on the way to it, leads nowhere |
| AddFile, AddDb, AddInputFile, AddInputDb, AddDirTree, Protected | `ProtectedSet` and what dedup and coverage put into it |
| Gate, ClearStage, CreateStage, WriteStage, LinkOutput, Unstage | `check_dest`, `write_new_file`, `promote_no_clobber` |
| KilledWriting, NameTaken, Restore | kill -9 between two calls; other programs that take a name or bring a missing input back |

A lookup is a record: where it is, the names that are left, the links behind it.
Onward is one name of the kernel's lookup, ResolveOnward one of `resolve_lenient`;
Follow and ResolveLenient take `MaxNames` of them, and what has not ended by then leads
nowhere.  All paths are absolute.  Names are sequences of `Parts`, so that a sidecar or a
stage is the name with something put to it.  A directory that another program replaces
by a link between check and write is not covered: the code cannot see it either.
A coverage takes a directory as an input with its whole tree, a dedup as a mere name and
identity; OutputSafe asks the tree of a coverage only, SourceTreesSpared of every
command (section 5).
OutputAssumption says of the file systems that entries lead through the root and of the
inputs, links and outputs that none has the stage's name in it (section 5).

### Processing and DirectoryIndex (`core/indexer.rs`, `core/source_dir.rs`, `source_dir/reuse.rs`)

Processing is the row that the indexer derives from the bytes of a file under a
name (hash, kind, flags), decoding being a function of the bytes (`Decodes`,
`Binary`).  DirectoryIndex has `tree` (what is under every name, with a stamp that
every change renews) and `dirRun` (the position of the build, its two snapshots,
the handle it holds, its rows).

| Actions | Code |
|---|---|
| OpenPrevious, Cached | `open_previous` and the rows that may be reused |
| List, StampNext, Stamped, Compare | `source_snapshot` before and after, `snapshots_match` |
| CountEntries, Walk, WalkEnds | the count and the walk |
| StatEntry, ReadLink, CheckEntry, OpenEntry, ReadFirst, ReadRest, RecheckEntry | one entry: stat, identity against the snapshot, open, fstat, read, fstat and stat again; a failure degrades the row or fails the run |
| CancelRun, TreeChanges | cancellation; other programs |

One level of directories stands for all.  A stamp (device, inode, size, mode,
links, mtime, ctime) differs after every change: the granularity of ctime is
abstracted, as in IndexFile.

### TarIndex (`core/indexer.rs`, `core/store.rs`)

State: `archive` is the sequence of members, `tarRun` the position in it, the rows,
the counters and the buffered word frequencies.

| Actions | Code |
|---|---|
| CorruptMember, SkipMember, LinkMember, UnreadMember, ReadMember | `index_tar`, one member at a time, with PAX sparse names and sizes and broken PAX records |
| Finish | the flush of the word statistics and `finalize_v3`: ResolveLinks (five passes) and MarkShadowed |
| PromoteTar, CancelTar | promotion, cancellation |

The reference is `Extracted`: what a tar leaves in an empty directory.  Names that
are not UTF-8 have a text (`Rendered`) that others may share.

### Dedup (`core/dedup.rs`)

State: `cat` is the master catalog (archives and their rows), `found` the command:
what it has read, the forest of the union-find, the groups.

| Actions | Code |
|---|---|
| ListRegistry, ReadAlgo, CompareAlgos, FetchScope, CountUnhashed | the statements of `run_dedup`, each a transaction of its own |
| UnitePair | one union of `near_pairs`; any order, since a HashMap gives it |
| Assemble | exact and near groups, keeper, actionable members, filter, order, limits |
| CatalogCommitted | another session's commit between two statements |

`IsCatalog` is what the tables guarantee of whatever is read: ids are keys.  The
root of an image in the forest, a total and what chains of close images connect
are defined without recursion: the root is the one that every set closed under
`parent` around the image holds, a total counts the bytes, and Within is the least
set closed under closeness.

### Plan (`core/plan.rs`)

State: `paper` is what is under the plan's path, `disk` the directories and the
indexes the plan binds, `plan` the position, the document, the file that is open.

| Definitions and actions | Code |
|---|---|
| Canonicalize and its parts (Displayed, Conflicted, CanonicalRoots, CanonicalGroups, CanonicalActions, ExcludedSorted, Summarized) | `canonicalize`; the order of the parts matters and is the code's |
| VerifyDerived, InvariantsHold | `verify_derived`, `invariants_hold` |
| Build, Write | canonical bytes and the writing of a plan |
| Inspect, Open, Read | `Plan::load_from_regular_file`: the file that was looked at is the one that is read; `IsPlan` is the structure that the decoder insists on |
| VerifyRoot, GatherEntries, VerifyEntry, Accept | `verify` against the live state |
| PaperChanges, DiskChanges | edits of the file, rebuilt indexes |

The ids of actions, groups and roots are digests of injective framings; they are
modelled as the framed fields.  A path is a sequence of components with `Slash`
between them, a component a stem followed by the ordinals of its "-n" suffixes, and a
root's path is put before it to say where it is (`Spot`).  The only builders of plans are
the fixtures of the tests, which `IsDraft` is read from.  No program carries a plan out
yet.  What OrderFree says of that is `After`, action by action (`Carried`): a mkdir makes a
directory, a move takes the file at its path along and an extraction leaves the archive as
it is; each fails where a file is on the way, and a move or an extraction where a
directory is in the place.

### Evidence, Diff, Coverage and Reports (`diff_input.rs`, `diff.rs`, `legacy.rs`, `coverage_input.rs`, `coverage.rs`, `floors.rs`, `coverage_report.rs`)

Evidence is an index as a report meets it, with the truth about its source beside
the rows: `Index` holds the entries of the source, `RowsOf` the rows the indexer
stored of them (none beyond the point where it stopped, no hash of what it could
not read, another name for what is not UTF-8 in an old index), `Loaded` the
snapshot of the loader.  A property can so compare what a report says with what the source
held.  Diff and Coverage are the judgements as operators; they are evaluated
once per behaviour, by the actions of Reports.

State of Reports: `idx`, `live` and `master` are the indexes, their sources and the
master catalog, `world` what other programs may still do and what they have done,
`cmd` the command.

| Actions | Code |
|---|---|
| CheckMaster, ListRow, Recheck | the registry is listed without a lock: stamp and sidecars before, rows, stamp and sidecars after |
| Given, Choose | `--archives`, `--protected`, ad-hoc indexes |
| LoadSource, Probe, StatSource, OpenSource, MapSource | one source: its index, currency, reachability, the trust that results |
| Report | `group`, `evaluate`, the report |
| LoadBefore, LoadAfter | `diff_indexes` |
| SourceChanges, IndexChanges, MasterOpened, MasterFolded, MasterClosed | other programs, between any two of the reads |

### IndexFile (`core/indexer.rs`, `core/outpath.rs`, `core/index_read.rs`)

State: `at` is the file at every path, `linked` the paths whose file has a
second name, `stray` the paths with a `-wal` that nobody holds, `staged` what
every builder has beside every path under its temporary name, and `builder`,
`reader`, `writer` the positions of the processes.  A file is a record of what
the properties can tell apart: its owner (a source, or Foreign for a file that
is no index), how many entries are committed in it, whether `meta.completed` is
1, whether it is in WAL mode, how often it was changed in place, and whether an
SQLite transaction is half written to it.

| Actions | Code |
|---|---|
| Start, Probe, Create/CreateFails, NextDest | `run_index_with_control`, `create_db_with_fallback`, `create_staged_db`, `assert_replaceable_index` |
| Reuse | `source_dir/reuse.rs` `open_previous`, which keeps the previous index open and locked until the end |
| Record, Finalize, FoldWal | `IndexRun::record` (a COMMIT per full batch), `IndexRun::finish` |
| Ready, Promote, Tidy | the last `check_cancelled`, `finish_index` of the previous index, `IndexPaths::promote` |
| Fail | every error return after the staged file is owned: `IndexPaths::drop` |
| StartRead, Guard, Open, ReadMeta, ReadRows, CommitRead, CompareStamp | `check_index_file`, `open_checked` and `LockedIndex::open`, the caller's statements, `LockedIndex::finish` |
| Writer* | a program that changes the index through SQLite: reserved, writing, commit, rollback, crash, recovery of the hot journal |
| Replace, Overwrite, Relink, LeaveWal, Cancel, Kill | users, other programs, the frontend's cancellation, kill -9 |

Abstractions, and what they assume:

- the stamp (device, inode, links, size, mtime, ctime) is a flag of the reader,
  `intact`, which any change of the file at its path clears.  This assumes that
  ctime advances between two changes; within one tick of the file system's clock
  it does not have to;
- the builder's own locked reads (the probe) are one step: ReadCoherent, proved,
  says that a locked read that succeeds is as good as one step;
- there is one SQLite writer at a time, an overwriting program writes in one go,
  and process ids do not collide, so that every builder has its own staged names;
- what an entry contains is left out; an index is its number of entries.

`IndexSlot` is the abstract specification: a build publishes one whole index in
one step or changes nothing, and an answer shows one committed state of an index
that is at the path when the answer is given.  The refinement mapping takes the
rename as the instant of publication and the comparison of the stamps as the
instant of the answer.

### BorgRun (`core/borg/process.rs`, `core/borg/runtime.rs`)

State: `caller` is the thread in `Runtime::execute` and `process::run`, `sup`
the supervisor process, `proc` Borg and everything it started (alive, zombie or
waited for; parent; in Borg's process group or not), `pipe` the number of chunks
in stdout and stderr, `world` the cancellation flag, the deadline, which of the
`Parts` of snapshot and private state are in order, and which backend the snapshot is from.
For the property it remembers which things have been in order at a moment of the
execution before the operation's Borg started (`before`), and at one since it and everything
below it ended (`since`).

| Actions | Code |
|---|---|
| Prepare, InspectPart, Inspected, Post, Return | `Runtime::execute`: revalidation and `validate_source`, before the runs and after them, and the answer |
| Gate, Remaining, After | `Runtime::execute` and `Runtime::profile`: revalidation and the time that is left, before and between the runs |
| Spawn | `run` up to the fork of the supervisor |
| Check, ReadOut, ReadErr, Wait | one turn of `run`'s loop: cancellation and deadline, one read per stream, `Supervisor::poll` |
| Drop | `Supervisor::drop` when a callback panics |
| Setup, Reap, Reaped, Signal | `supervise`: preparation and fork, the waitpid loop, ECHILD, control pipe and kill |
| Fork, Exit, ParentWaits, Escape, WriteOut, WriteErr | whatever Borg and its descendants do |
| Cancel, Expire, Spoil, Mend | cancellation, the clock, others who put a part of snapshot or state out of order and in order again |

Nothing is assumed of Borg: it may ignore SIGTERM, flood a pipe, fork, die at any
moment or never.  SIGKILL ends every member of the group (`ticks` counts up to
`Grace` SIGTERMs first).  A read error is possible at any read, and `waitpid` for
the supervisor may fail.  The callback returns promptly, as its contract says, or
refuses, or panics.  A chunk is one read of a pipe.  `backend` is `production`,
where revalidation always refuses (there is no verified snapshot backend yet), or
`mock`, the backend of the unit tests.  `validate_source` looks at one part at a time, in
any order, and others act in between; the walk of one part is one look.  A part that is out
of order and in order again between two looks at it goes unnoticed.  The looks after the
operation are made whatever became of it.  Not modelled: a supervisor that is killed
from outside, an error that `?` would return before the fork (it leaves no
process; it is the `Spawn` failure), and the argument lists.

## 3. What the runs check

| Run | Module, cfg | Question |
|---|---|---|
| master_sessions | MCMasterCatalog, MasterSessions | two sessions add, sync and remove, are killed, and files change under them: coherent rows, one row per rebuilt path, what is recorded was proven and all else is atomic (ImplementsRegistry), CatalogInv |
| master_status | MasterStatus | one session, all commands, all kinds of index, built, deleted, moved and copied, sources that change, writers, kills: what sync and verify report is so |
| master_settles | MasterSettles | liveness: commands end, repeated undisturbed sync catches up |
| master_moved, master_prune, master_stale | MasterMoved, MasterPrune, MasterStale | expected violations, findings below |
| index_files | MCIndexFile, IndexFiles | two builds and a reader with an SQLite writer, users and kills: coherent reads, ImplementsSlot, builds and reads end |
| index_clobber, index_leak | IndexClobber, IndexLeak | expected violations, findings below |
| borg_run | MCBorgRun, BorgRun | one probe and one operation: nothing outlives a run, the answer is true, ok only after every part was found in order since the runs ended, however parts go out of order and back between the looks (OkOnlyOnTrusted), executions end |
| workbench | MCWorkbench, Workbench | the components that share no state with another: dedup (NothingLost, NearGroupsRight, ExactTold), plans (BuildSettles, AcceptedFresh, OrderFree, FloorKept), a directory's index (PointInTime), an archive's index (TarTrue), output files (OutputSafe), the opening of the catalog (OpensOwn), and diff and coverage over small sources and every defect of an index: no absence (DiffAbsence), content (DiffContent), completeness (DiffComplete, CompleteTrue) or floor (FloorTrue) is claimed that the sources do not bear out; every row is accounted for once (DiffRows, CoverageRows); the registry is one the master held (RegistryCoherent); the reports end, also when a FIFO stands where a source was (EveryReportEnds) |
| dedup_source | MCOutput, DedupSource | expected violation, findings below |

In workbench one component runs from its initial states and the others are idle:
they share no variable, so that their product would only multiply states.  Each
has a module MC* with its instances; an invariant of one is about its states
alone.

Each property of a passing run has a faulty variant of a definition beside the
definition ("Faulty variant" in the comments), and is violated when the variant
takes the definition's place.

### Bounds

- MasterCatalog: `MaxId` = 2 archive ids, 2 paths, 2 to 4 indexes, `Budget` = 3
  outside events, 1 or 2 sessions.  Two ids and two paths are what it takes for
  two rows to compete for one uuid or one path, three indexes for a rebuild of
  one beside another; two sessions with three events already let one commit fall
  between any two statements of the other, and a file change on either side of
  it.  Two sessions have 825,000 states, one session with every command and every
  event 3.1 million.  What holds for every number of sessions, paths and ids is proved.
- IndexFile: two paths (default and fallback), `Entries` = 3 with `BatchSize` = 2,
  so that a build has a full batch and a rest; `MaxVer` = 2 changes in place.
  `Budgets` is a set of scenes, each allowing two builds or a build and a read
  with a few accidents, because all accidents at once in one behaviour are too
  many states: the scenes pair every accident with a writer that may crash, and
  kills, cancellations and replacements with two builds of one destination.
- BorgRun: one probe and the operation, Borg and one descendant, pipes of
  `Cap` = 1 chunk, an output `Limit` of 1, `MaxWritten` = 2 so that the limit can be
  crossed, `Grace` = 1 SIGTERM before SIGKILL.  One descendant is enough to orphan,
  to survive Borg, to leave the group and to hold a pipe open.  The process tree
  of any size is covered by the proofs.  `Spoil` puts one
  part out of order at a time, of the snapshot and one of the two parts of the state
  (`Fragile`), which are alike; 1.3 million states.
- Reports (42,000 of the states of workbench): two sources, two names and two that are not UTF-8 and look
  alike, contents of two lengths and an empty one, indexes of up to two entries:
  every pair of ordinary entries, and every kind of doubtful entry (unread, unhashed,
  PAX, sparse, link) alone and beside an ordinary one, on either side.  Two entries let
  one name be shadowed or one content be twice in a source; two sources let a floor
  of 0, 1 and 2 be met, missed and undecided.  One event of another program per
  command can fall between any two of its reads; each judgement rests on at most three
  observations of one source.
- Workbench (236,000 states).  Dedup: two archives, up to four images with hashes of
  8 bits in four bands (so that a chain of three can be near without its ends being
  so), one commit between any two statements.  Plan: up to three actions, two
  sources, two groups, directories to be made, destinations beside and beneath one another,
  one edit of the file or one rebuilt index.  Directory: two
  names, files, links and FIFOs, up to two changes at any point.  Tar: every archive of three members
  from seven that reuse two names, archives with each special member, chains of links
  up to one more than the passes.  Output: a tree of six names with links, loops and
  chains up to one more than `MaxHops` = 2, source directories with a report beside, in and
  deep in them, one kill and one other program; no lookup there goes
through more than `MaxNames` = 10 names, as no path and no link has more than three.  Opening:
  two sessions over 24 kinds of file, stopped anywhere and tried again.

Deadlock is not checked where every process may be done and no event left
(IndexFiles, IndexClobber, IndexLeak, BorgRun, Workbench, DedupSource); a process that
is stuck before its end is found by the liveness properties of these runs (in
Workbench the other commands are sequences of calls that do not wait for anybody).

### Fairness

- a session that runs a command takes its next step or, while another holds the
  write lock, gives up after the busy timeout (`WF_vars(Step \/ Busy)`): nothing
  else in master.rs waits;
- a builder and a reader that run take their next step; nobody has to start a
  command, to cancel one or to commit a write;
- the caller and the supervisor of a Borg run are scheduled and time passes
  (`Expire`); Borg and its descendants owe nothing, so EveryRunEnds rests on the
  deadline, the signals and ECHILD alone.  EveryRunEnds assumes that no process
  that has left the group stays alive for ever: the code says that confinement
  against an escape belongs to another layer (ADR 0008), and a process that does
  stay holds the pipes and the supervisor open;
- a diff or a coverage is scheduled (`WF_vars(Command)`); an open of what may be a
  FIFO does not count as a step that is taken unless it returns (`OpenReturns`), so
  that EveryReportEnds rests on O_NONBLOCK and not on the fairness.

## 4. What is proved

TLAPS checks the following for every value of the constants that meets the
assumption of its module: CatalogAssumption, CatalogsAssumption (MasterOpening),
IndexAssumption and NoneAssumption, BorgAssumption and NotAnError,
EvidenceAssumption and ReportsAssumption, DirectoryAssumption, TarAssumption,
DedupAssumption, PlanAssumption, OutputAssumption.  They say of what kind a constant is, that the mark for "nothing" is none of the
values, and what any index, registry or row looks like that the program can have
written: a prior index of the same rules has what these rules make of the bytes
(`Sound` in DirectoryIndex), a member of an archive that is read, and whose map of holes
is known, is read as extraction leaves it (TarAssumption), an index agrees with the entries it was built from but
for what its flags admit (`WellFormed`), a key is a key (`IsCatalog`), and the bands of
a pHash are disjoint and more than the highest threshold, as the four bands of
`dedup.rs` are for `MAX_THRESHOLD` = 3.  Plan's constants are assumed to hold drafts as builders make
them (`IsDraft`): a document of the contract's structure with places as paths and sources
where the operation has one, whose actions bear no conflict yet and are not moves and
extracts at once, as no kind of plan allows (section 5); only BuildIsSettled uses it.  TLC
evaluates each assumption in a run.

**MasterProofs**, the catalog.  CatalogInv is inductive (CatalogInvariant);
TypeCorrect and ReplicaSafety follow.  ReplicaCoherent is not inductive by itself: a
commit writes rows under an id that was chosen in an earlier step.  CatalogInv adds
what a session holds between its steps (SessionsInHand: the file is still the one it
opened while the stamp is intact, and no other row has its uuid when it is about
to commit), that uuids are unique and that one session at a time is between its
first write and COMMIT.  Upsert establishes the part about other rows, the write
lock keeps it, COMMIT uses it.

What the sessions promise together.  Every step is by one session (`By`)
or by nobody (`Outdoors`), and one lemma, StepOfAnother, says what a session still has
after a step of another: its own fields, and `current`, `intact` and `alone` unless the
step cleared them (`Kept`).

- RebuiltPathHasOneRow (OneRowPerRebuiltPath).  An UPDATE takes the path from the
  file and the row from a lookup made before, so the invariant (RegistryInvariant) has
  OnePlace, which relates disk, rows and the hands of sessions (an index is at one path
  until something is moved), and InSnapshot (what the lookup found is still so while
  the snapshot is the latest and while the session holds the lock).
- SessionsImplementRegistry (ImplementsRegistry).  Each action is mapped: the comparison
  of the stamp to Prove, COMMIT to Register, whatever takes a session off its way to COMMIT
  to Withdraw, an UPDATE of a status to Mark, the two DELETEs to Empty and Remove, all
  else to a stutter.  `Entries` is a set of registrations without their ids, which
  UniqueUuid makes as good as the table.
- SyncIsTrue and VerifyIsTrue (SyncTells, VerifyTells).  As long as nothing disturbs
  the command (`alone`), the rows ahead of the walk are as they were listed, those
  behind are right, and what the step found out about the row in hand is still so
  (Walked, Verified; SessionsToldInvariant).  Right needs TakenOver: sync's own `add`
  for a later row may take the index, or the path, of an earlier one.  OnePlace,
  Snapshots and SessionsTold hold on the instances of master_sessions and master_status
  too, which TLC can evaluate as invariants of MCMasterCatalog extended by this module.

**MasterProofs**, the opening.  OpensOwn holds for any number of sessions and any file that
CatalogsAssumption allows (OpeningOwn).  The invariant (OpeningInvariant) follows
the file by who made it: a file of somebody else is as it was at first and no
session is past the probe (Spared), a master has never fewer tables and columns than at first
and can always be told for one (Adopted), and a file that a session created is empty
until it is signed (Created).  Brought says what a session at each step has
seen to, which other sessions cannot undo since tables and columns only come.

**IndexFileProofs.** IndexInv is inductive (IndexInvariant).  Its parts say what a
builder has staged at each point (committed entries are the scanned ones less the
open batch, and only a finished file is ready), what a reader whose file is
undisturbed holds, and what a writer has done to its file: a half-written page is
only in a file whose writer has its journal beside it or whose name is one of
several.  ReadsAreCoherent and IndexTypes follow.  IndexesImplementSlot is the
refinement: BuildMaps, ReadMaps and OutsideMaps show each action to be a step of
IndexSlot or a stutter.

**BorgRunProofs.** RunInv is inductive (RunInvariant).  Its first half is about
processes: those not waited for form a tree below the supervisor (ParentsLive and
Rooted, the latter as "every non-empty set of them has a member whose parent is
outside", since reachability cannot be defined by recursion here), so that ECHILD
means that none is left.  Its second half relates caller, pipes and Borg: while
`run` has met no failure nobody was signalled and every chunk written is either
consumed or in the pipe.  Trusted says by how far the looks are
which things `before` and `since` must hold: a part that is no longer left to be looked at, and
the snapshot once it was revalidated.  RunsLeaveNothing, RunsTellTheTruth and
RunsTrustNothingStale follow.

**IndexingProofs**, directories.  IndexIsPointInTime (PointInTime) for any tree, prior index and
number of changes.  The moment that a promoted index describes is the one at which
the walk listed the directory.  The invariant (DirectoryInvariant) names it: there are
a tree m and a clock c such that each node is still as in m or bears a stamp above c,
which no later change takes away (Moment); that every row describes its node of m or
the node has changed since (RowsAt, and EntryTrue for the entry in hand); and that
a stamp of the second snapshot at or below c vouches for its row (Vouched).  Comparing
the snapshots then rules out every change but those that `Unwatched` names.

**IndexingProofs**, archives.  TarIsTrue (TarTrue).  While members are read, the rows are
those of the entries before the position, in their order and each as IsRowOf has it, and
every word's counts in the table and the buffer together are those of the texts among
the rows (Gathered); a flush moves counts from one to the other.  What the passes of
`finalize_v3` do to such rows is a matter of functions: a link's hash, once it has one, is
that of the file which extraction has under the target when it makes the link, which is the
last of that name as nothing is replaced after a link to it (HashesTrue, kept by each
pass); and a link that a pass could still resolve after n passes is the last of a chain of more
than n (Late), so that after five only an archive with more than five links has one.
Stages unfolds the recursive function of Extracted member by member.  Each file that
extraction leaves was left by the last entry of its name (LeftByLast), and that is the
row which MarkShadowed spares.

**ReportsProofs.** The invariant (ReportsInvariant) says of a command only that whatever it
has of a source was so at some moment of it (Looked, LoadedTrue, RegistryRead), and
that the report is the function of that which the code computes (DiffTold,
CoverageTold).  The rest are lemmas about those functions over any WellFormed
indexes: which entries count (`At`, `Effective`), what a trusted hash and a name that
may be another's can stand for (CouldHold, CouldMatch), and that every row falls in
one class.  DiffAbsenceHolds, DiffContentHolds, DiffCompleteHolds, DiffRowsHold,
FloorIsTrue, CompleteIsTrue, CoverageRowsHold, RegistryIsCoherent and ReportTypes
follow.

**ReportsProofs**, the files reports are written to.  OutputsAreSafe (OutputSafe) for any file
systems, inputs and names that OutputAssumption allows, any number of kills and of other
programs that take the name, and any bounds on hops and names.  The invariant (OutputInvariant) says
that what was there is there but for the stage (Kept), that no link is new
(LinksOld), what is the command's own (OursKnown) and how far it is (HowFar).  It is not enough that
the gate found no input at the report's name: inputs appear later, and lead elsewhere then.
What does not change is Led, where a path leads when whatever is not a link can be passed,
for that depends on the links alone (OnlyLinksAlike).  A lookup that succeeds, in any later state,
ends where Led does, and so does the lenient one of the gate (FoundIsLed); so Barred, which says that no input is
led to the report, holds from the gate on, whoever creates or restores what (TakenBars).
The gate compares names and not locations; that these are the same for the entry in
question is NormalizedIsItself.  The stage needs no such argument: no path has its name in
it, so no lookup ever meets it (LookupWithout, LookupKept).  TLC finds OutputInv true on the
instance of MCOutput as well, as an invariant of that module extended by this one.

**OrderProofs** has the lemmas on order and sequences that DuplicatesProofs, PlanProofs and ReportsProofs share.  `Less` on keys is
a strict total order.  In a finite total order each element has a place of its own, the
number of those before it, and each number below the cardinality is one's place, by
counting; from it follow that SortedBy lists a set once and in order, and that a StableSort is a permutation,
ordered, keeps equal keys in their order and leaves alone what is ordered already.

**DuplicatesProofs.** RemovalIsSafe, BandsFindAll and DuplicatesAreTold.  Three things
carry them.  The places of a finite order (OrderProofs): the first of a sorted set, on which Keep and
the order of groups rest.  The forest: Unite joins two classes and leaves the others,
whatever the order of the pairs, and the pairs not yet joined stay on the list
(JoinedSoFar).  The bands: two hashes that differ in no more bits than the threshold
agree on a band, by counting, since bands are disjoint and more than the threshold.  Groups
are disjoint, so that no keeper is removed by another group.  DedupInv is inductive
(DedupInvariant) under commits of other sessions between the reads.

**PlanProofs.** AcceptedIsFresh follows from PlanInv (PlanInvariant): which file was
looked at while it was open, and that each root before `next` and each entry no longer in
`todo` was compared with the live state at a moment of the verification.  FloorIsKept
and OrderIsFree hold of any document with IsPlan, VerifyDerived and InvariantsHold: the
first because `remaining` is derived anew by the loader (RemainingIsDerived) and counts roots that
hold the keeper's content when those that stay do, the second
by induction on the number of actions carried out (Underway, OneCarried, AllCarried),
made as a least counterexample over the recursive function of After.

BuildIsSettled (BuildSettles), with the invariant Made, which says of the document at "write" that
it verifies.  It comes down to CanonicalIsFixed: what
`canonicalize` makes of a draft is `Settles`, which says for each of its steps that its
result is there, and each step leaves such a document as it is.  The hard parts are
between the steps.  Roots are renumbered first, and every later key begins with a root;
actions are sorted last, but conflicts are ranked before, with ties by position: the ranks
survive (SettledMoved) because rivals of equal rank and one operation have equal sort
keys, which a stable sort leaves in order.  A settled destination must give back its base:
the suffix is stripped where it was put, and an action that has no rival gets no mark.
Names are displayed after the suffixes are put, or the result would not be fixed (the
mutant of BuildSettles).

Only model-checked is liveness (EveryCommandEnds, SyncSettles, EveryBuildEnds, EveryReadEnds,
EveryRunEnds, EveryReportEnds), since the prover does not treat fairness and
ENABLED.


## 5. Disagreements between documents and code

1. `master.rs:450`: an index moved over another registered index leaves two rows
   with one db_path, or makes every later sync fail (OneRowPerPath).
2. `master.rs:629`: `sync --prune DAYS` goes by the last refresh and not by how
   long the index has been missing (PruneOnlyLongGone).
3. `master.rs:656`: a sync overwrites the stale-index mark of verify with ok
   (StaleStaysReported).
4. `indexer.rs:490`: the rename replaces whatever is at the destination after the
   build; the probe ran before it and does not ask for a completed index
   (ReplacesOnlyProven).
5. `indexer.rs:570`: a staged database whose creation fails half-way is not
   dropped (StagingIsDropped).
6. `main.rs:267`: dedup protects every registered source as a file, a directory too: its
   report may be put anywhere below a source directory (SourceTreesSpared), against
   ADR 0001 and the comment of ProtectedSet (`outpath.rs:31`), which name whole source
   trees.  Coverage protects them, and OutputSafe says so.

The following were met while modelling.  They are not runs of their own: either
nothing but a comment is at stake, or the outcome is safe, or the model excludes the
situation by a named assumption, or the property excepts it by a named condition.

- dedup: a member of an exact group whose twin is in a near group, and which has
  no pHash of its own or is shadowed or a hard link, is in no group at all
  (`dedup.rs:214-218`); that is why ExactTold excepts rows whose twin is in a near group.  The
  comparison of the pHash algorithms (`dedup.rs:138`) is not repeated when the rows
  are read.  Totals include groups that `limit_groups` cuts off.  Rows with PAX_UNPARSED are not excluded.
- plan, the floor: `ReplicaFloor`'s comment (`plan.rs:499-513`) and that of the derivation
  (835-843) speak of roots that still hold the keeper's content, and of near variants as
  left out.  The code (844-852) counts the root of every member that stays, whatever
  its hash.  A near group with a keeper in one root and a variant that is left in
  another has `remaining` 2 and meets a floor of 2 with one root of the keeper's content.
  FloorKept is therefore about the groups whose staying members have the keeper's hash
  (`StaysAlike`); without that, TLC finds the plan just described.  `observed` is to be
  counted again by the program that carries a plan out, which does not exist yet.
- plan, the order: "organize order-independence: no dest equals a planned source path"
  (1116) is checked by comparing names, and only for equality (1038-1041, 1117-1127).  A plan
  that moves `b` to `d` and `a` to `b/c` is accepted and can only be carried out in
  that order; one with destinations `x` and `x/y`, or one that makes a directory where a
  file goes, cannot be carried out at all; and two roots one of which lies in the
  other can name one place twice.  OrderFree is therefore about plans whose places are
  `Level`; without that, TLC finds such plans.
- plan, the rest: "Idempotent" and "never from derived fields' current values" (573-580) fail for an action that
  stands alone and carries a suffix of an earlier conflict, and for a draft that
  both moves and extracts one source to one destination: the ranks tie and go by position
  (781), and the actions are then sorted with the extract first, as its key has no path (895-915).
  `verify_derived` refuses the former plan and `invariants_hold` the latter, no builder makes
  either, and IsDraft excludes both.  The group id of a quarantine is not rewritten when roots are
  renumbered.  A keeper of one group may be a quarantined member of another, which is the
  precondition of FloorKept, and a Mkdir may share its destination with a Move.
  `invariants_hold` compares the sources of actions by root and file id and not by
  path (1054): a plan whose index is rebuilt while it is verified may move one path
  twice, and the second move finds nothing.  OrderFree excepts that as `TakenOnce`.
- directory: the builder's own staged file inside the source is skipped by the walk
  but not by the snapshots.  A degraded entry lets the stamps of its directory be
  ignored: an entry that appears and disappears between the two snapshots may then
  have a row that no snapshot vouches for (`reuse.rs:214-245`; what the test
  `degraded_entry_does_not_mask_other_namespace_or_content_changes` looks at is an
  entry that stays).  PointInTime excepts it as `Unwatched`.
- store: the comment "that is what extraction produces" (`store.rs:297-300`) is not true
  of the archive [a: x, b -> a, a: y].  Two names that are not UTF-8 with one text
  shadow each other, and links are resolved by the text; PAX_UNPARSED is not handed on
  to a hard link that takes the hash.  A link to a name that is not UTF-8 and that no entry
  has takes the hash of an entry whose name has the same text.  RowsTrue, the part of
  TarTrue about hashes, is about the archives without these (`Plainly`).
- coverage: two indexes that were built of one archive count as two replicas.  An
  index that stopped early speaks of the entries it read: a later entry of the same
  name that was not read may have replaced what it reports (ADR 0010, 0011), and the
  properties of Reports take such an index at its word for what it read only.
- catalog: an rm whose second DELETE (`master.rs:737-741`) does not happen, because it
  is killed or gives up on the lock, leaves a registration with its status and
  without file rows.  No sync restores them, since a sync replicates only an index
  of another uuid or one that was missing (`master.rs:651-672`); a new add does.  That is why SyncTells excepts `emptied`.
  After an index was copied, one sync can register it at one path and then carry that
  row over to the copy, so that a row names an index that its path does not hold
  (`IsCopied`).
- catalog: a session killed between the creation of master.db and its stamp leaves
  an empty file, which every later command refuses as foreign.
- outputs: the comment that dedup protects everything it read "with sidecars"
  (`main.rs:258-275`) is true of identities only; names of missing inputs and of
  absent sidecars are reserved by coverage alone (317-345).  OutputSafe asks of each
  command what its code does.  `write_new_file` removes whatever has the stage's name as "our
  own crashed-run debris only" (`outpath.rs:391-392`).  If an input leads through a link of
  that very name, the link is lost: with `.c.tmp` a link to `d/b` and an archive `.c.tmp/../c`, the
  gate finds the input at `d/c`, and the archive, once restored where it is looked for then, is the
  report `c`.  The name holds the number of the process, so nobody names it but by
  accident, and OutputAssumption excludes it.

## 6. Plan

Modelled and checked are MasterCatalog, MasterOpening, IndexFile, BorgRun,
DirectoryIndex, TarIndex, Dedup, Plan, Diff, Coverage, Reports and OutputFiles.
All safety properties of the passing runs, and the two refinements, are proved.  What is left
is the topology of Borg's private state, when operations use it outside of tests.

## 7. What is not modelled and why

- Decoding, hashing, pHash, EXIF, text extraction, archive formats other than tar:
  functions of bytes without order or state.
- Rendering, exit codes, the web and terminal frontends: presentation; the
  dispatch of the master commands is in MasterCatalog's Start actions.
- Search: a locked read (IndexFile) followed by a query; it keeps nothing.
- `borg_guard.rs`: classification of names and file headers.
- The creation of Borg's private state and its metadata files: only tests call it.
- The types of a plan's scalar fields, which serde checks, and the execution of a
  plan, which does not exist yet.
- Crashes of the machine (what survives without fsync): SQLite's and the file
  system's business; a killed process is modelled everywhere it can happen.
