----------------------------- MODULE IndexFile -----------------------------
(***************************************************************************)
(* Building index files (src/core/indexer.rs, src/core/outpath.rs) and the *)
(* locked read of one (src/core/index_read.rs), by several processes on    *)
(* the same paths, while users and SQLite writers touch the files.         *)
(*                                                                         *)
(* The stamp that index_read compares (inode, links, size, mtime, ctime)   *)
(* is modelled by a flag of the reader, "intact": nothing has happened to  *)
(* the file at the path since the stamp was taken.                         *)
(***************************************************************************)
EXTENDS Integers, Sequences

CONSTANTS
  Path,       \* where indexes may be
  Builder,    \* processes that run `backupsage index`
  Reader,     \* processes that read an index
  Source,     \* archives and directories
  Foreign,    \* owner of a file that is not an index
  None,       \* no file, no value
  SourceOf,   \* the source each builder indexes
  Dests,      \* destinations it may use: explicit, or default and fallback
  DirBuilder, \* builders of a directory source
  Entries,    \* number of entries in a source
  BatchSize,  \* entries per transaction
  MaxVer,     \* bound on the changes made to one file in place
  Budgets     \* bounds: how often each kind of event may happen

Commands == {"build", "read"}
Accidents == {"write", "crash", "replace", "overwrite", "link", "stray", "cancel", "kill"}

ASSUME IndexAssumption ==
  /\ Entries \in Nat
  /\ BatchSize \in Nat \ {0}
  /\ MaxVer \in Nat
  /\ Budgets \subseteq [Commands \union Accidents -> Nat]
  /\ SourceOf \in [Builder -> Source]
  /\ \A b \in Builder : Dests[b] \in Seq(Path) /\ Len(Dests[b]) >= 1
  /\ DirBuilder \subseteq Builder
  /\ Foreign \notin Source

(***************************************************************************)
(* A file: whose it is, how many entries are committed in it, whether      *)
(* meta.completed is 1, whether it is in WAL mode (then the main file does *)
(* not hold all of it), how often it was changed in place, and whether an  *)
(* SQLite transaction is half written to it.                               *)
(***************************************************************************)
Content == [owner : Source \union {Foreign}, entries : 0..Entries,
            complete : BOOLEAN, wal : BOOLEAN, ver : 0..MaxVer, mid : BOOLEAN]

ASSUME NoneAssumption == None \notin Content

VARIABLES
  at,       \* the file at each path
  linked,   \* paths whose file has a second name elsewhere
  stray,    \* paths with a -wal beside them that nobody holds
  staged,   \* the file each builder has staged beside each path
  builder,  \* the control state of each builder
  reader,   \* the control state of each reader
  writer,   \* a program that changes an index in place through SQLite
  budget    \* how often each kind of event may still happen

vars == <<at, linked, stray, staged, builder, reader, writer, budget>>
files == <<at, linked, stray>>

IsIndex(c) == c # None /\ c.owner # Foreign
Settled(c) == IsIndex(c) /\ ~c.mid /\ ~c.wal

\* The writer keeps its journal beside the name it used; a crashed one
\* leaves it there.
Journal(p) == writer.pc # "idle" /\ writer.path = p /\ ~writer.hidden

\* pending_sidecars
Pending(p) == Journal(p) \/ p \in stray

\* check_index_file after the stat: no sidecar, an SQLite header, not WAL.
Guarded(p) == ~Pending(p) /\ IsIndex(at[p]) /\ ~at[p].wal

\* A locked read of the file at p would succeed now.  LockedIndex::finish
\* makes a read as good as one step (ReadCoherent), so the builder's own
\* reads are taken as one.
Readable(p) == at[p] # None /\ p \notin linked /\ Guarded(p)

-----------------------------------------------------------------------------
(***************************************************************************)
(* Control states.  A builder uses destination number `try` of its list;   *)
(* prev says whether the directory builder holds the previous index open   *)
(* and whether that file is still what it was.                             *)
(***************************************************************************)
Resting == {"idle", "done"}
BuilderPC == Resting \union {"probe", "create", "reuse", "scan", "fold",
                             "ready", "promote", "tidy"}
Outcome == {"none", "ok", "failed", "cancelled"}
BuilderState ==
  [pc : BuilderPC, try : Nat, scanned : 0..Entries, batch : 0..Entries,
   cancel : BOOLEAN, prev : {"none", "same", "changed"}, outcome : Outcome]
NewBuild == [pc |-> "idle", try |-> 1, scanned |-> 0, batch |-> 0,
             cancel |-> FALSE, prev |-> "none", outcome |-> "none"]

ReaderPC == Resting \union {"guard", "open", "meta", "rows", "commit",
                            "stamp"}
ReaderState ==
  [pc : ReaderPC, path : Path \union {None}, intact : BOOLEAN,
   meta : Content \union {None}, rows : Content \union {None}]
NoRead == [pc |-> "idle", path |-> None, intact |-> FALSE,
           meta |-> None, rows |-> None]

WriterState == [pc : {"idle", "reserved", "writing", "crashed"},
                path : Path \union {None}, hidden : BOOLEAN, same : BOOLEAN]
NoWriter == [pc |-> "idle", path |-> None, hidden |-> FALSE, same |-> FALSE]

Dest(b) == Dests[b][builder[b].try]
Building(b) == builder[b].pc \notin Resting
Step(b, pc) == builder[b].pc = pc

\* Something happened to the file at p, or it is another file now.
SpoiledReads(p) ==
  [r \in Reader |-> IF reader[r].path = p THEN [reader[r] EXCEPT !.intact = FALSE]
                    ELSE reader[r]]
SpoiledBuilds(p) ==
  [b \in Builder |-> IF builder[b].prev = "same" /\ Dest(b) = p
                     THEN [builder[b] EXCEPT !.prev = "changed"] ELSE builder[b]]
LostFile(p) == IF writer.path = p THEN [writer EXCEPT !.same = FALSE] ELSE writer

-----------------------------------------------------------------------------
(***************************************************************************)
(* run_index: create_db_with_fallback, the batches, finish, promote.       *)
(***************************************************************************)
Event(kind) == budget[kind] > 0 /\ budget' = [budget EXCEPT ![kind] = @ - 1]

\* A step that touches only the builder and its staged file.
Private(b, next, file) ==
  /\ builder' = [builder EXCEPT ![b] = next]
  /\ staged' = [staged EXCEPT ![b][Dest(b)] = file]
  /\ UNCHANGED <<files, reader, writer, budget>>
MyStaged(b) == staged[b][Dest(b)]

Start(b) ==
  /\ ~Building(b) /\ Event("build")
  /\ builder' = [builder EXCEPT ![b] = [NewBuild EXCEPT !.pc = "probe"]]
  /\ UNCHANGED <<files, staged, reader, writer>>

Ended(b) == [NewBuild EXCEPT !.pc = "done", !.try = builder[b].try,
               !.outcome = IF builder[b].cancel THEN "cancelled" ELSE "failed"]

\* Faulty variants: the fallback is the default destination again; there is
\* a fallback for an explicit destination too.
NextDestSame(b) ==
  IF builder[b].try < Len(Dests[b]) THEN [builder[b] EXCEPT !.pc = "probe"]
  ELSE Ended(b)

NextDestAlways(b) == [builder[b] EXCEPT !.pc = "probe", !.try = @ + 1]

\* create_staged_db failed: the fallback destination, or the end.
NextDest(b) ==
  IF builder[b].try < Len(Dests[b])
  THEN [builder[b] EXCEPT !.pc = "probe", !.try = @ + 1]
  ELSE Ended(b)

\* assert_replaceable_index: nothing there, or an index of this source that
\* can be read safely.
Replaceable(b) ==
  \/ at[Dest(b)] = None
  \/ Readable(Dest(b)) /\ at[Dest(b)].owner = SourceOf[b]

Probe(b) ==
  /\ Step(b, "probe")
  /\ Private(b, IF Replaceable(b) THEN [builder[b] EXCEPT !.pc = "create"]
                ELSE NextDest(b), MyStaged(b))

EmptyIndex(b) == [owner |-> SourceOf[b], entries |-> 0, complete |-> FALSE,
                  wal |-> TRUE, ver |-> 0, mid |-> FALSE]

\* Debris of a killed run with this pid is cleared first.
Create(b) ==
  /\ Step(b, "create")
  /\ Private(b, [builder[b] EXCEPT !.pc = IF b \in DirBuilder THEN "reuse" ELSE "scan"],
             EmptyIndex(b))

\* create_v3 fails before or after the file exists; IndexPaths, whose drop
\* removes it, is not yet there.
CreateFails(b) ==
  /\ Step(b, "create")
  /\ \E left \in {None, EmptyIndex(b)} : Private(b, NextDest(b), left)

\* reuse::open_previous: a compatible, complete index is kept open and locked.
Reuse(b) ==
  /\ Step(b, "reuse")
  /\ \E prev \in {"none", "same"} :
       /\ prev = "same" => Readable(Dest(b)) /\ at[Dest(b)].complete
       /\ Private(b, [builder[b] EXCEPT !.pc = "scan", !.prev = prev], MyStaged(b))

\* COMMIT of k more entries; the same with completed = 1.
Committed(file, k) == [file EXCEPT !.entries = @ + k]
Completed(file, k) == [file EXCEPT !.entries = @ + k, !.complete = TRUE]
Folded(file) == [file EXCEPT !.wal = FALSE]

\* Faulty variant: a full batch is counted but not committed.
RecordUncommitted(b) ==
  /\ Step(b, "scan") /\ ~builder[b].cancel /\ builder[b].scanned < Entries
  /\ Private(b, [builder[b] EXCEPT !.scanned = @ + 1,
                   !.batch = IF @ + 1 >= BatchSize THEN 0 ELSE @ + 1], MyStaged(b))

\* IndexRun::record: insert, and COMMIT; BEGIN when the batch is full.
Record(b) ==
  /\ Step(b, "scan") /\ ~builder[b].cancel /\ builder[b].scanned < Entries
  /\ LET n == builder[b].batch + 1
         full == n >= BatchSize
     IN Private(b, [builder[b] EXCEPT !.scanned = @ + 1, !.batch = IF full THEN 0 ELSE n],
                IF full THEN Committed(MyStaged(b), n) ELSE MyStaged(b))

\* IndexRun::finish up to its COMMIT: the last batch and completed = 1.
Finalize(b) ==
  /\ Step(b, "scan") /\ ~builder[b].cancel /\ builder[b].scanned = Entries
  /\ Private(b, [builder[b] EXCEPT !.pc = "fold", !.batch = 0],
             Completed(MyStaged(b), builder[b].batch))

\* fold_wal: the main file holds everything and is in rollback mode.
FoldWal(b) ==
  /\ Step(b, "fold")
  /\ Private(b, [builder[b] EXCEPT !.pc = "ready"], Folded(MyStaged(b)))

\* The last check_cancelled, then finish_index of the previous index if one
\* is open.
Ready(b) ==
  /\ Step(b, "ready") /\ ~builder[b].cancel
  /\ builder[b].prev = "none" \/ (builder[b].prev = "same" /\ ~Pending(Dest(b)))
  /\ Private(b, [builder[b] EXCEPT !.pc = "promote", !.prev = "none"], MyStaged(b))

\* IndexPaths::promote: one rename ...
Promote(b) ==
  /\ Step(b, "promote")
  /\ at' = [at EXCEPT ![Dest(b)] = MyStaged(b)]
  /\ staged' = [staged EXCEPT ![b][Dest(b)] = None]
  /\ linked' = linked \ {Dest(b)}
  /\ builder' = [SpoiledBuilds(Dest(b)) EXCEPT ![b] = [builder[b] EXCEPT !.pc = "tidy"]]
  /\ reader' = SpoiledReads(Dest(b))
  /\ writer' = LostFile(Dest(b))
  /\ UNCHANGED <<stray, budget>>

\* ... then the -wal and -shm of the replaced index; a -journal stays.
Tidy(b) ==
  /\ Step(b, "tidy")
  /\ stray' = stray \ {Dest(b)}
  /\ builder' = [builder EXCEPT ![b] =
                   [NewBuild EXCEPT !.pc = "done", !.try = builder[b].try,
                                    !.outcome = "ok"]]
  /\ UNCHANGED <<at, linked, staged, reader, writer, budget>>

\* A cancellation check, a corrupt entry, an I/O error, a previous index that
\* changed: the error return drops IndexPaths.
Fail(b) ==
  /\ builder[b].pc \in {"reuse", "scan", "fold", "ready", "promote"}
  /\ Private(b, Ended(b), None)

Build(b) ==
  \/ Probe(b) \/ Create(b) \/ CreateFails(b) \/ Reuse(b) \/ Record(b) \/ Finalize(b)
  \/ FoldWal(b) \/ Ready(b) \/ Promote(b) \/ Tidy(b) \/ Fail(b)

-----------------------------------------------------------------------------
(***************************************************************************)
(* LockedIndex: check_index_file, open_checked, BEGIN and the first        *)
(* SELECT, the caller's statements, finish.                                *)
(***************************************************************************)
ReaderStep(r, next) ==
  /\ reader' = [reader EXCEPT ![r] = next]
  /\ UNCHANGED <<files, staged, builder, writer, budget>>

\* A note is returned in place of an answer.
Refuse(r) == ReaderStep(r, [NoRead EXCEPT !.pc = "done"])

StartRead(r) == \E p \in Path :
  /\ reader[r].pc \in Resting /\ Event("read")
  /\ reader' = [reader EXCEPT ![r] =
       IF at[p] # None /\ p \notin linked
       THEN [NoRead EXCEPT !.pc = "guard", !.path = p, !.intact = TRUE]
       ELSE [NoRead EXCEPT !.pc = "done"]]
  /\ UNCHANGED <<files, staged, builder, writer>>

AtRead(r, pc) == reader[r].pc = pc
GoOn(r, pc) == ReaderStep(r, [reader[r] EXCEPT !.pc = pc])

Guard(r) ==
  /\ AtRead(r, "guard")
  /\ IF Guarded(reader[r].path) THEN GoOn(r, "open") ELSE Refuse(r)

\* SHARED can be had: nobody writes to the file, and there is no journal
\* that SQLite would have to roll back first.
Lockable(p) ==
  /\ ~(writer.pc = "writing" /\ writer.path = p /\ writer.same)
  /\ Journal(p) => writer.pc = "reserved" /\ writer.same

\* Faulty variant: the lock is waited for without a limit.
OpenWaits(r) ==
  /\ AtRead(r, "open")
  /\ at[reader[r].path] # None /\ Lockable(reader[r].path)
  /\ GoOn(r, "meta")

\* open_checked, BEGIN and the SELECT that takes the lock.
Open(r) ==
  /\ AtRead(r, "open")
  /\ IF at[reader[r].path] # None /\ Lockable(reader[r].path)
     THEN GoOn(r, "meta") ELSE Refuse(r)

\* What a statement returns; a file that was replaced or rewritten behind
\* the handle may return anything, written None.
Result(r) == IF reader[r].intact THEN at[reader[r].path] ELSE None

ReadMeta(r) ==
  /\ AtRead(r, "meta")
  /\ ReaderStep(r, [reader[r] EXCEPT !.pc = "rows", !.meta = Result(r)])

ReadRows(r) ==
  /\ AtRead(r, "rows")
  /\ ReaderStep(r, [reader[r] EXCEPT !.pc = "commit", !.rows = Result(r)])

\* COMMIT gives the lock up; then the sidecars are looked for again.
CommitRead(r) ==
  /\ AtRead(r, "commit")
  /\ IF Pending(reader[r].path) THEN Refuse(r) ELSE GoOn(r, "stamp")

\* Faulty variant: finish does not compare the stamps.
CompareNothing(r) == AtRead(r, "stamp") /\ GoOn(r, "done")

\* The results are shown if the stamp is what it was.
CompareStamp(r) ==
  /\ AtRead(r, "stamp")
  /\ IF reader[r].intact THEN GoOn(r, "done") ELSE Refuse(r)

Read(r) ==
  \/ Guard(r) \/ Open(r) \/ ReadMeta(r) \/ ReadRows(r) \/ CommitRead(r) \/ CompareStamp(r)

\* The shared locks that keep an SQLite writer from committing.
Shared(p) ==
  \/ \E r \in Reader : /\ reader[r].pc \in {"meta", "rows", "commit"}
                       /\ reader[r].path = p /\ reader[r].intact
  \/ \E b \in Builder : builder[b].prev = "same" /\ Dest(b) = p

-----------------------------------------------------------------------------
(***************************************************************************)
(* The outside: an SQLite writer on an index, users who move files, kills. *)
(***************************************************************************)
\* The file at p becomes c, in place or by replacement.
ChangeFile(p, c) ==
  /\ at' = [at EXCEPT ![p] = c]
  /\ reader' = SpoiledReads(p)
  /\ builder' = SpoiledBuilds(p)

WriterBegins(p) ==
  /\ writer.pc = "idle" /\ IsIndex(at[p]) /\ ~Pending(p) /\ Event("write")
  /\ \E hidden \in {FALSE} \union {h \in {TRUE} : p \in linked} :
       writer' = [pc |-> "reserved", path |-> p, hidden |-> hidden, same |-> TRUE]
  /\ UNCHANGED <<files, staged, builder, reader>>

WriterWrites ==
  /\ writer.pc = "reserved"
  /\ writer' = [writer EXCEPT !.pc = "writing"]
  /\ IF writer.same
     THEN /\ ~Shared(writer.path) /\ at[writer.path].ver < MaxVer
          /\ ChangeFile(writer.path, [at[writer.path] EXCEPT !.mid = TRUE])
     ELSE UNCHANGED <<at, reader, builder>>
  /\ UNCHANGED <<linked, stray, staged, budget>>

WriterCommits ==
  /\ writer.pc = "writing"
  /\ writer' = NoWriter
  /\ IF writer.same
     THEN ChangeFile(writer.path, [at[writer.path] EXCEPT !.ver = @ + 1, !.mid = FALSE])
     ELSE UNCHANGED <<at, reader, builder>>
  /\ UNCHANGED <<linked, stray, staged, budget>>

WriterGivesUp ==
  /\ writer.pc = "reserved"
  /\ writer' = NoWriter
  /\ UNCHANGED <<files, staged, builder, reader, budget>>

WriterCrashes ==
  /\ writer.pc \in {"reserved", "writing"} /\ Event("crash")
  /\ writer' = [writer EXCEPT !.pc = "crashed"]
  /\ UNCHANGED <<files, staged, builder, reader>>

\* Somebody opens the crashed index for writing: the journal is rolled back.
WriterRecovers ==
  /\ writer.pc = "crashed"
  /\ writer' = NoWriter
  /\ IF writer.same
     THEN ChangeFile(writer.path, [at[writer.path] EXCEPT !.mid = FALSE])
     ELSE UNCHANGED <<at, reader, builder>>
  /\ UNCHANGED <<linked, stray, staged, budget>>

\* Another file is moved to p, or the file is removed.
Other == {[owner |-> o, entries |-> 0, complete |-> FALSE, wal |-> FALSE, ver |-> 0, mid |-> FALSE] :
            o \in {Foreign} \union {SourceOf[b] : b \in Builder}}
Replace(p) ==
  /\ Event("replace")
  /\ \E c \in Other \union {None} : ChangeFile(p, c)
  /\ linked' = linked \ {p}
  /\ writer' = LostFile(p)
  /\ UNCHANGED <<stray, staged>>

\* A program that ignores SQLite's locks, in one go and not into a write of
\* an SQLite program.
Overwrite(p) ==
  /\ IsIndex(at[p]) /\ at[p].ver < MaxVer /\ writer.path # p /\ Event("overwrite")
  /\ ChangeFile(p, [at[p] EXCEPT !.ver = @ + 1])
  /\ UNCHANGED <<linked, stray, staged, writer>>

\* A hard link comes or goes; not while a journal is beside the other name.
Relink(p) ==
  /\ at[p] # None /\ ~writer.hidden /\ Event("link")
  /\ linked' = IF p \in linked THEN linked \ {p} ELSE linked \union {p}
  /\ ChangeFile(p, at[p])
  /\ UNCHANGED <<stray, staged, writer>>

\* A WAL-mode tool dies beside p.
LeaveWal(p) ==
  /\ p \notin stray /\ Event("stray")
  /\ stray' = stray \union {p}
  /\ UNCHANGED <<at, linked, staged, builder, reader, writer>>

Cancel(b) ==
  /\ Building(b) /\ ~builder[b].cancel /\ Event("cancel")
  /\ builder' = [builder EXCEPT ![b].cancel = TRUE]
  /\ UNCHANGED <<files, staged, reader, writer>>

\* kill -9: the staged file stays.
Kill(b) ==
  /\ Building(b) /\ Event("kill")
  /\ builder' = [builder EXCEPT ![b] = NewBuild]
  /\ UNCHANGED <<files, staged, reader, writer>>

WriterActs ==
  \/ \E p \in Path : WriterBegins(p)
  \/ WriterWrites \/ WriterCommits \/ WriterGivesUp \/ WriterCrashes \/ WriterRecovers
Outside ==
  \/ WriterActs
  \/ \E p \in Path : Replace(p) \/ Overwrite(p) \/ Relink(p) \/ LeaveWal(p)
  \/ \E b \in Builder : Cancel(b) \/ Kill(b)

Init ==
  /\ at = [p \in Path |-> None]
  /\ linked = {} /\ stray = {}
  /\ staged = [b \in Builder |-> [p \in Path |-> None]]
  /\ builder = [b \in Builder |-> NewBuild]
  /\ reader = [r \in Reader |-> NoRead]
  /\ writer = NoWriter
  /\ budget \in Budgets

Next ==
  \/ \E b \in Builder : Start(b) \/ Build(b)
  \/ \E r \in Reader : StartRead(r) \/ Read(r)
  \/ Outside

\* A process that is neither killed nor stopped goes on; nobody has to start
\* a command, and the outside owes nothing.
Fairness ==
  /\ \A b \in Builder : WF_vars(Build(b))
  /\ \A r \in Reader : WF_vars(Read(r))

Spec == Init /\ [][Next]_vars
FairSpec == Spec /\ Fairness

-----------------------------------------------------------------------------
(***************************************************************************)
(* Properties.                                                             *)
(***************************************************************************)
\* Every variable holds what the code can put there.
TypeOK ==
  /\ at \in [Path -> Content \union {None}]
  /\ linked \subseteq Path /\ stray \subseteq Path
  /\ staged \in [Builder -> [Path -> Content \union {None}]]
  /\ builder \in [Builder -> BuilderState]
  /\ \A b \in Builder : builder[b].try \in 1..Len(Dests[b])
  /\ reader \in [Reader -> ReaderState]
  /\ writer \in WriterState
  /\ budget \in [Commands \union Accidents -> Nat]

\* An index as a build leaves it: every entry, marked complete, no WAL.
Whole(b) == [owner |-> SourceOf[b], entries |-> Entries, complete |-> TRUE,
             wal |-> FALSE, ver |-> 0, mid |-> FALSE]

\* What a builder has staged at each point of its run.
StagedFile(b, n, complete, wal) ==
  [owner |-> SourceOf[b], entries |-> n, complete |-> complete, wal |-> wal,
   ver |-> 0, mid |-> FALSE]
RightFile(b, st, file) ==
  /\ st.pc \in Resting \union {"probe", "create", "reuse"} =>
       st.scanned = 0 /\ st.batch = 0
  /\ st.batch <= st.scanned
  /\ st.pc \in {"reuse", "scan"} =>
       file = StagedFile(b, st.scanned - st.batch, FALSE, TRUE)
  /\ st.pc = "fold" => file = StagedFile(b, Entries, TRUE, TRUE)
  /\ st.pc \in {"ready", "promote"} => file = Whole(b)
StagedRight(b) == RightFile(b, builder[b], MyStaged(b))

\* What a reader may still rely on at each point of its read.
AfterGuard == {"open", "meta", "rows", "commit", "stamp"}
ReadRight(r) ==
  /\ reader[r].intact => reader[r].path \in Path /\ reader[r].pc # "idle"
  /\ reader[r].pc \notin Resting =>
       /\ reader[r].path \in Path
       /\ reader[r].intact =>
            /\ at[reader[r].path] # None /\ reader[r].path \notin linked
            /\ reader[r].pc \in AfterGuard => Settled(at[reader[r].path])
            /\ reader[r].pc \in {"rows", "commit", "stamp"} =>
                 reader[r].meta = at[reader[r].path]
            /\ reader[r].pc \in {"commit", "stamp"} =>
                 reader[r].rows = at[reader[r].path]

\* What the writer's position says of the file it writes to.
WriterRight ==
  /\ writer.pc # "idle" => writer.path \in Path
  /\ writer.same =>
       /\ writer.pc # "idle" /\ IsIndex(at[writer.path])
       /\ writer.hidden => writer.path \in linked
       /\ writer.pc = "reserved" => ~at[writer.path].mid
       /\ writer.pc = "writing" =>
            at[writer.path].mid /\ at[writer.path].ver < MaxVer
  /\ \A p \in Path : at[p] # None /\ at[p].mid => writer.path = p /\ writer.same

\* A read that is shown consists of two results from one committed state of
\* one index: LockedIndex::open to finish.
ReadCoherent ==
  \A r \in Reader :
    AtRead(r, "done") =>
      \/ reader[r].meta = None /\ reader[r].rows = None /\ reader[r].path = None
      \/ /\ reader[r].meta = reader[r].rows
         /\ Settled(reader[r].meta)

\* The inductive invariant.
IndexInv ==
  /\ TypeOK
  /\ \A b \in Builder : StagedRight(b)
  /\ \A r \in Reader : ReadRight(r)
  /\ WriterRight
  /\ ReadCoherent

\* A build that runs in the foreground until it ends does end, and a read
\* ends in an answer or a note, whatever others do: the fallback is tried
\* once, and no lock is waited for without limit.
EveryBuildEnds == \A b \in Builder : Building(b) ~> ~Building(b)
EveryReadEnds == \A r \in Reader : reader[r].pc \notin Resting ~> reader[r].pc \in Resting

\* Refinement: builds publish whole indexes in one step or change nothing,
\* and answers are linearizable (the instant of the stamp comparison).
Outcomes == [b \in Builder |-> IF Step(b, "tidy") THEN "ok"
                               ELSE IF Building(b) THEN "building"
                               ELSE builder[b].outcome]
Answers == [r \in Reader |-> IF AtRead(r, "done") THEN <<reader[r].meta, reader[r].rows>>
                             ELSE <<None, None>>]
DestsOf(b) == {Dests[b][i] : i \in 1..Len(Dests[b])}

Slot == INSTANCE IndexSlot WITH slot <- at, outcome <- Outcomes, answer <- Answers,
                                WholeOf <- Whole
ImplementsSlot == Slot!Spec

\* ADR 0001: an index is only ever promoted over nothing or over what the
\* ownership probe admits, a completed index of the same source.
ReplacesOnlyProven ==
  [][\A b \in Builder : Promote(b) /\ at[Dest(b)] # None =>
       at[Dest(b)].owner = SourceOf[b] /\ at[Dest(b)].complete]_vars

\* ADR 0001: a failure or an interrupt drops the staging files; a build that
\* has ended, other than by being killed, has left nothing beside any path.
StagingIsDropped ==
  \A b \in Builder : Step(b, "done") => \A p \in Path : staged[b][p] = None
=============================================================================
