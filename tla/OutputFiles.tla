---------------------------- MODULE OutputFiles ----------------------------
(***************************************************************************)
(* The report a command writes with -o (src/core/outpath.rs): whatever it  *)
(* read, and whatever it would have read had it not been missing, is       *)
(* protected; the report is staged and appears whole under its name, where *)
(* nothing was.  Other programs create files, the command is killed, and   *)
(* missing inputs are restored.  Paths are absolute: sequences of names    *)
(* and Up; a location is a path without links and Up.                      *)
(***************************************************************************)
EXTENDS Basics, SequencesExt

CONSTANTS
  Parts,     \* what names are made of, the suffixes that are put to them included
  MaxHops,   \* links followed by a lookup
  MaxNames,  \* names a lookup goes through, those of the links included
  Outputs    \* sequence of the file systems, inputs and outputs explored

VARIABLES
  entries,   \* the entries of the file system, by their locations
  outRun  \* the command that writes

outVars == <<entries, outRun>>

Paths == Seq(Seq(Parts))
Up == <<"..">>
RootDir == <<>>
Above(loc) == IF loc = RootDir THEN RootDir ELSE Front(loc)
IsType(d, loc, type) == loc \in DOMAIN d /\ d[loc].type = type
Beneath(loc, dir) == IsPrefix(dir, loc)

-----------------------------------------------------------------------------
(***************************************************************************)
(* Lookups, name by name: where one is, the names to go, the links behind. *)
(***************************************************************************)
Begun(path) == [end |-> "going", at |-> RootDir, todo |-> path, hops |-> 0]
Over(w) == w.end # "going" \/ w.todo = <<>>
Ended(w, end) == [w EXCEPT !.end = end]
NextEntry(w) == Append(w.at, Head(w.todo))
Passed(w, loc) == [w EXCEPT !.at = loc, !.todo = Tail(@)]
Turned(w, link) ==
  IF w.hops = MaxHops THEN Ended(w, "broken")
  ELSE [w EXCEPT !.at = IF link.abs THEN RootDir ELSE @, !.todo = link.to \o Tail(@), !.hops = @ + 1]
Reached(w) == IF w.end = "going" /\ w.todo = <<>> THEN w.at ELSE NoValue

\* The kernel's.
Onward(d, w) ==
  IF Over(w) THEN w
  ELSE IF ~IsType(d, w.at, "dir") THEN Ended(w, "broken")
  ELSE IF Head(w.todo) = Up THEN Passed(w, Above(w.at))
  ELSE IF NextEntry(w) \notin DOMAIN d THEN Ended(Passed(w, NextEntry(w)), "missing")
  ELSE IF IsType(d, NextEntry(w), "link") THEN Turned(w, d[NextEntry(w)])
  ELSE Passed(w, NextEntry(w))
Follow(d, path) ==
  LET walk[n \in 0 .. MaxNames] == IF n = 0 THEN Begun(path) ELSE Onward(d, walk[n - 1])
  IN walk[MaxNames]

Lookup(d, path) == Reached(Follow(d, path))

\* The entry itself, be it a link (symlink_metadata).
EntryAt(d, path) ==
  IF path = RootDir \/ Last(path) = Up THEN Lookup(d, path)
  ELSE LET dir == Lookup(d, Front(path)) IN
       IF dir # NoValue /\ Append(dir, Last(path)) \in DOMAIN d
       THEN Append(dir, Last(path)) ELSE NoValue

FileId(d, path) ==
  LET loc == Lookup(d, path) IN IF loc = NoValue THEN {} ELSE {d[loc].ino}

-----------------------------------------------------------------------------
(***************************************************************************)
(* Where an input leads, and would lead once restored.                     *)
(***************************************************************************)
ResolveOnward(d, w) ==
  IF Over(w) THEN w
  ELSE IF Head(w.todo) = Up THEN Passed(w, Above(w.at))
  ELSE IF \E n \in 0 .. Len(w.at) : IsType(d, SubSeq(w.at, 1, n), "file") THEN Ended(w, "broken")
  ELSE IF IsType(d, NextEntry(w), "link") THEN Turned(w, d[NextEntry(w)])
  ELSE Passed(w, NextEntry(w))
ResolveLenient(d, path) ==
  LET walk[n \in 0 .. MaxNames] == IF n = 0 THEN Begun(path) ELSE ResolveOnward(d, walk[n - 1])
  IN walk[MaxNames]

Lenient(d, path) == Reached(ResolveLenient(d, path))

\* The targets of a last name that is a link to a link, and so on.
LinkChain(d, path) ==
  LET target(p) == LET link == d[EntryAt(d, p)]
                   IN IF link.abs THEN link.to ELSE Front(p) \o link.to
      hop[n \in 0 .. MaxHops] ==
        IF n = 0 THEN path
        ELSE LET p == hop[n - 1] IN
             IF p # NoValue /\ IsType(d, EntryAt(d, p), "link") THEN target(p) ELSE NoValue
  IN {hop[n] : n \in 1 .. MaxHops} \ {NoValue}

\* Faulty variant: a missing target counts only where the last name is the link.
SpellingsOfTheName(d, path) ==
  ({path, Lookup(d, path)} \ {NoValue}) \union LinkChain(d, path)

Spellings(d, path) ==
  ({path, Lenient(d, path), Lookup(d, path)} \ {NoValue}) \union LinkChain(d, path)

NormalizeName(d, path) ==
  LET dir == Lookup(d, Front(path))
      lexical == FoldLeft(LAMBDA out, part : IF part = Up THEN Above(out) ELSE Append(out, part),
                          RootDir, Front(path))
  IN IF path = RootDir \/ Last(path) = Up THEN {}
     ELSE {Append(IF dir = NoValue THEN lexical ELSE dir, Last(path))}

Sidecar(path, suffix) ==
  Append(Front(path), IF path = RootDir THEN <<suffix>> ELSE Append(Last(path), suffix))

-----------------------------------------------------------------------------
(***************************************************************************)
(* ProtectedSet: identities, names, trees, and whether an input leads      *)
(* nowhere that can be told.                                               *)
(***************************************************************************)
Protects(files, names, dirs, unresolved) ==
  [files |-> files, names |-> names, dirs |-> dirs, unresolved |-> unresolved]

Together(S) ==
  Protects(UNION {s.files : s \in S}, UNION {s.names : s \in S}, UNION {s.dirs : s \in S},
           \E s \in S : s.unresolved)

AddFile(d, path) == Protects(FileId(d, path), {}, {}, FALSE)
AddDb(d, path) ==
  Together({AddFile(d, path)} \union {AddFile(d, Sidecar(path, s)) : s \in {"-wal", "-shm"}})

AddInputFile(d, path) ==
  LET all == Spellings(d, path) IN
  Protects(UNION {FileId(d, s) : s \in all}, UNION {NormalizeName(d, s) : s \in all}, {},
           Lenient(d, path) = NoValue)

AddInputDb(d, path) ==
  Together({AddInputFile(d, s) : s \in Spellings(d, path)} \union
           {AddInputFile(d, Sidecar(s, x)) :
              s \in Spellings(d, path), x \in {"-wal", "-shm", "-journal"}})

AddDirTree(d, path) ==
  Protects({}, NormalizeName(d, path), {Lookup(d, path)} \ {NoValue}, FALSE)

\* What coverage and dedup protect of one input.
Protected(d, command, input) ==
  CASE command = "coverage" ->
         (CASE input.kind = "db" -> AddInputDb(d, input.path)
            [] input.kind = "archive" -> AddInputFile(d, input.path)
            [] input.kind = "dir" -> AddDirTree(d, input.path))
    [] command = "dedup" ->
         IF input.kind = "db" THEN AddDb(d, input.path) ELSE AddFile(d, input.path)

CheckDest(d, set, dest) ==
  LET dir == Lookup(d, Front(dest))
      entry == EntryAt(d, dest)
      resolved == Append(dir, Last(dest)) IN
  /\ dest # RootDir /\ Last(dest) # Up
  /\ ~set.unresolved
  /\ ~IsType(d, entry, "link")
  /\ dir # NoValue
  /\ resolved \notin set.names
  /\ FileId(d, resolved) \intersect set.files = {}
  /\ \A root \in set.dirs : ~Beneath(resolved, root)

-----------------------------------------------------------------------------
(***************************************************************************)
(* write_new_file.                                                         *)
(***************************************************************************)
\* Inodes are named like paths.
Ours == <<<<"ours">>>>
Others == <<<<"others">>>>
Restored == <<<<"restored">>>>

StageName(dest) == <<".">> \o Last(dest) \o <<".tmp">>
StagePath(dest) == Append(Front(dest), StageName(dest))
Staged == EntryAt(entries, StagePath(outRun.dest))

OutAt(step) == outRun.step = step
OutGoes(step) == outRun' = [outRun EXCEPT !.step = step]
With(d, loc, entry) == [l \in DOMAIN d \union {loc} |-> IF l = loc THEN entry ELSE d[l]]
Create(loc, entry) == entries' = With(entries, loc, entry)
Unlink(loc) == entries' = [l \in DOMAIN entries \ {loc} |-> entries[l]]
FileWith(ino, bytes) == [type |-> "file", ino |-> ino, bytes |-> bytes]

Gate ==
  /\ OutAt("gate")
  /\ UNCHANGED entries
  /\ IF CheckDest(entries, Together({Protected(entries, outRun.command, i) : i \in outRun.inputs}),
                  outRun.dest)
        /\ EntryAt(entries, outRun.dest) = NoValue
     THEN OutGoes("clear")
     ELSE OutGoes("refused")

ClearStage ==
  /\ OutAt("clear")
  /\ OutGoes("create")
  /\ IF Staged # NoValue /\ ~IsType(entries, Staged, "dir") THEN Unlink(Staged) ELSE UNCHANGED entries

\* create_new.
CreateStage ==
  /\ OutAt("create")
  /\ LET dir == Lookup(entries, Front(outRun.dest)) IN
     IF Staged = NoValue /\ dir # NoValue /\ IsType(entries, dir, "dir")
     THEN /\ Create(Append(dir, Last(StagePath(outRun.dest))), FileWith(Ours, "part"))
          /\ OutGoes("write")
     ELSE OutGoes("unstage to fail") /\ UNCHANGED entries

WriteStage ==
  /\ OutAt("write")
  /\ \/ OutGoes("link") /\ entries' = [entries EXCEPT ![Staged].bytes = "report"]
     \/ OutGoes("unstage to fail") /\ UNCHANGED entries

\* promote_no_clobber.
LinkOutput ==
  /\ OutAt("link")
  /\ LET loc == Append(Above(Staged), Last(outRun.dest)) IN
     IF loc \in DOMAIN entries
     THEN OutGoes("unstage to fail") /\ UNCHANGED entries
     ELSE OutGoes("unstage") /\ Create(loc, entries[Staged])

Unstage ==
  \E end \in {"written", "failed"} :
    /\ OutAt(IF end = "written" THEN "unstage" ELSE "unstage to fail")
    /\ OutGoes(end)
    /\ IF Staged # NoValue /\ ~IsType(entries, Staged, "dir") THEN Unlink(Staged) ELSE UNCHANGED entries

\* The command is killed; another of the same process number follows, once.
OutEnded == outRun.step \in {"none", "refused", "written", "failed"}

KilledWriting ==
  /\ ~OutEnded /\ outRun.kills > 0
  /\ outRun' = [outRun EXCEPT !.step = "gate", !.kills = @ - 1]
  /\ UNCHANGED entries

\* Another program takes the name.
NameTaken ==
  LET dir == Lookup(entries, Front(outRun.dest))
      taken(d) == With(d, Append(dir, Last(outRun.dest)), FileWith(Others, "other")) IN
  /\ outRun.step \in {"clear", "create", "write", "link"} /\ outRun.others > 0
  /\ EntryAt(entries, outRun.dest) = NoValue
  /\ dir # NoValue /\ IsType(entries, dir, "dir")
  /\ entries' = taken(entries)
  /\ outRun' = [outRun EXCEPT !.others = @ - 1, !.before = taken(@)]

\* What is missing of an input appears, one directory after the other.
Restore ==
  \E i \in outRun.inputs :
    LET w == Follow(entries, i.path) IN
    /\ OutEnded
    /\ w.end = "missing"
    /\ Create(w.at, IF w.todo = <<>> /\ i.kind # "dir" THEN FileWith(Restored, "restored")
                    ELSE [type |-> "dir", ino |-> Restored])
    /\ UNCHANGED outRun

\* Locations lead through the root, and nobody names the stage of this process.
IsDisk(d) ==
  /\ DOMAIN d \subseteq Paths /\ IsType(d, RootDir, "dir")
  /\ \A l \in DOMAIN d : d[l].ino # Ours /\ (d[l].type = "link" => d[l].to \in Paths)
LinkTargets(d) == {d[l].to : l \in {l \in DOMAIN d : d[l].type = "link"}}

ASSUME OutputAssumption ==
  /\ MaxHops \in Nat /\ MaxNames \in Nat /\ NoValue \notin Paths
  /\ {".", "..", ".tmp", "-wal", "-shm", "-journal"} \subseteq Parts
  /\ \A n \in DOMAIN Outputs : LET o == Outputs[n] IN
       /\ o.commands \subseteq {"coverage", "dedup"}
       /\ o.dests \subseteq Paths \ {RootDir} /\ \A d \in o.disks : IsDisk(d)
       /\ \A i \in UNION o.inputs :
            i.kind \in {"db", "archive", "dir"} /\ i.path \in Paths
       /\ \A dest \in o.dests, d \in o.disks :
            \A path \in {dest} \union {i.path : i \in UNION o.inputs} \union LinkTargets(d) :
              StageName(dest) \notin ToSet(path)

OutputInit ==
  \E n \in DOMAIN Outputs :
    \E d \in Outputs[n].disks, command \in Outputs[n].commands,
       inputs \in Outputs[n].inputs, dest \in Outputs[n].dests :
      /\ entries = d
      /\ outRun = [step |-> "gate", command |-> command, inputs |-> inputs, dest |-> dest,
                   before |-> d, kills |-> Outputs[n].kills, others |-> Outputs[n].others]

OutputIdle == entries = <<>> /\ outRun = [step |-> "none"]

OutputNext ==
  \/ Gate \/ ClearStage \/ CreateStage \/ WriteStage \/ LinkOutput \/ Unstage
  \/ KilledWriting \/ NameTaken \/ Restore

OutputSpec == OutputInit /\ [][OutputNext]_outVars

-----------------------------------------------------------------------------
\* The paths of an input and of the files SQLite keeps beside it.
ReadPaths(d, i) ==
  {i.path} \union
  IF i.kind # "db" THEN {}
  ELSE {Sidecar(p, s) : p \in {i.path, Lookup(d, i.path)} \ {NoValue},
                        s \in {"-wal", "-shm", "-journal"}}

\* The report is nowhere in the tree that an input is.
SourceSpared(i) ==
  i.kind = "dir" =>
    \A root \in {Lookup(outRun.before, i.path)} \ {NoValue}, l \in DOMAIN entries :
      entries[l].ino = Ours => ~Beneath(l, root)

(***************************************************************************)
(* Whatever was there stays what it was, save the stage of a killed run;   *)
(* nothing of coverage appears in a directory that is a source (dedup      *)
(* keeps off the directory itself, not off what is in it); what appears    *)
(* under another name than the stage's is the whole report; and no input   *)
(* of coverage, no database beside its sidecars, be it restored later,     *)
(* leads to the report (for dedup: none that was there).                   *)
(***************************************************************************)
OutputSafe ==
  outRun.step # "none" =>
    LET before == outRun.before
        stage(d) == EntryAt(d, StagePath(outRun.dest))
        ours == {l \in DOMAIN entries : entries[l].ino = Ours} IN
    /\ \A l \in DOMAIN before \ {stage(before)} : l \in DOMAIN entries /\ entries[l] = before[l]
    /\ \A l \in ours \ {stage(entries)} : entries[l].bytes = "report"
    /\ \A i \in outRun.inputs :
         /\ outRun.command = "coverage" => SourceSpared(i)
         /\ \A p \in ReadPaths(entries, i) :
              /\ i.kind # "dir"
              /\ outRun.command = "coverage" \/ Lookup(before, p) # NoValue
              => Lookup(entries, p) \notin ours

(***************************************************************************)
(* The set of what is protected holds whole source-directory trees         *)
(* (ADR 0001, the doc of ProtectedSet): no command puts anything in one.   *)
(***************************************************************************)
SourceTreesSpared == outRun.step # "none" => \A i \in outRun.inputs : SourceSpared(i)
=============================================================================
