------------------------------ MODULE Reports ------------------------------
(***************************************************************************)
(* The two read-only reports over several indexes: `diff` (diff_indexes)   *)
(* and `coverage` (coverage_input.rs, coverage_report.rs).  Coverage reads *)
(* the master's registry without locks, then each source's index, then     *)
(* looks at the source itself; other programs go on working meanwhile.     *)
(***************************************************************************)
EXTENDS Diff, Coverage

CONSTANTS
  NSources,   \* sources are 1 .. NSources
  Jobs,       \* sequence of the commands that are run and of the worlds they start in
  Indexes,    \* indexes a rebuild may leave
  LiveStates, \* what may become of a source
  Recordable,   \* statuses a writer of the master may record
  Params      \* filters, floors and designations

Source == 1 .. NSources

\* A source as the file system shows it: what it is, whether it can be read.
LiveKinds == {"file", "dir", "other", "gone", "denied"}
Live == [kind : LiveKinds, opens : BOOLEAN, stat : Nat]

\* The seven statuses of the master; any other string is unknown.
ReplicaOnly == {"stale_replica", "v2_limited"}

\* The master's file; its version grows with every commit.
Master ==
  [kind : {"file", "symlink"}, links : Nat, sidecar : BOOLEAN, signed : BOOLEAN,
   version : Nat \ {0}, status : [Source -> STRING]]

Param ==
  [minCopies : Nat, minSize : Nat, includeEmpty : BOOLEAN, protected : SUBSET Source,
   kind : {None} \union STRING, paths : SUBSET Name]

ASSUME ReportsAssumption ==
  /\ NSources \in Nat
  /\ \A i \in DOMAIN Jobs :
       /\ \A x \in Jobs[i].idx : x \in [Source -> Index] /\ \A s \in Source : WellFormed(x[s])
       /\ Jobs[i].live \subseteq [Source -> Live] /\ Jobs[i].master \subseteq Master
       /\ \A archives \in Jobs[i].archives : \A k \in DOMAIN archives : archives[k] \subseteq Source
       /\ Jobs[i].first \in {"check", "given", "before"}
       /\ Jobs[i].first = "before" => NSources >= 2
  /\ \A x \in Indexes : x \in Index /\ WellFormed(x)
  /\ LiveStates \subseteq Live
  /\ None \notin Index /\ None \notin STRING /\ Recordable \subseteq STRING /\ Params \subseteq Param

VARIABLES
  idx,    \* the index file of each source
  live,   \* each source as it is now
  master, \* the master's file
  world,  \* events still to come, and what has been true since the start
  cmd     \* the command

vars == <<idx, live, master, world, cmd>>

-----------------------------------------------------------------------------
(***************************************************************************)
(* The world.                                                              *)
(***************************************************************************)
Event(kind) == world.left = kind

Seen(l, m) ==
  [world EXCEPT !.left = "none",
     !.live = [s \in Source |-> @[s] \union {l[s]}],
     !.registry = @ \union {m.status}]

\* The source is changed, unplugged, replaced, or can no longer be read.
SourceChanges(s, l) ==
  /\ Event("source") /\ live' = [live EXCEPT ![s] = l]
  /\ world' = Seen(live', master)
  /\ UNCHANGED <<idx, master, cmd>>

\* The index is built anew, or a copy of the other's index is put there.
IndexChanges(s, x) ==
  /\ Event("index") /\ idx' = [idx EXCEPT ![s] = x]
  /\ world' = [world EXCEPT !.left = "none"]
  /\ UNCHANGED <<live, master, cmd>>

\* Another session opens the master, commits, and folds its WAL on closing.
MasterOpened ==
  /\ Event("master") /\ ~master.sidecar /\ master.kind = "file"
  /\ master' = [master EXCEPT !.sidecar = TRUE]
  /\ world' = [world EXCEPT !.left = "fold"]
  /\ UNCHANGED <<idx, live, cmd>>

MasterFolded(new) ==
  /\ Event("fold")
  /\ master' = [master EXCEPT !.status = new, !.version = @ + 1]
  /\ world' = [Seen(live, master') EXCEPT !.left = "close"]
  /\ UNCHANGED <<idx, live, cmd>>

MasterClosed ==
  /\ Event("close")
  /\ master' = [master EXCEPT !.sidecar = FALSE]
  /\ world' = [world EXCEPT !.left = "none"]
  /\ UNCHANGED <<idx, live, cmd>>

Statements == [Source -> Recordable]

World ==
  \/ \E s \in Source, l \in LiveStates : SourceChanges(s, l)
  \/ \E s \in Source, x \in Indexes \union {idx[t] : t \in Source} : IndexChanges(s, x)
  \/ MasterOpened \/ MasterClosed
  \/ \E new \in Statements : MasterFolded(new)

-----------------------------------------------------------------------------
(***************************************************************************)
(* The master's registry (load_registry): the file alone is read, between  *)
(* two looks at it and at its sidecars.                                    *)
(***************************************************************************)
World0 == <<idx, live, master, world>>

CmdGoes(step) == cmd' = [cmd EXCEPT !.step = step]
Refuses == cmd' = [cmd EXCEPT !.step = "refused"]

MasterUsable == master.kind = "file" /\ master.links = 1 /\ ~master.sidecar /\ master.signed

CheckMaster ==
  /\ cmd.step = "check" /\ UNCHANGED World0
  /\ IF MasterUsable
     THEN cmd' = [cmd EXCEPT !.step = "list", !.stamp = master.version, !.next = 1]
     ELSE Refuses

ListRow ==
  /\ cmd.step = "list" /\ UNCHANGED World0
  /\ IF cmd.next <= NSources
     THEN cmd' = [cmd EXCEPT !.registry[cmd.next] = master.status[cmd.next], !.next = @ + 1]
     ELSE CmdGoes("recheck")

\* Faulty variant: only the sidecars are looked at.
UnchangedSidecars == ~master.sidecar
Unchanged == master.version = cmd.stamp /\ ~master.sidecar

Recheck ==
  /\ cmd.step = "recheck" /\ UNCHANGED World0
  /\ IF Unchanged THEN CmdGoes("choose") ELSE Refuses

\* Each value of --archive or --protected stands for the sources it names.
Resolves(wanted) ==
  /\ \A i \in DOMAIN wanted : Cardinality(wanted[i]) = 1
  /\ \A i, j \in DOMAIN wanted : i # j => wanted[i] # wanted[j]
Resolved(wanted) == UNION {wanted[i] : i \in DOMAIN wanted}

Choose ==
  /\ cmd.step = "choose" /\ UNCHANGED World0
  /\ LET chosen == IF cmd.archives = <<>> THEN Source ELSE Resolved(cmd.archives)
         guarded == [i \in DOMAIN cmd.protected |-> cmd.protected[i] \intersect chosen]
     IN IF Resolves(cmd.archives) /\ Resolves(guarded)
        THEN cmd' = [cmd EXCEPT !.step = "load", !.todo = chosen, !.guarded = Resolved(guarded)]
        ELSE Refuses

\* The indexes given with --db: one file may not be given twice.
Given ==
  /\ cmd.step = "given" /\ UNCHANGED World0
  /\ IF \E s, t \in Source : s # t /\ cmd.paths[s] = cmd.paths[t] THEN Refuses ELSE CmdGoes("choose")

-----------------------------------------------------------------------------
(***************************************************************************)
(* One source after the other, in the order of their ids (build): its      *)
(* index, what a stat of the source says of it, whether the source can be  *)
(* opened, and the evidence and trust that follow.                         *)
(***************************************************************************)
Current == CHOOSE s \in cmd.todo : \A t \in cmd.todo : s <= t

KnownStatus(status) == status \in Statuses \union ReplicaOnly \union {None}

\* What the registry's status says, beyond what reading the index shows.
RegistryTrust(status) == IF status \in ReplicaOnly \union {None} THEN "ok" ELSE status

LoadSource ==
  /\ cmd.step = "load" /\ cmd.todo # {} /\ UNCHANGED World0
  /\ LET s == Current
         one == Loaded(idx[s]) IN
     IF ~KnownStatus(cmd.registry[s]) \/ (one.uuid # None /\ one.uuid \in cmd.uuids)
     THEN Refuses
     ELSE cmd' = [cmd EXCEPT !.seen[s] = idx[s], !.uuids = @ \union ({one.uuid} \ {None}),
                             !.step = IF one.state = "Unavailable" THEN "map" ELSE "probe",
                             !.currency = "NotChecked", !.shown = FALSE]

Currency(x, l) ==
  IF x.source # "exact" THEN "NotChecked"
  ELSE IF l.kind = "denied" THEN "Denied"
  ELSE IF l.kind = "gone" THEN "Offline"
  ELSE IF x.type = "dir" THEN "DirectoryUnverified"
  ELSE IF x.stat = None THEN "NotChecked"
  ELSE IF l.stat = x.stat THEN "StatMatches" ELSE "Stale"

CanShowPresence(currency) == currency \in {"StatMatches", "Stale", "DirectoryUnverified"}

Probe ==
  /\ cmd.step = "probe" /\ UNCHANGED World0
  /\ LET currency == Currency(cmd.seen[Current], live[Current]) IN
     cmd' = [cmd EXCEPT !.currency = currency,
                        !.step = IF CanShowPresence(currency) THEN "stat" ELSE "map"]

RightKind(x, l) == l.kind = (IF x.type = "dir" THEN "dir" ELSE "file")

\* The kind is looked at before the open, and again on the open handle.
StatSource ==
  /\ cmd.step = "stat" /\ UNCHANGED World0
  /\ IF RightKind(cmd.seen[Current], live[Current]) THEN CmdGoes("open") ELSE CmdGoes("map")

\* Faulty variant: a FIFO is opened as a file is, and waits for a writer.
OpenReturnsUnlessFifo(l) == l.kind # "other"

\* The open does not wait for the writer of a FIFO.
OpenReturns(l) == TRUE

OpenSource ==
  /\ cmd.step = "open" /\ UNCHANGED World0
  /\ OpenReturns(live[Current])
  /\ LET l == live[Current] IN
     cmd' = [cmd EXCEPT !.shown = l.opens /\ RightKind(cmd.seen[Current], l), !.step = "map"]

\* Faulty variant: the state of an index is its evidence.
IndexEvidenceOfState(one) ==
  CASE one.state = "Unavailable" -> "Unavailable"
    [] \E r \in one.rows : r.entry = "unsupported" -> "Unavailable"
    [] OTHER -> one.state

\* What the rows are evidence of, before the source is looked at.
IndexEvidence(one) ==
  CASE one.state \in {"Unavailable", "Incompatible"} -> "Unavailable"
    [] \E r \in one.rows : r.entry = "unsupported" -> "Unavailable"
    [] one.mode = "metadata-only" /\ \E r \in one.rows : r.hash # None -> "Unavailable"
    [] OTHER -> IF one.mode = "metadata-only" /\ one.state = "Complete"
                THEN "NoContentHashes" ELSE one.state

EvidenceOf(one, shown) ==
  IF IndexEvidence(one) # "Unavailable" /\ ~shown THEN "Unreachable" ELSE IndexEvidence(one)

LiveTrust(evidence, currency) ==
  CASE evidence = "Unavailable" -> "db_missing"
    [] evidence = "Unreachable" -> "archive_missing"
    [] OTHER -> IF currency = "Stale" THEN "stale_index"
                ELSE IF evidence = "Incomplete" THEN "incomplete" ELSE "ok"

Distrust == [ok |-> 0, incomplete |-> 1, stale_index |-> 2, db_missing |-> 3, archive_missing |-> 4]

\* The registry may only lower the trust.
Lower(recorded, found) == IF Distrust[recorded] > Distrust[found] THEN recorded ELSE found

MapSource ==
  /\ cmd.step = "map" /\ UNCHANGED World0
  /\ LET s == Current
         one == Loaded(cmd.seen[s])
         evidence == EvidenceOf(one, cmd.shown)
     IN cmd' = [cmd EXCEPT
          !.loaded[s] = [evidence |-> evidence,
             status |-> Lower(RegistryTrust(cmd.registry[s]), LiveTrust(evidence, cmd.currency)),
             rows |-> IF evidence = "Unavailable" THEN {} ELSE one.rows],
          !.todo = @ \ {s}, !.step = "load"]

Chosen == {s \in Source : cmd.loaded[s] # None}
Evident == [s \in Chosen |-> cmd.loaded[s]]

Report(p) ==
  /\ cmd.step = "load" /\ cmd.todo = {} /\ UNCHANGED World0
  /\ LET params == [p EXCEPT !.protected = cmd.guarded] IN
     IF BadParams(params) \/ Contradictory(Evident)
     THEN Refuses
     ELSE cmd' = [cmd EXCEPT !.step = "done", !.params = params,
                             !.report = CoverageReport(Evident, params)]

-----------------------------------------------------------------------------
(***************************************************************************)
(* diff: the older index, then the newer.                                  *)
(***************************************************************************)
LoadBefore ==
  /\ cmd.step = "before" /\ UNCHANGED World0
  /\ cmd' = [cmd EXCEPT !.step = "after", !.seen[1] = idx[1]]

LoadAfter ==
  /\ cmd.step = "after" /\ UNCHANGED World0
  /\ cmd' = [cmd EXCEPT !.step = "told", !.seen[2] = idx[2],
                        !.report = DiffReport(Loaded(cmd.seen[1]), Loaded(idx[2]))]

Command ==
  \/ CheckMaster \/ ListRow \/ Recheck \/ Given \/ Choose
  \/ LoadSource \/ Probe \/ StatSource \/ OpenSource \/ MapSource
  \/ \E params \in Params : Report(params)
  \/ LoadBefore \/ LoadAfter

\* `first` is "check" for a coverage of the master, "given" for one of given
\* indexes, "before" for a diff.
Init ==
  \E i \in DOMAIN Jobs : LET j == Jobs[i] IN
    /\ idx \in j.idx /\ live \in j.live /\ master \in j.master
    /\ \E event \in j.events :
         world = [left |-> event, live |-> [s \in Source |-> {live[s]}], registry |-> {master.status}]
    /\ \E archives \in j.archives, protected \in j.protected, paths \in j.paths :
       cmd = [step |-> j.first, archives |-> archives, protected |-> protected,
              paths |-> paths, guarded |-> {}, stamp |-> 0, next |-> 1,
              registry |-> [s \in Source |-> None], todo |-> {}, uuids |-> {},
              seen |-> [s \in Source |-> None], currency |-> "NotChecked", shown |-> FALSE,
              loaded |-> [s \in Source |-> None], params |-> None, report |-> None]

Next == World \/ Command

Spec == Init /\ [][Next]_vars
FairSpec == Spec /\ WF_vars(Command)

-----------------------------------------------------------------------------
(***************************************************************************)
(* Properties.                                                             *)
(***************************************************************************)
Steps == {"check", "list", "recheck", "given", "choose", "load", "probe", "stat", "open", "map",
          "before", "after", "done", "told", "refused"}

\* Types of all that the reports decide on.
TypeOK ==
  /\ \A s \in Source : idx[s] \in Index /\ WellFormed(idx[s]) /\ live[s] \in Live
  /\ cmd.step \in Steps /\ cmd.todo \subseteq Source
  /\ \A s \in Source :
       /\ cmd.seen[s] # None => cmd.seen[s] \in Index /\ WellFormed(cmd.seen[s])
       /\ cmd.loaded[s] # None =>
            cmd.loaded[s].evidence \in EvidenceKinds /\ cmd.loaded[s].status \in Statuses

Told2(P(_, _, _)) == cmd.step = "told" => P(cmd.report, cmd.seen[1], cmd.seen[2])

\* A diff calls a path added, removed or moved only when the other source had
\* no entry there, whatever either index failed to record.
DiffAbsence == Told2(AbsenceTrue)

\* A diff calls two files the same, moved or different only when their
\* contents were.
DiffContent == Told2(ContentTrue)

\* A diff whose state is complete lists every path whose content differs.
DiffComplete == Told2(CompleteTells)

\* Every row of both indexes is in the diff once, as a change or as shadowed.
DiffRows ==
  cmd.step = "told" => RowsTold(cmd.report, Loaded(cmd.seen[1]), Loaded(cmd.seen[2]))

\* While the command ran, the source was there, could be opened, had the stat
\* its index recorded, and the master did not distrust it.
Vouched(s) ==
  /\ \E l \in world.live[s] : l.opens /\ RightKind(cmd.seen[s], l)
  /\ cmd.seen[s].type = "archive" => \E l \in world.live[s] : l.stat = cmd.seen[s].stat
  /\ cmd.registry[s] # None =>
       \E status \in world.registry : status[s] \in ReplicaOnly \union {"ok", "incomplete"}

Holders(c) == {s \in Chosen : Holds(cmd.seen[s], c)}

\* A floor that is met is met by that many sources that held the content and
\* could be vouched for; one that is missed, and an only copy, are so whatever
\* the rows that could not be read were.
FloorTrue ==
  cmd.step = "done" =>
    \A g \in cmd.report.groups :
      LET counted == {s \in Holders(g.content) : Counts(cmd.loaded[s].status)} IN
      /\ g.verdict = "meets_floor" =>
           Cardinality({s \in counted : Vouched(s)}) >= cmd.params.minCopies
      /\ g.verdict = "below_floor" => Cardinality(counted) < cmd.params.minCopies
      /\ g.onlyCopy => Cardinality(counted) = 1
      /\ g.replicas.observed <= Cardinality(Holders(g.content))
      /\ g.replicas.exact => g.replicas.observed = Cardinality(Holders(g.content))

\* A report that says it is complete leaves out no content that a chosen source
\* held under a path that was asked for, and no verdict in it is a guess.
CompleteTrue ==
  cmd.step = "done" /\ cmd.report.complete =>
    /\ \A s \in Chosen : \A i \in DOMAIN cmd.seen[s].entries :
         LET m == cmd.seen[s].entries[i] IN
         m.entry = "file" /\ Effective(cmd.seen[s], i) /\ PassesFilter(RowOf(cmd.seen[s], i), cmd.params)
         => \/ m.content \in {g.content : g \in cmd.report.groups}
            \/ m.content \in cmd.report.excludedGroups
    /\ \A g \in cmd.report.groups :
         g.verdict = "meets_floor" <=> Cardinality(Holders(g.content)) >= cmd.params.minCopies
    /\ \A c \in cmd.report.excludedGroups :
         Length[c] < cmd.params.minSize \/ (Length[c] = 0 /\ ~cmd.params.includeEmpty)

\* Every row of every source is a copy, an alias, unknown or excluded, and only
\* one of these.
CoverageRows ==
  cmd.step = "done" =>
    \A s \in Chosen : LET rows == cmd.loaded[s].rows IN \A r \in rows :
      Cardinality({c \in Content : r \in Copies(rows, c)})
      + Cardinality({c \in Content : r \in Aliases(rows, c)})
      + Cardinality({r} \intersect UnknownContent(rows))
      + Cardinality({r} \intersect Excluded(rows)) = 1

\* The registry a coverage works from is one that the master held at one moment.
RegistryCoherent ==
  cmd.stamp # 0 /\ cmd.step \notin {"list", "recheck", "refused"} =>
    cmd.registry \in world.registry

\* Every command ends: no file that stands where a source was makes it wait.
EveryReportEnds == <>(cmd.step \in {"refused", "done", "told"})

=============================================================================
