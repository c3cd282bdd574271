-------------------------------- MODULE Plan --------------------------------
(***************************************************************************)
(* Action plans (src/core/plan.rs): the canonical form of a document, the  *)
(* rules it must keep, its life as a file that is built, edited, replaced  *)
(* and loaded, and the verification of a loaded plan against the indexes,  *)
(* which others rebuild meanwhile.  No code executes a plan yet.           *)
(*                                                                         *)
(* A path is a sequence of numbers: of each component a stem and the       *)
(* ordinals of the "-n" suffixes after it, and a Slash between two         *)
(* components.  The identities are injective framings of their      *)
(* fields under a digest, so they are modelled as those fields.            *)
(***************************************************************************)
EXTENDS Basics, FiniteSetsExt, SequencesExt

CONSTANTS
  Digests,   \* well formed content hashes
  Plain,     \* stems that are legal components; any other is "." or the like
  NotUtf8,   \* stems that are shown as the replacement character
  Edits(_),  \* the documents a hand can make of one
  PlanJobs   \* sequence of the drafts, live indexes and events explored

PlanVersion == 1
Slash == -2

VARIABLES
  paper,  \* the plan file
  disk,   \* the live sources and indexes
  plan    \* the plan in the memory of builder or loader

planVars == <<paper, disk, plan>>

Elements(s) == {s[i] : i \in DOMAIN s}
FirstSuch(s, P(_)) == s[Min({i \in DOMAIN s : P(s[i])})]

EntryKey(e) == <<e.root, e.file>>
OpOf == [organize |-> "move", extract |-> "extract", dedup |-> "quarantine"]
HasSource(a) == a.op # "mkdir"
Placed(a) == a.op \in {"move", "extract"}

\* Every entry that an action or a group names.
ActionEntries(p) == {a.source : a \in {a \in Elements(p.actions) : HasSource(a)}}
GroupEntries(g) == {g.keeper} \union {m.entry : m \in Elements(g.members)}
Referenced(p) == ActionEntries(p) \union UNION {GroupEntries(g) : g \in Elements(p.groups)}

-----------------------------------------------------------------------------
(***************************************************************************)
(* canonicalize, step by step.                                             *)
(***************************************************************************)
RootIds(p) == {r.id : r \in Elements(p.roots)}
RootRefs(p) ==
  {a.dest.root : a \in Elements(p.actions)} \union {e.root : e \in Referenced(p)}
  \union {e.root : e \in Elements(p.excluded)}
RootsClosed(p) == Cardinality(RootIds(p)) = Len(p.roots) /\ RootRefs(p) \subseteq RootIds(p)

RoleRank == [source |-> 0, destination |-> 1, quarantine |-> 2]

\* F applied to every source, destination, group entry and excluded entry.
ActionTo(a, dest, source) == [a EXCEPT !.dest = dest, !.source = source]
GroupTo(g, keeper, members) == [g EXCEPT !.keeper = keeper, !.members = members]
MemberTo(m, entry) == [m EXCEPT !.entry = entry]
EachEntry(p, F(_)) ==
  LET action(a) == ActionTo(a, F(a.dest), IF HasSource(a) THEN F(a.source) ELSE NoValue)
      members(s) == [j \in DOMAIN s |-> MemberTo(s[j], F(s[j].entry))]
      group(g) == GroupTo(g, F(g.keeper), members(g.members)) IN
  [p EXCEPT
     !.actions = [i \in DOMAIN p.actions |-> action(p.actions[i])],
     !.groups = [i \in DOMAIN p.groups |-> group(p.groups[i])],
     !.excluded = [i \in DOMAIN p.excluded |-> F(p.excluded[i])]]

\* Roots in the order of role and path; every reference follows its root.
RootKey(r) == <<RoleRank[r.role]>> \o r.path
Following(e, roots) == [e EXCEPT !.root = (CHOOSE n \in DOMAIN roots : roots[n].id = @) - 1]
Numbered(r, n) == [r EXCEPT !.id = n - 1]
CanonicalRoots(p) ==
  LET sorted == StableSort(p.roots, RootKey) IN
  [EachEntry(p, LAMBDA e : Following(e, sorted))
     EXCEPT !.roots = [n \in DOMAIN sorted |-> Numbered(sorted[n], n)]]

\* The destination before a recorded suffix was added, which must be there.
Suffixed(a) == a.conflict # NoValue /\ a.conflict.ordinal # 0
Strippable(a) ==
  Suffixed(a) => /\ Len(a.dest.path) > 1 /\ Last(a.dest.path) = a.conflict.ordinal
                 /\ Last(Front(a.dest.path)) # Slash
Base(a) == IF Suffixed(a) THEN Front(a.dest.path) ELSE a.dest.path

SourceRank(e) == <<e.root>> \o e.path \o <<-1, e.file>>

\* Actions that want one destination: the first by source keeps it, the others
\* get their rank as suffix.  One that has no rival keeps the path it has.
Wanted(a) == <<a.dest.root, Base(a)>>
Rivals(actions, i) ==
  {j \in DOMAIN actions : Placed(actions[j]) /\ Wanted(actions[j]) = Wanted(actions[i])}
RankedBefore(actions, j, i) ==
  LET k == SourceRank(actions[j].source)
      l == SourceRank(actions[i].source)
  IN Less(k, l) \/ (k = l /\ j < i)
ConflictRank(actions, i) == Cardinality({j \in Rivals(actions, i) : RankedBefore(actions, j, i)})
Settled(actions, i) ==
  LET a == actions[i]
      rank == ConflictRank(actions, i) IN
  IF ~Placed(a) THEN a
  ELSE IF Cardinality(Rivals(actions, i)) = 1 THEN [a EXCEPT !.conflict = NoValue]
  ELSE [a EXCEPT !.dest.path = IF rank = 0 THEN Base(a) ELSE Append(Base(a), rank),
                 !.conflict = [ordinal |-> rank,
                               with |-> {EntryKey(actions[j].source) : j \in Rivals(actions, i)}]]
Conflicted(p) == [p EXCEPT !.actions = [i \in DOMAIN @ |-> Settled(@, i)]]

\* What is shown of a path follows from it.
Lossy(path) == [n \in DOMAIN path |-> IF path[n] \in NotUtf8 THEN -1 ELSE path[n]]
Shown(e) == [e EXCEPT !.display = Lossy(e.path)]
Displayed(p) == EachEntry(p, Shown)

KindRank == [exact |-> 0, near |-> 1]
GroupId(g) ==
  <<KindRank[g.kind]>> \o EntryKey(g.keeper)
  \o FlattenSeq([n \in DOMAIN g.members |-> EntryKey(g.members[n].entry)])

\* The roots that hold a copy when the members to be quarantined are gone.
RemainingOfAll(g) == Cardinality({e.root : e \in GroupEntries(g)})
Remaining(g) ==
  Cardinality({g.keeper.root} \union
              {m.entry.root : m \in {m \in Elements(g.members) : m.disposition # "quarantine"}})

MemberKey(m) == EntryKey(m.entry)
KeeperKey(g) == EntryKey(g.keeper)
MembersSorted(g) == [g EXCEPT !.members = StableSort(@, MemberKey)]
Derived(g) == [g EXCEPT !.id = GroupId(g), !.remaining = Remaining(g)]
CanonicalGroups(p) ==
  LET sorted == StableSort([n \in DOMAIN p.groups |-> MembersSorted(p.groups[n])], KeeperKey)
  IN [p EXCEPT !.groups = [n \in DOMAIN sorted |-> Derived(sorted[n])]]

SlotOf(a) == a.group \o <<-1>> \o EntryKey(a.source) \o <<a.source.hash>>
ActionId(a) ==
  <<a.op, a.dest.root, a.dest.path,
    IF HasSource(a) THEN <<EntryKey(a.source), a.source.hash, a.group, a.slot>> ELSE <<>> >>

ActionKey(a) ==
  CASE a.op = "mkdir" -> <<0, a.dest.root>> \o a.dest.path
    [] a.op = "move" -> <<1>> \o SourceRank(a.source)
    [] a.op = "extract" -> <<1, a.source.root, -1, a.source.file>>
    [] a.op = "quarantine" ->
         <<1, a.source.root>> \o a.group \o <<-1>> \o a.source.path \o <<-1, a.source.file>>

\* An action's identity is over its final destination and its slot.
Slotted(a) == IF a.op = "quarantine" THEN [a EXCEPT !.slot = SlotOf(a)] ELSE a
Ranked(a, n) == [a EXCEPT !.ordinal = n - 1, !.id = ActionId(a)]
CanonicalActions(p) ==
  LET sorted == StableSort([n \in DOMAIN p.actions |-> Slotted(p.actions[n])], ActionKey)
  IN [p EXCEPT !.actions = [n \in DOMAIN @ |-> Ranked(sorted[n], n)]]

SummaryOf(actions, groups, excluded) ==
  LET sum(s) == FoldSeq(LAMBDA e, n : e.size + n, 0, s)
      sources == SelectSeq(actions, HasSource) IN
  [actions |-> Len(actions),
   byOp |-> [op \in {a.op : a \in Elements(actions)} |->
               Len(SelectSeq(actions, LAMBDA a : a.op = op))],
   bytes |-> sum([n \in DOMAIN sources |-> sources[n].source]),
   groups |-> Len(groups), excluded |-> Len(excluded), excludedBytes |-> sum(excluded),
   written |-> {a.dest.root : a \in Elements(actions)}]
Summarized(p) == [p EXCEPT !.summary = SummaryOf(p.actions, p.groups, p.excluded)]

ExcludedSorted(p) == [p EXCEPT !.excluded = StableSort(@, EntryKey)]

Canonicalizable(p) == RootsClosed(p) /\ \A a \in Elements(p.actions) : Strippable(a)

\* Faulty variant: names are displayed before conflicts change them.
CanonicalizeDisplayFirst(p) ==
  Summarized(ExcludedSorted(CanonicalActions(CanonicalGroups(Conflicted(Displayed(CanonicalRoots(p)))))))
Canonicalize(p) ==
  Summarized(ExcludedSorted(CanonicalActions(CanonicalGroups(Displayed(Conflicted(CanonicalRoots(p)))))))

VerifyDerived(p) == Canonicalizable(p) /\ Canonicalize(p) = p

\* What the decoder asks of a document: the fields of each of its structures, and
\* lists where the contract has lists.
IsVec(s) == s \in Seq(Elements(s))
Has(r, fields) == fields \subseteq DOMAIN r
IsPlan(p) ==
  /\ Has(p, {"version", "kind", "roots", "actions", "groups", "excluded", "summary"})
  /\ IsVec(p.roots) /\ IsVec(p.actions) /\ IsVec(p.groups) /\ IsVec(p.excluded)
  /\ p.kind \in DOMAIN OpOf
  /\ \A r \in Elements(p.roots) : Has(r, {"id", "role", "path", "source"})
  /\ \A a \in Elements(p.actions) :
       /\ Has(a, {"op", "source", "dest", "conflict", "group", "slot"})
       /\ a.op \in {"mkdir", "move", "extract", "quarantine"}
       /\ HasSource(a) = (a.source # NoValue)
  /\ \A g \in Elements(p.groups) :
       /\ Has(g, {"id", "kind", "keeper", "members", "required", "remaining"})
       /\ IsVec(g.members) /\ g.required \in Nat
       /\ \A m \in Elements(g.members) : Has(m, {"entry", "disposition", "actionable"})
  /\ \A e \in Referenced(p) : Has(e, {"root", "file", "path", "display", "hash", "size"})

\* What a builder starts from: its roots with their paths, places as paths, and no
\* conflict yet; a builder makes moves or extracts, never both.
Ops(p) == {a.op : a \in Elements(p.actions)}
IsStruct(r, fields) == Has(r, fields) /\ r = [f \in DOMAIN r |-> r[f]]
IsEntry(e) ==
  /\ IsStruct(e, {"root", "file", "path", "display", "hash", "size"})
  /\ e.file \in Int /\ e.path \in Seq(Int)
IsDraft(p) ==
  /\ IsPlan(p) /\ IsStruct(p, {}) /\ ~({"move", "extract"} \subseteq Ops(p))
  /\ \A r \in Elements(p.roots) :
       IsStruct(r, {"id", "role"}) /\ r.role \in DOMAIN RoleRank /\ r.path \in Seq(Int)
  /\ \A a \in Elements(p.actions) :
       /\ IsStruct(a, {"ordinal", "id"}) /\ a.conflict = NoValue /\ a.group \in Seq(Int)
       /\ IsStruct(a.dest, {"root", "path", "display"}) /\ a.dest.path \in Seq(Int) \ {<<>>}
       /\ Last(a.dest.path) # Slash
  /\ \A g \in Elements(p.groups) :
       IsStruct(g, {}) /\ \A m \in Elements(g.members) : IsStruct(m, {})
  /\ \A e \in Referenced(p) \union Elements(p.excluded) : IsEntry(e)

\* Builders make drafts, and nothing is neither an entry nor a conflict.
ASSUME PlanAssumption ==
  /\ \A i \in DOMAIN PlanJobs : \A d \in PlanJobs[i].drafts : IsDraft(d)
  /\ NoValue \notin [ordinal : Nat, with : SUBSET Seq(Int)]

-----------------------------------------------------------------------------
(***************************************************************************)
(* invariants_hold.                                                        *)
(***************************************************************************)
RootOf(p, id) == FirstSuch(p.roots, LAMBDA r : r.id = id)

RootsLegal(p) ==
  /\ Cardinality({r.path : r \in Elements(p.roots)}) = Len(p.roots)
  /\ \A r \in Elements(p.roots) :
       /\ (r.role = "source") = (r.source # NoValue)
       /\ r.source # NoValue => (r.source.type = "dir") = (r.source.fingerprint = NoValue)

TypeOf == [move |-> "dir", extract |-> "tar"]

DestKey(a) == <<a.dest.root, a.dest.path>>
Targets(p) == {i \in DOMAIN p.actions : p.actions[i].op # "mkdir"}
Readers(p) == {i \in DOMAIN p.actions : HasSource(p.actions[i])}

\* Faulty variant: suffixed destinations are taken to be distinct.
DestsDistinctUnlessSuffixed(p) ==
  \A i, j \in {i \in Targets(p) : ~Suffixed(p.actions[i])} :
    DestKey(p.actions[i]) = DestKey(p.actions[j]) => i = j
DestsDistinct(p) ==
  \A i, j \in Targets(p) : DestKey(p.actions[i]) = DestKey(p.actions[j]) => i = j
SourcesDistinct(p) ==
  \A i, j \in Readers(p) :
    EntryKey(p.actions[i].source) = EntryKey(p.actions[j].source) => i = j

\* Only a move of an organize plan could take away what another is to read.
NoDestIsSource(p) ==
  p.kind = "organize" =>
    {DestKey(a) : a \in {a \in Elements(p.actions) : a.op = "move"}}
    \intersect {<<e.root, e.path>> : e \in ActionEntries(p)} = {}

GroupWithId(p, id) == FirstSuch(p.groups, LAMBDA g : g.id = id)
MemberWithKey(g, key) == FirstSuch(g.members, LAMBDA m : EntryKey(m.entry) = key)

QuarantineBacked(p, a) ==
  /\ \E g \in Elements(p.groups) : g.id = a.group
  /\ LET g == GroupWithId(p, a.group) IN
     /\ \E m \in Elements(g.members) : EntryKey(m.entry) = EntryKey(a.source)
     /\ LET m == MemberWithKey(g, EntryKey(a.source))
        IN m.disposition = "quarantine" /\ m.actionable

PathLegal(path) ==
  \A n \in 0 .. Len(path) : n = 0 \/ path[n] = Slash => n < Len(path) /\ path[n + 1] \in Plain

ActionLegal(p, a) ==
  /\ a.dest.root \in RootIds(p) /\ PathLegal(a.dest.path)
  /\ HasSource(a) => /\ a.source.root \in RootIds(p)
                     /\ PathLegal(a.source.path) /\ a.source.hash \in Digests
  /\ a.op \in {"mkdir", OpOf[p.kind]}
  /\ Placed(a) => LET s == RootOf(p, a.source.root).source
                  IN s # NoValue => s.type = TypeOf[a.op]
  /\ a.op = "quarantine" => QuarantineBacked(p, a)

InvariantsHold(p) ==
  /\ RootsLegal(p)
  /\ p.kind # "dedup" => p.groups = <<>>
  /\ DestsDistinct(p) /\ SourcesDistinct(p)
  /\ \A a \in Elements(p.actions) : ActionLegal(p, a)
  /\ NoDestIsSource(p)
  /\ \A g \in Elements(p.groups) : g.remaining >= g.required

-----------------------------------------------------------------------------
(***************************************************************************)
(* Building, writing, loading and verifying a plan.                        *)
(***************************************************************************)
PlanAt(step) == plan.step = step /\ UNCHANGED <<paper, disk>>
PlanRefused == plan' = [plan EXCEPT !.step = "refused"]

Build ==
  /\ PlanAt("build")
  /\ IF Canonicalizable(plan.doc)
     THEN plan' = [plan EXCEPT !.doc = Canonicalize(@), !.step = "write"] ELSE PlanRefused

Write ==
  /\ plan.step = "write" /\ UNCHANGED disk
  /\ IF VerifyDerived(plan.doc) /\ InvariantsHold(plan.doc)
     THEN /\ plan' = [plan EXCEPT !.step = "inspect", !.doc = NoValue]
          /\ paper' = [kind |-> "regular", ino |-> 1, doc |-> plan.doc]
     ELSE PlanRefused /\ UNCHANGED paper

\* symlink_metadata of the path, then an open that follows links, then a look
\* at what was opened.
Inspect ==
  /\ PlanAt("inspect")
  /\ IF paper.kind = "regular"
     THEN plan' = [plan EXCEPT !.step = "open", !.inspected = paper.ino] ELSE PlanRefused

\* Faulty variant: what was opened is not compared with what was inspected.
AnyFile(f, ino) == TRUE
SameFile(f, ino) == f.ino = ino

Open ==
  /\ PlanAt("open")
  /\ IF paper.kind \in {"regular", "link"} /\ SameFile(paper, plan.inspected)
     THEN plan' = [plan EXCEPT !.step = "read", !.opened = paper] ELSE PlanRefused

\* An edit in place is seen by who has the file open, a replacement is not.
Read ==
  /\ PlanAt("read")
  /\ LET p == IF paper.ino = plan.opened.ino THEN paper.doc ELSE plan.opened.doc IN
     IF p # NoValue /\ IsPlan(p) /\ p.version <= PlanVersion /\ VerifyDerived(p) /\ InvariantsHold(p)
     THEN plan' = [plan EXCEPT !.step = "roots", !.doc = p, !.next = 1, !.moments = {disk}]
     ELSE PlanRefused

\* The binding holds all that verify compares: uuid, schema, mode, algorithms,
\* number of files, type and fingerprint.
VerifyRoot ==
  /\ PlanAt("roots") /\ plan.next <= Len(plan.doc.roots)
  /\ LET r == plan.doc.roots[plan.next] IN
     IF r.source = NoValue \/ disk.source[r.path] = r.source
     THEN plan' = [plan EXCEPT !.next = @ + 1] ELSE PlanRefused

\* One entry may be named often, with one set of facts.
GatherEntries ==
  /\ PlanAt("roots") /\ plan.next > Len(plan.doc.roots)
  /\ LET entries == Referenced(plan.doc) IN
     IF \E e, f \in entries : e # f /\ EntryKey(e) = EntryKey(f) THEN PlanRefused
     ELSE plan' = [plan EXCEPT !.step = "entries", !.todo = entries]

LiveEntry(d, p, e) == d.entry[RootOf(p, e.root).path, e.file]
Matches(live, e) == live # NoValue /\ live.path = e.path /\ live.hash = e.hash

VerifyEntry ==
  /\ PlanAt("entries") /\ plan.todo # {}
  /\ LET e == SortedBy(plan.todo, EntryKey)[1] IN
     IF Matches(LiveEntry(disk, plan.doc, e), e)
     THEN plan' = [plan EXCEPT !.todo = @ \ {e}] ELSE PlanRefused

Accept ==
  /\ PlanAt("entries") /\ plan.todo = {}
  /\ plan' = [plan EXCEPT !.step = "accepted"]

PlanCommand ==
  Build \/ Write \/ Inspect \/ Open \/ Read \/ VerifyRoot \/ GatherEntries \/ VerifyEntry \/ Accept

\* Somebody edits the plan in place, with or without deriving all anew, or
\* puts another file at its path.
PaperChanges ==
  /\ plan.event = "paper" /\ plan.step \in {"inspect", "open", "read"}
  /\ \/ \E d \in Edits(paper.doc) :
          \/ paper' = [paper EXCEPT !.doc = d]
          \/ IsPlan(d) /\ Canonicalizable(d) /\ paper' = [paper EXCEPT !.doc = Canonicalize(d)]
     \/ \E kind \in {"regular", "link", "other"}, doc \in {paper.doc, NoValue} :
          paper' = [kind |-> kind, ino |-> 2, doc |-> doc]
  /\ plan' = [plan EXCEPT !.event = "none"] /\ UNCHANGED disk

\* An index is rebuilt, an archive replaced, an entry changed.
DiskChanges ==
  /\ plan.event = "disk" /\ plan.step \in {"open", "roots", "entries"}
  /\ \E d \in plan.later : disk' = d
  /\ plan' = [plan EXCEPT !.event = "none",
                          !.moments = IF @ = {} THEN @ ELSE @ \union {disk'}]
  /\ UNCHANGED paper

PlanIdle == paper = NoValue /\ disk = NoValue /\ plan = [step |-> "none"]

PlanInit ==
  \E i \in DOMAIN PlanJobs : LET j == PlanJobs[i] IN
    /\ paper = NoValue /\ disk = j.disk
    /\ \E draft \in j.drafts, event \in j.events :
         plan = [step |-> "build", doc |-> draft, event |-> event, later |-> j.later,
                 inspected |-> 0, opened |-> NoValue, next |-> 1, todo |-> {}, moments |-> {}]

PlanNext == PlanCommand \/ PaperChanges \/ DiskChanges

PlanSpec == PlanInit /\ [][PlanNext]_planVars

-----------------------------------------------------------------------------
(***************************************************************************)
(* Properties.                                                             *)
(***************************************************************************)
\* What the builder canonicalized, the loader derives in the same way: the
\* canonical form is a fixpoint.
BuildSettles == plan.step = "write" => VerifyDerived(plan.doc)

Accepted == plan.step = "accepted"

\* An accepted plan came from the regular file that was looked at, each index
\* it binds was as the plan says at a moment of the verification, and so was
\* each entry it names.
AcceptedFresh ==
  Accepted =>
    /\ plan.opened.ino = plan.inspected /\ plan.opened.kind = "regular"
    /\ \A r \in Elements(plan.doc.roots) :
         r.source # NoValue => \E d \in plan.moments : d.source[r.path] = r.source
    /\ \A e \in Referenced(plan.doc) :
         \E d \in plan.moments : Matches(LiveEntry(d, plan.doc, e), e)

\* Where an entry or a destination is in the file system.
Spot(p, e) == RootOf(p, e.root).path \o <<Slash>> \o e.path
Inside(x, y) == x # y /\ IsPrefix(Append(y, Slash), x)

\* What an action makes of the files, each known by the spot it came from, and of
\* the directories made.  It fails where a file is on the way or a directory in the
\* place, and a move where its file is gone; other directories are there.
Carried(p, a, there) ==
  LET to == Spot(p, a.dest)
      from == Spot(p, a.source)
      fileAbove == \E x \in DOMAIN there.files : Inside(to, x)
      isDir == to \in there.dirs \/ \E x \in DOMAIN there.files \union there.dirs : Inside(x, to)
      put(files, file) == [x \in DOMAIN files \union {to} |-> IF x = to THEN file ELSE files[x]]
      left == [x \in DOMAIN there.files \ {from} |-> there.files[x]] IN
  CASE a.op = "mkdir" /\ ~fileAbove /\ to \notin DOMAIN there.files ->
         [there EXCEPT !.dirs = @ \union {to}]
    [] a.op = "extract" /\ ~fileAbove /\ ~isDir -> [there EXCEPT !.files = put(@, from)]
    [] a.op = "move" /\ ~fileAbove /\ ~isDir /\ from \in DOMAIN there.files ->
         [there EXCEPT !.files = put(left, @[from])]
    [] OTHER -> there

Doing(p, S) == {i \in DOMAIN p.actions : p.actions[i].op \in S}
Laying(p) == Doing(p, {"mkdir", "move", "extract"})

\* The files to be moved and the directories made, after the actions in some order.
After(p, order) ==
  LET sources == {Spot(p, p.actions[i].source) : i \in Doing(p, {"move"})}
      there[n \in 0 .. Len(order)] ==
        IF n = 0 THEN [files |-> [x \in sources |-> x], dirs |-> {}]
        ELSE Carried(p, p.actions[order[n]], there[n - 1])
  IN there[Len(order)]

\* Every action ends as it says, whatever the order of the actions: none takes away,
\* overwrites or stands in the way of what another reads or writes.
InAnyOrder(p) ==
  \A order \in Bijection(1 .. Cardinality(Laying(p)), Laying(p)) : \A i \in Laying(p) :
    LET a == p.actions[i]
        there == After(p, order) IN
    IF a.op = "mkdir" THEN Spot(p, a.dest) \in there.dirs
    ELSE /\ Spot(p, a.dest) \in DOMAIN there.files
         /\ there.files[Spot(p, a.dest)] = Spot(p, a.source)

\* A directory has a path once, so no two moves are to take the same one.
Place(e) == <<e.root, e.path>>
TakenOnce(p) ==
  \A i, j \in Doing(p, {"move"}) :
    Place(p.actions[i].source) = Place(p.actions[j].source) => i = j

\* Places with different names are different places, and no file is to be, or is,
\* where a directory is to be or where another file is or will be beneath it.
Level(p) ==
  LET sources == {p.actions[i].source : i \in Doing(p, {"move"})}
      dests(S) == {p.actions[i].dest : i \in Doing(p, S)}
      files == sources \union dests({"move", "extract"})
      apart(x, y) == Spot(p, x) # Spot(p, y) /\ ~Inside(Spot(p, y), Spot(p, x)) IN
  /\ \A x \in files, y \in files : Place(x) = Place(y) \/ apart(x, y)
  /\ \A x \in files, y \in dests({"mkdir"}) : apart(x, y)

\* The actions of an accepted plan are independent of their order, when its places
\* are level: the plan's own checks compare names, and only for equality.
OrderFree == Accepted /\ TakenOnce(plan.doc) /\ Level(plan.doc) => InAnyOrder(plan.doc)

\* No entry that goes is in two groups or twice in one.
Quarantined(p) == {EntryKey(p.actions[i].source) : i \in Doing(p, {"quarantine"})}
GroupEntry(g, j) == IF j = 0 THEN g.keeper ELSE g.members[j].entry
NamedOnce(p) ==
  LET placesOf(i) == 0 .. Len(p.groups[i].members) IN
  \A i, h \in DOMAIN p.groups : \A j \in placesOf(i), n \in placesOf(h) :
    LET k == EntryKey(GroupEntry(p.groups[i], j)) IN
    k \in Quarantined(p) /\ EntryKey(GroupEntry(p.groups[h], n)) = k => i = h /\ j = n

\* The roots that still hold the keeper's content when all that go are gone.
ContentRoots(p, g) ==
  {e.root : e \in {e \in GroupEntries(g) : EntryKey(e) \notin Quarantined(p) /\ e.hash = g.keeper.hash}}
StaysAlike(g) ==
  \A m \in Elements(g.members) : m.disposition # "quarantine" => m.entry.hash = g.keeper.hash

\* Quarantining all that an accepted plan says leaves the keeper's content of each
\* group in as many roots as it requires, when the members that stay have it: the
\* derivation counts their roots whatever they hold.
FloorKept ==
  Accepted /\ NamedOnce(plan.doc) =>
    \A g \in Elements(plan.doc.groups) :
      StaysAlike(g) => Cardinality(ContentRoots(plan.doc, g)) >= g.required

=============================================================================
