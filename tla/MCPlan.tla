------------------------------- MODULE MCPlan -------------------------------
(***************************************************************************)
(* Drafts of plans and indexes for Plan: up to three actions over two      *)
(* sources, and up to two groups; destinations beneath one another, and    *)
(* beneath sources and directories made.                                   *)
(***************************************************************************)
EXTENDS Plan

CONSTANTS d1, d2, torn

\* Stem 8 is not UTF-8, stem 9 is "..".
Stems == 0 .. 8
Foreign == {8}

SrcRoot(id, path, type) ==
  [id |-> id, role |-> "source", path |-> path,
   source |-> [uuid |-> path, files |-> 2, type |-> type,
               fingerprint |-> IF type = "dir" THEN NoValue ELSE d1]]
OutRoot(id, role) == [id |-> id, role |-> role, path |-> <<5>>, source |-> NoValue]

Ent(root, file, path, hash) ==
  [root |-> root, file |-> file, path |-> path, display |-> <<>>, hash |-> hash, size |-> file]
Dest(root, path) == [root |-> root, path |-> path, display |-> <<>>]
Act(op, source, dest) ==
  [op |-> op, source |-> source, dest |-> dest, conflict |-> NoValue, group |-> <<>>,
   slot |-> <<>>, ordinal |-> 0, id |-> <<>>]
Grp(kind, keeper, members, required) ==
  [id |-> <<>>, kind |-> kind, keeper |-> keeper, members |-> members, required |-> required,
   remaining |-> 0]
Copy(e, disposition, actionable) ==
  [entry |-> e, disposition |-> disposition, actionable |-> actionable]
Draft(kind, roots, actions, groups) ==
  [version |-> 1, kind |-> kind, roots |-> roots, actions |-> actions, groups |-> groups,
   excluded |-> <<Ent(roots[1].id, 9, <<7>>, NoValue)>>, summary |-> NoValue]

\* The two sources as they are numbered when canonical.
A1 == Ent(0, 1, <<1>>, d1)
A2 == Ent(0, 2, <<2>>, d2)
B1 == Ent(1, 1, <<8>>, d1)
LiveDisk(type) ==
  [source |-> [p \in {<<3>>, <<4>>} |-> SrcRoot(0, p, type).source],
   entry |-> [x \in {<<3>>, <<4>>} \X {1, 2} |->
               IF x = <<<<4>>, 2>> THEN NoValue
               ELSE CASE x = <<<<3>>, 1>> -> [path |-> <<1>>, hash |-> d1]
                      [] x = <<<<3>>, 2>> -> [path |-> <<2>>, hash |-> d2]
                      [] OTHER -> [path |-> <<8>>, hash |-> d1]]]

\* Drafts of a builder: roots in any order, destinations that collide or not.
Renamed(e) == [e EXCEPT !.root = IF @ = 0 THEN 7 ELSE 3]
Wants == {<<1>>, <<8>>, <<8, 1>>, <<8, Slash, 1>>}
MoveDrafts(op, type) ==
  {Draft(IF op = "move" THEN "organize" ELSE "extract",
         IF swap THEN <<OutRoot(1, "destination"), SrcRoot(3, <<4>>, type), SrcRoot(7, <<3>>, type)>>
         ELSE <<SrcRoot(7, <<3>>, type), SrcRoot(3, <<4>>, type), OutRoot(1, "destination")>>,
         <<Act(op, Renamed(A1), Dest(to, x)), Act(op, Renamed(B1), Dest(1, y)),
           Act(op, Renamed(A2), Dest(1, z))>>, <<>>)
   : swap \in BOOLEAN, to \in {1, 7}, x \in Wants \union {<<2, Slash, 1>>}, y \in Wants, z \in Wants}

Odd == LET d == CHOOSE d \in MoveDrafts("move", "dir") : TRUE IN
  {[d EXCEPT !.roots[1].id = 3], [d EXCEPT !.actions[1].source.root = 9],
   [d EXCEPT !.actions[1].source = A1], [d EXCEPT !.actions[1].dest.path = <<1, Slash, 9>>],
   [d EXCEPT !.actions[1].dest.path = <<9>>], [d EXCEPT !.actions[1].source.hash = torn],
   [d EXCEPT !.roots[1].source = NoValue], [d EXCEPT !.kind = "dedup"]}
Made == {[d EXCEPT !.actions[1] = Act("mkdir", NoValue, Dest(to, x))] :
           d \in MoveDrafts("move", "dir"), to \in {1, 3}, x \in {<<1>>, <<8>>, <<8, Slash, 2>>}}

\* Quarantines of the members of one or two groups.
Quarantine(e, g) == [Act("quarantine", e, Dest(2, <<e.root, e.file>>)) EXCEPT !.group = GroupId(g)]
DedupDraft(groups) ==
  LET of(g) == SelectSeq(g.members, LAMBDA m : m.disposition = "quarantine") IN
  Draft("dedup", <<SrcRoot(0, <<3>>, "dir"), SrcRoot(1, <<4>>, "dir"), OutRoot(2, "quarantine")>>,
        FlattenSeq([n \in DOMAIN groups |->
          [i \in DOMAIN of(groups[n]) |-> Quarantine(of(groups[n])[i].entry, groups[n])]]),
        groups)
Groups ==
  {<<Grp("exact", A1, <<Copy(A2, e, TRUE), Copy(B1, d, act)>>, n)>>
     : d \in {"quarantine", "leave"}, e \in {"quarantine", "leave"}, act \in BOOLEAN, n \in {1, 2}}
  \union {<<Grp("exact", A1, <<Copy(B1, "quarantine", TRUE)>>, 1),
            Grp("near", B1, <<Copy(A1, "quarantine", TRUE)>>, 1)>>,
          <<Grp("near", A2, <<Copy(B1, "leave", TRUE)>>, 2)>>}

\* What a hand makes of a document.
SomeEdits(d) ==
  {[d EXCEPT !.roots[1].path = <<4>>], [d EXCEPT !.version = 2],
   [f \in DOMAIN d \ {"summary"} |-> d[f]]}
  \union {[d EXCEPT !.groups[n].members[1].disposition = "quarantine"] : n \in DOMAIN d.groups}
  \union UNION {{[d EXCEPT !.actions[n].dest.path = <<1>>], [d EXCEPT !.actions[n].ordinal = 9],
                 [d EXCEPT !.actions[n].dest.display = <<6>>],
                 [d EXCEPT !.actions = <<@[n]>> \o @]} : n \in DOMAIN d.actions}

Rebuilt(d) ==
  {[d EXCEPT !.source[<<3>>].uuid = <<6>>], [d EXCEPT !.source[<<4>>].files = 3],
   [d EXCEPT !.entry[<<3>>, 1].hash = d2], [d EXCEPT !.entry[<<4>>, 1] = NoValue],
   [d EXCEPT !.entry[<<3>>, 1].path = <<2>>]}

SomePlans == <<
  [drafts |-> MoveDrafts("move", "dir") \union Odd \union Made, disk |-> LiveDisk("dir"), later |-> {}, events |-> {"none"}],
  [drafts |-> {d \in MoveDrafts("extract", "tar") : d.actions[1].dest.path = <<8>>},
   disk |-> LiveDisk("tar"), later |-> {}, events |-> {"none"}],
  [drafts |-> {CHOOSE d \in MoveDrafts("move", "dir") : \A i \in 1 .. 3 : d.actions[i].dest.path = <<1>> /\ d.actions[i].dest.root = 1},
   disk |-> LiveDisk("dir"), later |-> Rebuilt(LiveDisk("dir")), events |-> {"paper", "disk"}],
  [drafts |-> {DedupDraft(g) : g \in Groups}, disk |-> LiveDisk("dir"), later |-> {}, events |-> {"none", "paper"}] >>

=============================================================================
