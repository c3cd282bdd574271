------------------------------ MODULE MCOutput ------------------------------
(***************************************************************************)
(* File systems, inputs and outputs for OutputFiles: missing inputs behind *)
(* links, loops, chains longer than the limit, debris of a killed command. *)
(***************************************************************************)
EXTENDS OutputFiles

A == <<"a">>
B == <<"b">>
C == <<"c">>
D == <<"d">>
E == <<"e">>

SomeParts == {"a", "b", "c", "d", "e", ".", "..", ".tmp", "-wal", "-shm", "-journal"}

Nothing == {<<>>}
DirAt2(loc) == loc :> [type |-> "dir", ino |-> loc]
FileAt(loc) == loc :> FileWith(loc, "old")
LinkAt(loc, to, abs) == loc :> [type |-> "link", ino |-> loc, to |-> to, abs |-> abs]
LinksAt(loc, targets) == {LinkAt(loc, to, FALSE) : to \in targets}

AtA == Nothing \union {FileAt(<<A>>)} \union LinksAt(<<A>>, {<<B>>, <<D, B>>, <<A>>, <<D, Up, B>>})
AtB == Nothing \union {FileAt(<<B>>), LinkAt(<<B>>, <<D, C>>, TRUE)}
AtD == Nothing \union {FileAt(<<D>>), DirAt2(<<D>>), DirAt2(<<D>>) @@ FileAt(<<D, B>>)}
       \union {LinkAt(<<D>>, <<E, C>>, FALSE) @@ e :
                 e \in {<<>>, DirAt2(<<E>>), DirAt2(<<E>>) @@ DirAt2(<<E, C>>)}}
SomeDisks == {DirAt2(RootDir) @@ a @@ b @@ d : a \in AtA, b \in AtB, d \in AtD}

Input(kind, path) == [kind |-> kind, path |-> path]
Debris == FileAt(<<<<".", "c", ".tmp">>>>)
Trees == DirAt2(RootDir) @@ DirAt2(<<D>>) @@ DirAt2(<<D, E>>) @@ FileAt(<<D, A>>)
TwoFiles == DirAt2(RootDir) @@ FileAt(<<A>>) @@ FileAt(<<B>>)

SomeOutputs == <<
  [disks |-> SomeDisks, commands |-> {"coverage"},
   inputs |-> {{Input(k, p)} : k \in {"db", "archive"}, p \in {<<A>>, <<D, B>>, <<D, Up, B>>}}
              \union {{Input("dir", <<D>>)}},
   dests |-> {<<A>>, <<B>>, <<C>>, <<D, B>>, <<D, C>>, <<D, Up, B>>, <<E, B>>, <<E, C>>,
              Sidecar(<<A>>, "-wal"), Sidecar(<<B>>, "-journal"), Sidecar(<<D, B>>, "-shm"), <<D, Up>>},
   kills |-> 0, others |-> 0],
  [disks |-> {TwoFiles, TwoFiles @@ Debris, TwoFiles @@ DirAt2(<<<<".", "c", ".tmp">>>>)},
   commands |-> {"coverage", "dedup"},
   inputs |-> {{Input("db", <<A>>), Input("archive", <<B>>)}, {Input("db", <<A>>), Input("archive", <<C>>)}},
   dests |-> {<<A>>, <<C>>, Sidecar(<<A>>, "-wal")}, kills |-> 1, others |-> 1],
  [disks |-> {Trees, Trees @@ LinkAt(<<C>>, <<D, E>>, FALSE)}, commands |-> {"coverage", "dedup"},
   inputs |-> {{Input("dir", <<D>>)}, {Input("dir", <<C>>)}, {Input("dir", <<D>>), Input("db", <<D, A>>)}},
   dests |-> {<<D>>, <<D, A>>, <<D, C>>, <<D, E, B>>, <<C>>, <<C, B>>, <<B>>}, kills |-> 1, others |-> 1] >>

=============================================================================
