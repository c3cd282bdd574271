---------------------------- MODULE MCDirectory ----------------------------
(***************************************************************************)
(* Trees, prior indexes and changes for DirectoryIndex: two names, of      *)
(* which one is an image, and two changes during a run.                    *)
(***************************************************************************)
EXTENDS DirectoryIndex, MCContents

NodeOf(type, bytes) ==
  [type |-> type, bytes |-> bytes, ino |-> 0, stamp |-> 0, stats |-> TRUE, opens |-> TRUE]
First(p, n) == [n EXCEPT !.ino = p, !.stamp = p]
Tree2(m, n) == <<IF m = NoValue THEN m ELSE First(1, m), IF n = NoValue THEN n ELSE First(2, n)>>

Reachable == {NodeOf("file", x), NodeOf("link", y), NoValue}
Unreachable == {[NodeOf("file", x) EXCEPT !.stats = FALSE], [NodeOf("file", x) EXCEPT !.opens = FALSE],
                NodeOf("fifo", x)}
Prior(same, rows) == [sameRules |-> same, rows |-> rows]
Old == Outcome(x, "binary", {})
SomePriors == {NoValue, Prior(TRUE, <<Fresh(1, x), Fresh(2, x)>>), Prior(FALSE, <<Old, Old>>),
               Prior(TRUE, <<ReadFailed, Fresh(2, y)>>)}
SomeChanges == {NodeOf("file", x), NodeOf("file", y), [NodeOf("file", y) EXCEPT !.ino = 1], NodeOf("fifo", x), NoValue}

SomeWalks == <<
  [nodes |-> {Tree2(m, n) : m \in Reachable, n \in Reachable}, left |-> 1, changes |-> SomeChanges \union {NodeOf("link", x)},
   modes |-> {"full", "metadata-only"}, priors |-> {NoValue}, readErrors |-> FALSE, cancels |-> FALSE],
  [nodes |-> {Tree2(NodeOf("file", x), NodeOf("file", y)), Tree2(NodeOf("file", x), NodeOf("fifo", y)),
              Tree2(NodeOf("file", x), NodeOf("link", y)), Tree2(NoValue, NodeOf("fifo", y))}, left |-> 2,
   changes |-> SomeChanges \union {NodeOf("link", x)}, modes |-> {"full"}, priors |-> {NoValue}, readErrors |-> FALSE, cancels |-> FALSE],
  [nodes |-> {Tree2(m, n) : m \in Unreachable, n \in Reachable}, left |-> 1, changes |-> {NodeOf("file", y), NoValue},
   modes |-> {"full", "search-only"}, priors |-> {NoValue}, readErrors |-> FALSE, cancels |-> FALSE],
  [nodes |-> {Tree2(NodeOf("file", b), NodeOf("file", c)) : b \in {x, z, void}, c \in {x, y}}, left |-> 0, changes |-> {},
   modes |-> {"full", "search-only"}, priors |-> SomePriors, readErrors |-> TRUE, cancels |-> TRUE] >>

=============================================================================
