------------------------------- MODULE MCTar -------------------------------
(***************************************************************************)
(* Archives for TarIndex: up to three members over two names, members with *)
(* pax records, names that are not UTF-8, and chains of links.             *)
(***************************************************************************)
EXTENDS TarIndex, MCContents, SequencesExt

CONSTANTS w1, w2

\* Names 1 to 9; 8 and 9 are not UTF-8 and look like 7.
Texts == [p \in 1 .. 9 |-> IF p \in {8, 9} THEN 7 ELSE p]
SomeWords == [c \in {x, y, z, void} |->
  CASE c = x -> [w \in {w1} |-> 2] [] c = y -> [w \in {w1, w2} |-> 1]
    [] OTHER -> [w \in {} |-> 0]]

NoPax == [sparse |-> FALSE, broken |-> FALSE, name |-> NoValue, size |-> NoValue]
FileM(p, c) ==
  [type |-> "file", path |-> p, target |-> NoValue, content |-> c, leaves |-> c,
   pax |-> NoPax, size |-> Sizes[c]]
LinkM(p, target) ==
  [FileM(p, void) EXCEPT !.type = "hardlink", !.target = target, !.content = NoValue,
                         !.leaves = NoValue]

OfType(m, type) == [m EXCEPT !.type = type]
TwoNames == {FileM(1, x), FileM(1, y), FileM(3, y), LinkM(1, 3), LinkM(3, 1), LinkM(2, 3), LinkM(3, 3)}
Special ==
  {OfType(LinkM(1, 3), "symlink"), OfType(FileM(4, void), "other"), OfType(FileM(1, x), "corrupt"),
   OfType(FileM(1, y), "gnu sparse"), OfType(FileM(2, x), "continuous"), FileM(3, void), FileM(4, x),
   [FileM(1, x) EXCEPT !.content = NoValue],
   [FileM(6, x) EXCEPT !.pax.sparse = TRUE, !.pax.name = 1, !.pax.size = 2, !.leaves = y],
   [FileM(1, x) EXCEPT !.pax.sparse = TRUE, !.leaves = y],
   [FileM(3, x) EXCEPT !.pax.broken = TRUE, !.leaves = y],
   FileM(1, z), FileM(8, x), FileM(9, y), LinkM(1, 8), LinkM(4, NoValue)}
Chained(n) == <<FileM(1, x)>> \o [i \in 1 .. n |-> LinkM(i + 1, i)]

Unread == {[FileM(1, x) EXCEPT !.content = NoValue, !.leaves = y],
           [FileM(6, x) EXCEPT !.pax.sparse = TRUE, !.pax.name = 1, !.leaves = y]}
Tuples(S, n) == [1 .. n -> S]
Mixed == {<<m, f>> : m \in Special, f \in TwoNames} \union {<<f, m>> : m \in Special, f \in TwoNames}

SomeArchives == <<
  [members |-> Tuples(TwoNames, 3) \union {Chained(5), Chained(6), Reverse(Chained(3))}
              \union {<<FileM(1, x), m, LinkM(3, 1)>> : m \in Unread}
              \union {<<FileM(8, x), FileM(9, y), LinkM(1, 8)>>,
                      <<FileM(1, y), FileM(8, x), LinkM(1, 9)>>},
   modes |-> {"full"}, wordStats |-> {TRUE}],
  [members |-> Mixed, modes |-> {"full", "metadata-only"}, wordStats |-> {FALSE}] >>

=============================================================================
