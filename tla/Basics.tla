------------------------------- MODULE Basics -------------------------------
(***************************************************************************)
(* Sorting by keys, where a key is a sequence of integers compared as the  *)
(* source compares its tuples and byte strings: from left to right, and a  *)
(* prefix first; and the value of what is absent.                          *)
(***************************************************************************)
EXTENDS Integers, Sequences, FiniteSets

CONSTANT NoValue  \* nothing there, nothing recorded, nothing known

Less(k, l) ==
  \/ \E i \in DOMAIN k \intersect DOMAIN l :
       /\ k[i] < l[i]
       /\ \A j \in 1 .. i - 1 : k[j] = l[j]
  \/ Len(k) < Len(l) /\ k = SubSeq(l, 1, Len(k))

\* The elements of a set in the order of their keys, which differ.
SortedBy(S, Key(_)) ==
  [n \in 1 .. Cardinality(S) |->
     CHOOSE x \in S : Cardinality({y \in S : Less(Key(y), Key(x))}) = n - 1]

\* The places of a sequence of keys in their order; equal keys stay in theirs.
Before(keys, i, j) == Less(keys[i], keys[j]) \/ (keys[i] = keys[j] /\ i < j)
InOrder(keys) ==
  [n \in DOMAIN keys |->
     CHOOSE i \in DOMAIN keys : Cardinality({j \in DOMAIN keys : Before(keys, j, i)}) = n - 1]

\* A stable sort.
StableSort(s, Key(_)) ==
  LET order == InOrder([i \in DOMAIN s |-> Key(s[i])]) IN [n \in DOMAIN s |-> s[order[n]]]

=============================================================================
