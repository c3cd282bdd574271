------------------------------ MODULE Registry ------------------------------
(***************************************************************************)
(* What the master catalog promises its users, without sessions,           *)
(* archive_ids or statements: a set of registrations, each naming an index *)
(* by uuid and path, with a status and the file rows replicated from it.   *)
(***************************************************************************)
CONSTANTS Path, Uuid, Status, None, StatusOf(_), RowsOf(_)

VARIABLES
  entries,  \* the registrations
  proven,   \* the index, at most one, proven to be at its path and not recorded
  disk      \* the index file at each path, changed by others

vars == <<entries, proven, disk>>

Init == entries = {} /\ proven = {} /\ disk = [p \in Path |-> None]

\* The index at p has been read as a whole: it is u, and it is at p now.
Prove(u, p) ==
  /\ proven = {} /\ disk[p] = u
  /\ proven' = {[uuid |-> u, path |-> p]}
  /\ UNCHANGED <<entries, disk>>

\* The proven index takes the place of the entry of the same index, or of an
\* entry for the same path, and of no other.  The file may be gone by now.
Register(c) ==
  /\ \E kept \in {entries} \union {entries \ {e} : e \in entries} :
       /\ \A e \in entries \ kept : e.uuid = c.uuid \/ e.path = c.path
       /\ \A e \in kept : e.uuid # c.uuid
       /\ entries' = kept \union
            {[uuid |-> c.uuid, path |-> c.path,
              status |-> StatusOf(c.uuid), rows |-> RowsOf(c.uuid)]}
  /\ proven' = {}
  /\ UNCHANGED disk

\* The process that had proven an index is killed before it is recorded.
Withdraw == proven' = {} /\ UNCHANGED <<entries, disk>>

\* The other changes wait until what is proven is recorded or withdrawn.
Mark(e, st) ==
  /\ proven = {}
  /\ entries' = (entries \ {e}) \union {[e EXCEPT !.status = st]}
  /\ UNCHANGED <<proven, disk>>

\* Removal may show in two steps: the file rows first, then the entry.
Empty(e) ==
  /\ proven = {}
  /\ entries' = (entries \ {e}) \union {[e EXCEPT !.rows = None]}
  /\ UNCHANGED <<proven, disk>>

Remove(e) ==
  /\ proven = {}
  /\ entries' = entries \ {e}
  /\ UNCHANGED <<proven, disk>>

FilesChange ==
  /\ disk' \in [Path -> Uuid \union {None}]
  /\ UNCHANGED <<entries, proven>>

Next ==
  \/ \E u \in Uuid, p \in Path : Prove(u, p)
  \/ \E c \in proven : Register(c)
  \/ Withdraw
  \/ \E e \in entries : Empty(e) \/ Remove(e) \/ \E st \in Status : Mark(e, st)
  \/ FilesChange

Spec == Init /\ [][Next]_vars
=============================================================================
