----------------------------- MODULE PlanProofs -----------------------------
(***************************************************************************)
(* Theorems about Plan for any draft, any edit of the plan file and any    *)
(* change of the disk.  PlanInv is the inductive invariant; with it goes   *)
(* Made, for which the second part proves that the canonical form of a     *)
(* draft is canonical.                                                     *)
(***************************************************************************)
EXTENDS Plan, OrderProofs

-----------------------------------------------------------------------------
(***************************************************************************)
(* Verification of a plan: what was compared at some moment stays compared *)
(* at that moment, and the document in memory is the one that was decoded. *)
(***************************************************************************)
PlanFields ==
  plan = [step |-> plan.step, doc |-> plan.doc, event |-> plan.event, later |-> plan.later,
          inspected |-> plan.inspected, opened |-> plan.opened, next |-> plan.next,
          todo |-> plan.todo, moments |-> plan.moments]

PaperFields == paper = [kind |-> paper.kind, ino |-> paper.ino, doc |-> paper.doc]

\* A file put at the path is not the one that was looked at; that one was regular.
Watched ==
  /\ plan.step \in {"inspect", "open", "read"} =>
       PaperFields /\ (plan.event = "paper" => paper.ino = 1)
  /\ plan.step = "open" =>
       /\ plan.inspected = paper.ino => paper.kind = "regular"
       /\ plan.event = "paper" => plan.inspected = 1
  /\ plan.step \in {"read", "roots", "entries", "accepted"} =>
       plan.opened.ino = plan.inspected /\ plan.opened.kind = "regular"

RootFresh(moments, r) == r.source # NoValue => \E d \in moments : d.source[r.path] = r.source
EntryFresh(moments, p, e) == \E d \in moments : Matches(LiveEntry(d, p, e), e)

\* What was decoded is a legal plan; the roots before `next` and the entries that
\* are no longer in `todo` were compared at a moment of the verification.
Compared ==
  /\ plan.step \in {"roots", "entries", "accepted"} =>
       /\ IsPlan(plan.doc) /\ VerifyDerived(plan.doc) /\ InvariantsHold(plan.doc)
       /\ disk \in plan.moments
       /\ plan.next \in Nat
       /\ \A i \in DOMAIN plan.doc.roots : i < plan.next => RootFresh(plan.moments, plan.doc.roots[i])
  /\ plan.step \in {"entries", "accepted"} =>
       /\ Len(plan.doc.roots) < plan.next
       /\ \A e \in Referenced(plan.doc) \ plan.todo : EntryFresh(plan.moments, plan.doc, e)
  /\ plan.step = "accepted" => plan.todo = {}

PlanInv == PlanFields /\ Watched /\ Compared

LEMMA PlanInitInv == PlanInit => PlanInv
<1> SUFFICES ASSUME PlanInit PROVE PlanInv
  OBVIOUS
<1>1. PICK draft, event, later :
        plan = [step |-> "build", doc |-> draft, event |-> event, later |-> later,
                inspected |-> 0, opened |-> NoValue, next |-> 1, todo |-> {}, moments |-> {}]
  BY DEF PlanInit
<1> QED
  BY <1>1 DEF PlanInv, PlanFields, Watched, Compared

LEMMA RefusedKeeps ==
  ASSUME PlanInv, PlanRefused
  PROVE  PlanInv'
<1>1. plan'.step = "refused" /\ PlanFields'
  BY DEF PlanInv, PlanFields, PlanRefused
<1> QED
  BY <1>1 DEF PlanInv, Watched, Compared

LEMMA BuildKeeps == PlanInv /\ Build => PlanInv'
<1> SUFFICES ASSUME PlanInv, Build PROVE PlanInv'
  OBVIOUS
<1>1. CASE Canonicalizable(plan.doc)
  <2>1. plan' = [plan EXCEPT !.doc = Canonicalize(plan.doc), !.step = "write"]
    BY <1>1 DEF Build
  <2>2. plan'.step = "write" /\ PlanFields'
    BY <2>1 DEF PlanInv, PlanFields
  <2> QED
    BY <2>2 DEF PlanInv, Watched, Compared
<1>2. CASE ~Canonicalizable(plan.doc)
  BY <1>2, RefusedKeeps DEF Build
<1> QED
  BY <1>1, <1>2

LEMMA WriteKeeps == PlanInv /\ Write => PlanInv'
<1> SUFFICES ASSUME PlanInv, Write PROVE PlanInv'
  OBVIOUS
<1>1. CASE VerifyDerived(plan.doc) /\ InvariantsHold(plan.doc)
  <2>1. /\ plan' = [plan EXCEPT !.step = "inspect", !.doc = NoValue]
        /\ paper' = [kind |-> "regular", ino |-> 1, doc |-> plan.doc]
    BY <1>1 DEF Write
  <2>2. plan'.step = "inspect" /\ PlanFields'
    BY <2>1 DEF PlanInv, PlanFields
  <2>3. PaperFields' /\ paper'.ino = 1
    BY <2>1 DEF PaperFields
  <2> QED
    BY <2>2, <2>3 DEF PlanInv, Watched, Compared
<1>2. CASE ~(VerifyDerived(plan.doc) /\ InvariantsHold(plan.doc))
  BY <1>2, RefusedKeeps DEF Write
<1> QED
  BY <1>1, <1>2

LEMMA InspectKeeps == PlanInv /\ Inspect => PlanInv'
<1> SUFFICES ASSUME PlanInv, Inspect PROVE PlanInv'
  OBVIOUS
<1>0. plan.step = "inspect" /\ paper' = paper /\ disk' = disk
  BY DEF Inspect, PlanAt
<1>1. CASE paper.kind = "regular"
  <2>1. plan' = [plan EXCEPT !.step = "open", !.inspected = paper.ino]
    BY <1>1 DEF Inspect
  <2>2. /\ plan'.step = "open" /\ plan'.inspected = paper.ino /\ plan'.event = plan.event
        /\ PlanFields'
    BY <2>1 DEF PlanInv, PlanFields
  <2>3. PaperFields' /\ (plan'.event = "paper" => paper'.ino = 1)
    BY <1>0, <2>2 DEF PlanInv, Watched, PaperFields
  <2> QED
    BY <1>0, <1>1, <2>2, <2>3 DEF PlanInv, Watched, Compared
<1>2. CASE paper.kind # "regular"
  BY <1>2, RefusedKeeps DEF Inspect
<1> QED
  BY <1>1, <1>2

LEMMA OpenKeeps == PlanInv /\ Open => PlanInv'
<1> SUFFICES ASSUME PlanInv, Open PROVE PlanInv'
  OBVIOUS
<1>0. plan.step = "open" /\ paper' = paper /\ disk' = disk
  BY DEF Open, PlanAt
<1>1. CASE paper.kind \in {"regular", "link"} /\ SameFile(paper, plan.inspected)
  <2>1. plan' = [plan EXCEPT !.step = "read", !.opened = paper]
    BY <1>1 DEF Open
  <2>2. /\ plan'.step = "read" /\ plan'.opened = paper /\ plan'.inspected = plan.inspected
        /\ plan'.event = plan.event /\ PlanFields'
    BY <2>1 DEF PlanInv, PlanFields
  <2>3. paper.ino = plan.inspected /\ paper.kind = "regular"
    BY <1>0, <1>1 DEF PlanInv, Watched, SameFile
  <2>4. PaperFields' /\ (plan'.event = "paper" => paper'.ino = 1)
    BY <1>0, <2>2 DEF PlanInv, Watched, PaperFields
  <2> QED
    BY <2>2, <2>3, <2>4 DEF PlanInv, Watched, Compared
<1>2. CASE ~(paper.kind \in {"regular", "link"} /\ SameFile(paper, plan.inspected))
  BY <1>2, RefusedKeeps DEF Open
<1> QED
  BY <1>1, <1>2

LEMMA ReadKeeps == PlanInv /\ Read => PlanInv'
<1> SUFFICES ASSUME PlanInv, Read PROVE PlanInv'
  OBVIOUS
<1> DEFINE p == IF paper.ino = plan.opened.ino THEN paper.doc ELSE plan.opened.doc
           legal == /\ p # NoValue /\ IsPlan(p) /\ p.version <= PlanVersion
                    /\ VerifyDerived(p) /\ InvariantsHold(p)
<1>0. plan.step = "read" /\ paper' = paper /\ disk' = disk
  BY DEF Read, PlanAt
<1>1. CASE legal
  <2>1. plan' = [plan EXCEPT !.step = "roots", !.doc = p, !.next = 1, !.moments = {disk}]
    BY <1>1 DEF Read
  <2>2. IsPlan(p) /\ VerifyDerived(p) /\ InvariantsHold(p)
    BY <1>1
  <2> HIDE DEF p, legal
  <2>3. /\ plan'.step = "roots" /\ plan'.doc = p /\ plan'.next = 1 /\ plan'.moments = {disk}
        /\ plan'.opened = plan.opened /\ plan'.inspected = plan.inspected /\ PlanFields'
    BY <2>1 DEF PlanInv, PlanFields
  <2>4. Watched'
    BY <1>0, <2>3 DEF PlanInv, Watched
  <2>5. DOMAIN p.roots = 1 .. Len(p.roots) /\ Len(p.roots) \in Nat
    BY <2>2 DEF IsPlan, IsVec
  <2>6. Compared'
    BY <1>0, <2>2, <2>3, <2>5 DEF Compared
  <2> QED
    BY <2>3, <2>4, <2>6 DEF PlanInv
<1>2. CASE ~legal
  BY <1>2, RefusedKeeps DEF Read
<1> QED
  BY <1>1, <1>2

\* A step that keeps the document and the moments keeps what was compared.
LEMMA ComparedStays ==
  ASSUME PlanInv, plan.step \in {"roots", "entries"}, UNCHANGED disk,
         plan'.doc = plan.doc, plan'.moments = plan.moments, plan'.opened = plan.opened,
         plan'.inspected = plan.inspected, plan'.step \in {"roots", "entries", "accepted"}
  PROVE  /\ Watched'
         /\ IsPlan(plan'.doc) /\ VerifyDerived(plan'.doc) /\ InvariantsHold(plan'.doc)
         /\ disk' \in plan'.moments
         /\ DOMAIN plan.doc.roots = 1 .. Len(plan.doc.roots) /\ Len(plan.doc.roots) \in Nat
<1>1. Watched'
  BY DEF PlanInv, Watched
<1>2. /\ IsPlan(plan.doc) /\ VerifyDerived(plan.doc) /\ InvariantsHold(plan.doc)
      /\ disk \in plan.moments
  BY DEF PlanInv, Compared
<1>3. DOMAIN plan.doc.roots = 1 .. Len(plan.doc.roots) /\ Len(plan.doc.roots) \in Nat
  BY <1>2 DEF IsPlan, IsVec
<1> QED
  BY <1>1, <1>2, <1>3

LEMMA VerifyRootKeeps == PlanInv /\ VerifyRoot => PlanInv'
<1> SUFFICES ASSUME PlanInv, VerifyRoot PROVE PlanInv'
  OBVIOUS
<1> DEFINE r == plan.doc.roots[plan.next]
<1>0. plan.step = "roots" /\ UNCHANGED disk
  BY DEF VerifyRoot, PlanAt
<1>1. CASE r.source = NoValue \/ disk.source[r.path] = r.source
  <2>1. plan' = [plan EXCEPT !.next = plan.next + 1]
    BY <1>1 DEF VerifyRoot
  <2>2. /\ plan'.step = "roots" /\ plan'.next = plan.next + 1 /\ plan'.doc = plan.doc
        /\ plan'.moments = plan.moments /\ plan'.opened = plan.opened
        /\ plan'.inspected = plan.inspected /\ PlanFields'
    BY <1>0, <2>1 DEF PlanInv, PlanFields
  <2>3. /\ plan.next \in Nat /\ disk \in plan.moments
        /\ \A i \in DOMAIN plan.doc.roots : i < plan.next => RootFresh(plan.moments, plan.doc.roots[i])
    BY <1>0 DEF PlanInv, Compared
  <2>4. RootFresh(plan.moments, r)
    BY <1>1, <2>3 DEF RootFresh
  <2>5. \A i \in DOMAIN plan.doc.roots : i < plan.next + 1 => i < plan.next \/ i = plan.next
    BY <1>0, <2>2, <2>3, ComparedStays
  <2>6. \A i \in DOMAIN plan.doc.roots : i < plan.next + 1 => RootFresh(plan.moments, plan.doc.roots[i])
    BY <2>3, <2>4, <2>5
  <2>7. \A i \in DOMAIN plan'.doc.roots : i < plan'.next => RootFresh(plan'.moments, plan'.doc.roots[i])
    BY <2>2, <2>6
  <2>8. Compared'
    BY <1>0, <2>2, <2>3, <2>7, ComparedStays DEF Compared
  <2> QED
    BY <1>0, <2>2, <2>8, ComparedStays DEF PlanInv
<1>2. CASE ~(r.source = NoValue \/ disk.source[r.path] = r.source)
  BY <1>2, RefusedKeeps DEF VerifyRoot
<1> QED
  BY <1>1, <1>2

LEMMA GatherKeeps == PlanInv /\ GatherEntries => PlanInv'
<1> SUFFICES ASSUME PlanInv, GatherEntries PROVE PlanInv'
  OBVIOUS
<1> DEFINE entries == Referenced(plan.doc)
           clash == \E e, f \in entries : e # f /\ EntryKey(e) = EntryKey(f)
<1>0. plan.step = "roots" /\ UNCHANGED disk /\ plan.next > Len(plan.doc.roots)
  BY DEF GatherEntries, PlanAt
<1>1. CASE ~clash
  <2>1. plan' = [plan EXCEPT !.step = "entries", !.todo = entries]
    BY <1>1 DEF GatherEntries
  <2> HIDE DEF clash
  <2>2. /\ plan'.step = "entries" /\ plan'.next = plan.next /\ plan'.doc = plan.doc
        /\ plan'.todo = Referenced(plan.doc)
        /\ plan'.moments = plan.moments /\ plan'.opened = plan.opened
        /\ plan'.inspected = plan.inspected /\ PlanFields'
    BY <2>1 DEF PlanInv, PlanFields
  <2>3. /\ plan.next \in Nat
        /\ \A i \in DOMAIN plan.doc.roots : i < plan.next => RootFresh(plan.moments, plan.doc.roots[i])
    BY <1>0 DEF PlanInv, Compared
  <2>4. \A i \in DOMAIN plan'.doc.roots : i < plan'.next => RootFresh(plan'.moments, plan'.doc.roots[i])
    BY <2>2, <2>3 DEF RootFresh
  <2>5. Len(plan'.doc.roots) < plan'.next
    BY <1>0, <2>2, <2>3, ComparedStays
  <2>6. Compared'
    BY <1>0, <2>2, <2>3, <2>4, <2>5, ComparedStays DEF Compared
  <2> QED
    BY <1>0, <2>2, <2>6, ComparedStays DEF PlanInv
<1>2. CASE clash
  BY <1>2, RefusedKeeps DEF GatherEntries
<1> QED
  BY <1>1, <1>2

LEMMA VerifyEntryKeeps == PlanInv /\ VerifyEntry => PlanInv'
<1> SUFFICES ASSUME PlanInv, VerifyEntry PROVE PlanInv'
  OBVIOUS
<1>0. plan.step = "entries" /\ UNCHANGED disk
  BY DEF VerifyEntry, PlanAt
<1>1. PICK e : \/ /\ Matches(LiveEntry(disk, plan.doc, e), e)
                  /\ plan' = [plan EXCEPT !.todo = plan.todo \ {e}]
               \/ PlanRefused
  BY DEF VerifyEntry
<1>2. CASE /\ Matches(LiveEntry(disk, plan.doc, e), e)
           /\ plan' = [plan EXCEPT !.todo = plan.todo \ {e}]
  <2>2. /\ plan'.step = "entries" /\ plan'.next = plan.next /\ plan'.doc = plan.doc
        /\ plan'.todo = plan.todo \ {e}
        /\ plan'.moments = plan.moments /\ plan'.opened = plan.opened
        /\ plan'.inspected = plan.inspected /\ PlanFields'
    BY <1>0, <1>2 DEF PlanInv, PlanFields
  <2>3. /\ plan.next \in Nat /\ disk \in plan.moments /\ Len(plan.doc.roots) < plan.next
        /\ \A i \in DOMAIN plan.doc.roots : i < plan.next => RootFresh(plan.moments, plan.doc.roots[i])
        /\ \A f \in Referenced(plan.doc) \ plan.todo : EntryFresh(plan.moments, plan.doc, f)
    BY <1>0 DEF PlanInv, Compared
  <2>4. \A i \in DOMAIN plan'.doc.roots : i < plan'.next => RootFresh(plan'.moments, plan'.doc.roots[i])
    BY <2>2, <2>3 DEF RootFresh
  <2>5. EntryFresh(plan.moments, plan.doc, e)
    BY <1>2, <2>3 DEF EntryFresh
  <2>6. \A f \in Referenced(plan.doc) \ (plan.todo \ {e}) : EntryFresh(plan.moments, plan.doc, f)
    BY <2>3, <2>5
  <2>7. \A f \in Referenced(plan'.doc) \ plan'.todo : EntryFresh(plan'.moments, plan'.doc, f)
    BY <2>2, <2>6 DEF EntryFresh
  <2>8. Compared'
    BY <1>0, <2>2, <2>3, <2>4, <2>7, ComparedStays DEF Compared
  <2> QED
    BY <1>0, <2>2, <2>8, ComparedStays DEF PlanInv
<1> QED
  BY <1>1, <1>2, RefusedKeeps

LEMMA AcceptKeeps == PlanInv /\ Accept => PlanInv'
<1> SUFFICES ASSUME PlanInv, Accept PROVE PlanInv'
  OBVIOUS
<1>0. /\ plan.step = "entries" /\ UNCHANGED disk /\ plan.todo = {}
      /\ plan' = [plan EXCEPT !.step = "accepted"]
  BY DEF Accept, PlanAt
<1>2. /\ plan'.step = "accepted" /\ plan'.next = plan.next /\ plan'.doc = plan.doc
      /\ plan'.todo = plan.todo
      /\ plan'.moments = plan.moments /\ plan'.opened = plan.opened
      /\ plan'.inspected = plan.inspected /\ PlanFields'
  BY <1>0 DEF PlanInv, PlanFields
<1>3. /\ plan.next \in Nat /\ Len(plan.doc.roots) < plan.next
      /\ \A i \in DOMAIN plan.doc.roots : i < plan.next => RootFresh(plan.moments, plan.doc.roots[i])
      /\ \A f \in Referenced(plan.doc) \ plan.todo : EntryFresh(plan.moments, plan.doc, f)
  BY <1>0 DEF PlanInv, Compared
<1>4. \A i \in DOMAIN plan'.doc.roots : i < plan'.next => RootFresh(plan'.moments, plan'.doc.roots[i])
  BY <1>2, <1>3 DEF RootFresh
<1>5. \A f \in Referenced(plan'.doc) \ plan'.todo : EntryFresh(plan'.moments, plan'.doc, f)
  BY <1>2, <1>3 DEF EntryFresh
<1>6. Compared'
  BY <1>0, <1>2, <1>3, <1>4, <1>5, ComparedStays DEF Compared
<1> QED
  BY <1>0, <1>2, <1>6, ComparedStays DEF PlanInv

LEMMA PaperKeeps == PlanInv /\ PaperChanges => PlanInv'
<1> SUFFICES ASSUME PlanInv, PaperChanges PROVE PlanInv'
  OBVIOUS
<1>1. /\ plan.event = "paper" /\ plan.step \in {"inspect", "open", "read"} /\ UNCHANGED disk
      /\ plan' = [plan EXCEPT !.event = "none"]
  BY DEF PaperChanges
<1>2. /\ PaperFields'
      /\ (paper'.ino = paper.ino /\ paper'.kind = paper.kind) \/ paper'.ino = 2
  <2>1. \/ \E d : paper' = [paper EXCEPT !.doc = d]
        \/ \E kind, doc : paper' = [kind |-> kind, ino |-> 2, doc |-> doc]
    BY DEF PaperChanges
  <2>2. PaperFields
    BY <1>1 DEF PlanInv, Watched
  <2> QED
    BY <2>1, <2>2 DEF PaperFields
<1>3. /\ plan'.step = plan.step /\ plan'.event = "none" /\ plan'.inspected = plan.inspected
      /\ plan'.opened = plan.opened /\ PlanFields'
  BY <1>1 DEF PlanInv, PlanFields
<1>4. Watched'
  BY <1>1, <1>2, <1>3 DEF PlanInv, Watched
<1> QED
  BY <1>1, <1>3, <1>4 DEF PlanInv, Compared

LEMMA DiskKeeps == PlanInv /\ DiskChanges => PlanInv'
<1> SUFFICES ASSUME PlanInv, DiskChanges PROVE PlanInv'
  OBVIOUS
<1>1. /\ plan.event = "disk" /\ plan.step \in {"open", "roots", "entries"} /\ UNCHANGED paper
      /\ plan' = [plan EXCEPT !.event = "none",
                              !.moments = IF plan.moments = {} THEN plan.moments
                                          ELSE plan.moments \union {disk'}]
  BY DEF DiskChanges
<1>2. /\ plan'.step = plan.step /\ plan'.event = "none" /\ plan'.next = plan.next
      /\ plan'.doc = plan.doc /\ plan'.todo = plan.todo /\ plan'.opened = plan.opened
      /\ plan'.inspected = plan.inspected /\ plan.moments \subseteq plan'.moments
      /\ plan.moments # {} => disk' \in plan'.moments
      /\ PlanFields'
  BY <1>1 DEF PlanInv, PlanFields
<1>3. Watched'
  BY <1>1, <1>2 DEF PlanInv, Watched, PaperFields
<1>4. CASE plan.step = "open"
  BY <1>2, <1>3, <1>4 DEF PlanInv, Compared
<1>5. CASE plan.step \in {"roots", "entries"}
  <2>1. /\ IsPlan(plan.doc) /\ VerifyDerived(plan.doc) /\ InvariantsHold(plan.doc)
        /\ disk \in plan.moments /\ plan.next \in Nat
        /\ \A i \in DOMAIN plan.doc.roots : i < plan.next => RootFresh(plan.moments, plan.doc.roots[i])
    BY <1>5 DEF PlanInv, Compared
  <2>2. \A i \in DOMAIN plan'.doc.roots : i < plan'.next => RootFresh(plan'.moments, plan'.doc.roots[i])
    BY <1>2, <2>1 DEF RootFresh
  <2>3. plan.step = "entries" =>
          /\ Len(plan'.doc.roots) < plan'.next
          /\ \A f \in Referenced(plan'.doc) \ plan'.todo : EntryFresh(plan.moments, plan.doc, f)
    BY <1>2 DEF PlanInv, Compared
  <2>4. plan.step = "entries" =>
          \A f \in Referenced(plan'.doc) \ plan'.todo : EntryFresh(plan'.moments, plan'.doc, f)
    BY <1>2, <2>3 DEF EntryFresh
  <2>5. Compared'
    BY <1>2, <1>5, <2>1, <2>2, <2>3, <2>4 DEF Compared
  <2> QED
    BY <1>2, <1>3, <2>5 DEF PlanInv
<1> QED
  BY <1>1, <1>4, <1>5

\* What is so of a plan's file and of its memory at each step, for any drafts, any
\* edits and any disks (Plan: Inspect to Accept, PaperChanges, DiskChanges).
THEOREM PlanInvariant == PlanSpec => []PlanInv
<1>1. PlanInv /\ [PlanNext]_planVars => PlanInv'
  <2> SUFFICES ASSUME PlanInv, [PlanNext]_planVars PROVE PlanInv'
    OBVIOUS
  <2>1. CASE PlanCommand
    BY <2>1, BuildKeeps, WriteKeeps, InspectKeeps, OpenKeeps, ReadKeeps, VerifyRootKeeps,
       GatherKeeps, VerifyEntryKeeps, AcceptKeeps DEF PlanCommand
  <2>2. CASE PaperChanges
    BY <2>2, PaperKeeps
  <2>3. CASE DiskChanges
    BY <2>3, DiskKeeps
  <2>4. CASE UNCHANGED planVars
    BY <2>4 DEF planVars, PlanInv, PlanFields, PaperFields, Watched, Compared, RootFresh, EntryFresh
  <2> QED
    BY <2>1, <2>2, <2>3, <2>4 DEF PlanNext
<1> QED
  BY <1>1, PlanInitInv, PTL DEF PlanSpec

LEMMA AcceptedFreshHere == PlanInv => AcceptedFresh
<1> SUFFICES ASSUME PlanInv, Accepted
             PROVE  /\ plan.opened.ino = plan.inspected /\ plan.opened.kind = "regular"
                    /\ \A r \in Elements(plan.doc.roots) : RootFresh(plan.moments, r)
                    /\ \A e \in Referenced(plan.doc) : EntryFresh(plan.moments, plan.doc, e)
  BY DEF AcceptedFresh, RootFresh, EntryFresh
<1>1. /\ IsPlan(plan.doc) /\ plan.next \in Nat /\ Len(plan.doc.roots) < plan.next
      /\ \A i \in DOMAIN plan.doc.roots : i < plan.next => RootFresh(plan.moments, plan.doc.roots[i])
      /\ \A e \in Referenced(plan.doc) : EntryFresh(plan.moments, plan.doc, e)
  BY DEF PlanInv, Compared, Accepted
<1>2. DOMAIN plan.doc.roots = 1 .. Len(plan.doc.roots) /\ Len(plan.doc.roots) \in Nat
  BY <1>1 DEF IsPlan, IsVec
<1>3. \A r \in Elements(plan.doc.roots) : RootFresh(plan.moments, r)
  BY <1>1, <1>2 DEF Elements
<1> QED
  BY <1>1, <1>3 DEF PlanInv, Watched, Accepted

\* An accepted plan came from the regular file that was looked at, and each index
\* and each entry it names was as it says at a moment of the verification
\* (AcceptedFresh: load_from_regular_file, verify).
THEOREM AcceptedIsFresh == PlanSpec => []AcceptedFresh
BY PlanInvariant, AcceptedFreshHere, PTL

-----------------------------------------------------------------------------
(***************************************************************************)
(* The floor of a group.                                                   *)
(***************************************************************************)
\* Every group of a canonical document has the number that follows from its
\* members: no later step of canonicalize touches the groups.
LEMMA RemainingIsDerived ==
  ASSUME NEW p, IsPlan(p), Canonicalize(p) = p, NEW n \in DOMAIN p.groups
  PROVE  p.groups[n].remaining = Remaining(p.groups[n])
<1> DEFINE d == Displayed(Conflicted(CanonicalRoots(p)))
           a == CanonicalActions(CanonicalGroups(d))
<1>1. Summarized(ExcludedSorted(a)) = p
  BY DEF Canonicalize
<1>2. "groups" \in DOMAIN p
  BY DEF IsPlan, Has
<1>3. \A q : /\ DOMAIN ExcludedSorted(q) = DOMAIN q /\ DOMAIN Summarized(q) = DOMAIN q
             /\ "groups" \in DOMAIN q => ExcludedSorted(q).groups = q.groups
             /\ "groups" \in DOMAIN q => Summarized(q).groups = q.groups
  BY DEF ExcludedSorted, Summarized
<1>4. \A q : /\ DOMAIN CanonicalActions(q) = DOMAIN q
             /\ "groups" \in DOMAIN q => CanonicalActions(q).groups = q.groups
  BY DEF CanonicalActions
<1> HIDE DEF d
<1>5. DOMAIN CanonicalGroups(d) = DOMAIN d
  BY DEF CanonicalGroups
<1>6. p.groups = CanonicalGroups(d).groups /\ "groups" \in DOMAIN d
  BY <1>1, <1>2, <1>3, <1>4, <1>5
<1>7. PICK h : p.groups[n] = [h EXCEPT !.id = GroupId(h), !.remaining = Remaining(h)]
  BY <1>6 DEF CanonicalGroups, Derived
<1>8. {"id", "keeper", "members", "remaining"} \subseteq DOMAIN h
  <2>1. {"id", "keeper", "members", "remaining"} \subseteq DOMAIN p.groups[n]
    BY DEF IsPlan, Has, Elements
  <2> QED
    BY <1>7, <2>1
<1>9. /\ p.groups[n].remaining = Remaining(h)
      /\ p.groups[n].keeper = h.keeper /\ p.groups[n].members = h.members
  BY <1>7, <1>8
<1> QED
  BY <1>9 DEF Remaining

\* The members of a list are finitely many.
LEMMA ElementsFinite ==
  ASSUME NEW s, IsVec(s)
  PROVE  IsFiniteSet(Elements(s)) /\ DOMAIN s = 1 .. Len(s) /\ Len(s) \in Nat
<1>1. DOMAIN s = 1 .. Len(s) /\ Len(s) \in Nat /\ s \in Surjection(DOMAIN s, Elements(s))
  BY DEF IsVec, Elements, Surjection
<1>2. IsFiniteSet(DOMAIN s)
  BY <1>1, FS_Interval
<1> QED
  BY <1>1, <1>2, FS_Surjection

\* Whatever is looked up by its identity is there, when something has it.
LEMMA FirstGroup ==
  ASSUME NEW p, IsVec(p.groups), NEW k, \E g \in Elements(p.groups) : g.id = k
  PROVE  \E i \in DOMAIN p.groups : GroupWithId(p, k) = p.groups[i]
<1> DEFINE s == p.groups
           S == {i \in DOMAIN s : s[i].id = k}
<1>1. DOMAIN s \subseteq Nat
  BY ElementsFinite
<1>2. S \in SUBSET Nat /\ S # {}
  BY <1>1 DEF Elements
<1>3. Min(S) \in S
  <2> HIDE DEF S
  <2> QED
    BY <1>2, LeastNatural DEF Min
<1>4. GroupWithId(p, k) = s[Min(S)]
  BY DEF GroupWithId, FirstSuch
<1> QED
  BY <1>3, <1>4

LEMMA FirstMember ==
  ASSUME NEW g, IsVec(g.members), NEW k, \E m \in Elements(g.members) : EntryKey(m.entry) = k
  PROVE  \E j \in DOMAIN g.members :
           MemberWithKey(g, k) = g.members[j] /\ EntryKey(g.members[j].entry) = k
<1> DEFINE s == g.members
           S == {j \in DOMAIN s : EntryKey(s[j].entry) = k}
<1>1. DOMAIN s \subseteq Nat
  BY ElementsFinite
<1>2. S \in SUBSET Nat /\ S # {}
  BY <1>1 DEF Elements
<1>3. Min(S) \in S
  <2> HIDE DEF S
  <2> QED
    BY <1>2, LeastNatural DEF Min
<1>4. MemberWithKey(g, k) = s[Min(S)]
  BY DEF MemberWithKey, FirstSuch
<1> QED
  BY <1>3, <1>4

\* Every entry that a legal plan quarantines is a member of some group, and one
\* that the group gives up.
LEMMA QuarantinedMember ==
  ASSUME NEW p, IsPlan(p), InvariantsHold(p), NEW a \in Elements(p.actions), a.op = "quarantine"
  PROVE  \E i \in DOMAIN p.groups : \E j \in DOMAIN p.groups[i].members :
           /\ EntryKey(p.groups[i].members[j].entry) = EntryKey(a.source)
           /\ p.groups[i].members[j].disposition = "quarantine"
<1>1. QuarantineBacked(p, a)
  BY DEF InvariantsHold, ActionLegal
<1>2. PICK i \in DOMAIN p.groups : GroupWithId(p, a.group) = p.groups[i]
  <2>1. IsVec(p.groups) /\ \E g \in Elements(p.groups) : g.id = a.group
    BY <1>1 DEF QuarantineBacked, IsPlan
  <2> QED
    BY <2>1, FirstGroup
<1>3. IsVec(p.groups[i].members)
  BY DEF IsPlan, Elements
<1>4. /\ \E m \in Elements(p.groups[i].members) : EntryKey(m.entry) = EntryKey(a.source)
      /\ MemberWithKey(p.groups[i], EntryKey(a.source)).disposition = "quarantine"
  BY <1>1, <1>2 DEF QuarantineBacked
<1>5. PICK j \in DOMAIN p.groups[i].members :
        /\ MemberWithKey(p.groups[i], EntryKey(a.source)) = p.groups[i].members[j]
        /\ EntryKey(p.groups[i].members[j].entry) = EntryKey(a.source)
  BY <1>3, <1>4, FirstMember
<1> QED
  BY <1>4, <1>5

LEMMA FloorKeptHere == PlanInv => FloorKept
<1> DEFINE p == plan.doc
           quarantined == Quarantined(p)
           placesOf(i) == 0 .. Len(p.groups[i].members)
           left(g) == {e \in GroupEntries(g) : EntryKey(e) \notin quarantined /\ e.hash = g.keeper.hash}
           roots(g) == {e.root : e \in left(g)}
<1> SUFFICES ASSUME PlanInv, Accepted, NamedOnce(p), NEW i \in DOMAIN p.groups, StaysAlike(p.groups[i])
             PROVE  Cardinality(roots(p.groups[i])) >= p.groups[i].required
  BY DEF FloorKept, Elements, ContentRoots
<1>0. \A h \in DOMAIN p.groups : \A j \in placesOf(i), n \in placesOf(h) :
        LET k == EntryKey(GroupEntry(p.groups[i], j)) IN
        k \in quarantined /\ EntryKey(GroupEntry(p.groups[h], n)) = k => i = h /\ j = n
  BY DEF NamedOnce
<1> DEFINE g == p.groups[i]
           held == {g.keeper.root} \union
                   {m.entry.root : m \in {m \in Elements(g.members) : m.disposition # "quarantine"}}
<1>1. IsPlan(p) /\ VerifyDerived(p) /\ InvariantsHold(p)
  BY DEF PlanInv, Compared, Accepted
<1>2. g \in Elements(p.groups) /\ IsVec(g.members) /\ g.required \in Nat
  BY <1>1 DEF IsPlan, Elements
<1>3. Cardinality(held) >= g.required
  <2>1. g.remaining = Remaining(g)
    BY <1>1, RemainingIsDerived DEF VerifyDerived
  <2>2. g.remaining >= g.required
    BY <1>1, <1>2 DEF InvariantsHold
  <2> QED
    BY <2>1, <2>2 DEF Remaining
<1>4. \A k \in quarantined : \E h \in DOMAIN p.groups : \E n \in DOMAIN p.groups[h].members :
        EntryKey(p.groups[h].members[n].entry) = k /\ p.groups[h].members[n].disposition = "quarantine"
  <2> SUFFICES ASSUME NEW k \in quarantined
               PROVE  \E h \in DOMAIN p.groups : \E n \in DOMAIN p.groups[h].members :
                        /\ EntryKey(p.groups[h].members[n].entry) = k
                        /\ p.groups[h].members[n].disposition = "quarantine"
    OBVIOUS
  <2>1. PICK a \in Elements(p.actions) : a.op = "quarantine" /\ k = EntryKey(a.source)
    BY DEF Quarantined, Doing, Elements
  <2> QED
    BY <1>1, <2>1, QuarantinedMember
<1>5. \A h \in DOMAIN p.groups : DOMAIN p.groups[h].members = 1 .. Len(p.groups[h].members)
                                 /\ Len(p.groups[h].members) \in Nat
  <2> SUFFICES ASSUME NEW h \in DOMAIN p.groups
               PROVE  DOMAIN p.groups[h].members = 1 .. Len(p.groups[h].members)
                      /\ Len(p.groups[h].members) \in Nat
    OBVIOUS
  <2>1. IsVec(p.groups[h].members)
    BY <1>1 DEF IsPlan, Elements
  <2> QED
    BY <2>1, ElementsFinite
<1>6. g.keeper \in left(g)
  <2>1. g.keeper \in GroupEntries(g) /\ GroupEntry(g, 0) = g.keeper /\ 0 \in placesOf(i)
    BY <1>5 DEF GroupEntries, GroupEntry
  <2>2. ASSUME EntryKey(g.keeper) \in quarantined
        PROVE  FALSE
    <3>1. PICK h \in DOMAIN p.groups : \E n \in DOMAIN p.groups[h].members :
            EntryKey(p.groups[h].members[n].entry) = EntryKey(g.keeper)
      BY <1>4, <2>2
    <3>3. PICK n \in DOMAIN p.groups[h].members :
             EntryKey(p.groups[h].members[n].entry) = EntryKey(g.keeper)
      BY <3>1
    <3>2. n # 0 /\ n \in placesOf(h) /\ GroupEntry(p.groups[h], n) = p.groups[h].members[n].entry
      BY <1>5 DEF GroupEntry
    <3> QED
      BY <1>0, <2>1, <2>2, <3>3, <3>2
  <2> QED
    BY <2>1, <2>2
<1>7. ASSUME NEW m \in Elements(g.members), m.disposition # "quarantine"
      PROVE  m.entry \in left(g)
  <2>0. m.entry.hash = g.keeper.hash
    BY <1>7 DEF StaysAlike
  <2>1. PICK j \in DOMAIN g.members : m = g.members[j]
    BY DEF Elements
  <2>2. m.entry \in GroupEntries(g) /\ GroupEntry(g, j) = m.entry /\ j \in placesOf(i)
    <3>1. m.entry \in GroupEntries(g)
      BY <1>7 DEF GroupEntries
    <3>2. j # 0 /\ j \in placesOf(i)
      BY <1>5, <2>1
    <3>3. GroupEntry(g, j) = m.entry
      BY <2>1, <3>2 DEF GroupEntry
    <3> QED
      BY <3>1, <3>2, <3>3
  <2>3. ASSUME EntryKey(m.entry) \in quarantined
        PROVE  FALSE
    <3>0. PICK h \in DOMAIN p.groups : \E n \in DOMAIN p.groups[h].members :
            /\ EntryKey(p.groups[h].members[n].entry) = EntryKey(m.entry)
            /\ p.groups[h].members[n].disposition = "quarantine"
      BY <1>4, <2>3
    <3>1. PICK n \in DOMAIN p.groups[h].members :
            /\ EntryKey(p.groups[h].members[n].entry) = EntryKey(m.entry)
            /\ p.groups[h].members[n].disposition = "quarantine"
      BY <3>0
    <3>2. n \in placesOf(h) /\ GroupEntry(p.groups[h], n) = p.groups[h].members[n].entry
      BY <1>5 DEF GroupEntry
    <3>3. i = h /\ j = n
      BY <1>0, <2>2, <2>3, <3>1, <3>2
    <3> QED
      BY <1>7, <2>1, <3>1, <3>3
  <2> QED
    BY <2>0, <2>2, <2>3
<1>8. held \subseteq roots(g)
  BY <1>6, <1>7
<1>9. IsFiniteSet(roots(g))
  <2>1. IsFiniteSet(Elements(g.members))
    BY <1>2, ElementsFinite
  <2>2. DEFINE f == [m \in Elements(g.members) |-> m.entry.root]
  <2>3. f \in Surjection(Elements(g.members), {m.entry.root : m \in Elements(g.members)})
    BY DEF Surjection
  <2>4. IsFiniteSet({m.entry.root : m \in Elements(g.members)})
    BY <2>1, <2>3, FS_Surjection
  <2>5. IsFiniteSet({m.entry.root : m \in Elements(g.members)} \union {g.keeper.root})
    BY <2>4, FS_AddElement
  <2>6. roots(g) \subseteq {m.entry.root : m \in Elements(g.members)} \union {g.keeper.root}
    BY DEF GroupEntries
  <2> QED
    BY <2>5, <2>6, FS_Subset
<1> HIDE DEF held, roots, g
<1>10. Cardinality(held) <= Cardinality(roots(g)) /\ Cardinality(roots(g)) \in Nat
       /\ Cardinality(held) \in Nat
  BY <1>8, <1>9, FS_Subset, FS_CardinalityType
<1> QED
  BY <1>2, <1>3, <1>10 DEF g

\* Quarantining what an accepted plan says leaves the keeper's content of a group in
\* as many roots as it requires, when the members that stay have that content and
\* no entry that goes is named twice (FloorKept: canonicalize_groups and the
\* replica floor of invariants_hold).
THEOREM FloorIsKept == PlanSpec => []FloorKept
BY PlanInvariant, FloorKeptHere, PTL

-----------------------------------------------------------------------------
(***************************************************************************)
(* The order of the actions.                                               *)
(***************************************************************************)
Onset(p) ==
  [files |-> [x \in {Spot(p, p.actions[i].source) : i \in Doing(p, {"move"})} |-> x], dirs |-> {}]

Runs(p, order, start, m, f) ==
  f = [n \in 0 .. m |-> IF n = 0 THEN start ELSE Carried(p, p.actions[order[n]], f[n - 1])]

\* What `After` counts through is defined at every number.
LEMMA HeldExists ==
  ASSUME NEW p, NEW order, NEW start, NEW N \in Nat
  PROVE  \E f : Runs(p, order, start, N, f)
<1> DEFINE T == {m \in Nat : ~ \E f : Runs(p, order, start, m, f)}
<1> SUFFICES ASSUME T # {} PROVE FALSE
  OBVIOUS
<1>1. PICK m \in T : \A k \in T : m <= k
  <2>1. T \in SUBSET Nat /\ T # {}
    OBVIOUS
  <2> HIDE DEF T
  <2> QED
    BY <2>1, LeastNatural
<1>2. m # 0
  <2>1. Runs(p, order, start, 0, [n \in 0 .. 0 |-> start])
    BY DEF Runs
  <2> QED
    BY <1>1, <2>1
<1>3. m \in Nat /\ m - 1 \in Nat /\ m - 1 \notin T
  BY <1>1, <1>2
<1>4. PICK f : Runs(p, order, start, m - 1, f)
  BY <1>3
<1> DEFINE g == [n \in 0 .. m |-> IF n = m THEN Carried(p, p.actions[order[m]], f[m - 1]) ELSE f[n]]
<1>5. Runs(p, order, start, m, g)
  <2>0. f = [n \in 0 .. m - 1 |-> IF n = 0 THEN start ELSE Carried(p, p.actions[order[n]], f[n - 1])]
    BY <1>4 DEF Runs
  <2>1. \A n \in 0 .. m - 1 : g[n] = f[n]
    BY <1>3
  <2>2. \A n \in 1 .. m - 1 : g[n] = Carried(p, p.actions[order[n]], g[n - 1])
    <3> SUFFICES ASSUME NEW n \in 1 .. m - 1 PROVE g[n] = Carried(p, p.actions[order[n]], g[n - 1])
      OBVIOUS
    <3>1. n \in 0 .. m - 1 /\ n - 1 \in 0 .. m - 1 /\ n # 0
      BY <1>3
    <3>2. f[n] = Carried(p, p.actions[order[n]], f[n - 1])
      BY <2>0, <3>1
    <3> QED
      BY <2>1, <3>1, <3>2
  <2>3. g[0] = start
    BY <1>2, <1>3, <2>0, <2>1
  <2>4. g[m] = Carried(p, p.actions[order[m]], g[m - 1])
    BY <1>2, <1>3, <2>1
  <2>5. g = [n \in 0 .. m |-> g[n]]
    OBVIOUS
  <2> HIDE DEF g
  <2>6. \A n \in 0 .. m : n # 0 => g[n] = Carried(p, p.actions[order[n]], g[n - 1])
    <3> SUFFICES ASSUME NEW n \in 0 .. m, n # 0 PROVE g[n] = Carried(p, p.actions[order[n]], g[n - 1])
      OBVIOUS
    <3>1. n = m \/ n \in 1 .. m - 1
      BY <1>3
    <3> QED
      BY <2>2, <2>4, <3>1
  <2> QED
    BY <2>3, <2>5, <2>6 DEF Runs
<1> HIDE DEF g
<1> QED
  BY <1>1, <1>5

\* The files after each number of actions.
Stages(p, order, N, held) ==
  /\ After(p, order) = held[N]
  /\ held[0] = Onset(p)
  /\ \A n \in 1 .. N : held[n] = Carried(p, p.actions[order[n]], held[n - 1])

LEMMA AfterSteps ==
  ASSUME NEW p, NEW order, NEW N \in Nat, Len(order) = N
  PROVE  \E held : Stages(p, order, N, held)
<1> DEFINE start == Onset(p)
           held == CHOOSE f : Runs(p, order, start, N, f)
<1>1. After(p, order) = held[N]
  BY DEF After, Onset, Runs
<1>2. Runs(p, order, start, N, held)
  <2> HIDE DEF start
  <2> QED
    BY HeldExists
<1> HIDE DEF held
<1>3. held = [n \in 0 .. N |-> IF n = 0 THEN start ELSE Carried(p, p.actions[order[n]], held[n - 1])]
  BY <1>2 DEF Runs
<1>4. held[0] = start
  BY <1>3
<1>5. ASSUME NEW n \in 1 .. N PROVE held[n] = Carried(p, p.actions[order[n]], held[n - 1])
  <2>1. n \in 0 .. N /\ n # 0
    OBVIOUS
  <2> HIDE DEF start
  <2> QED
    BY <1>3, <2>1
<1> QED
  BY <1>1, <1>4, <1>5 DEF Stages

\* Where actions take files from and put them, where they make directories.
To(p, a) == Spot(p, a.dest)
From(p, a) == Spot(p, a.source)
Filed(p, A, N) ==
  {To(p, A[k]) : k \in {k \in 1 .. N : A[k].op # "mkdir"}}
  \union {From(p, A[k]) : k \in {k \in 1 .. N : A[k].op = "move"}}
Dug(p, A, N) == {To(p, A[k]) : k \in {k \in 1 .. N : A[k].op = "mkdir"}}

\* No place is wanted twice, and no file stands above a place that is wanted.
Orderly(p, A, N) ==
  /\ \A k \in 1 .. N : A[k].op \in {"mkdir", "move", "extract"}
  /\ \A k, l \in 1 .. N :
       A[k].op # "mkdir" /\ A[l].op # "mkdir" /\ To(p, A[k]) = To(p, A[l]) => k = l
  /\ \A k, l \in 1 .. N :
       A[k].op = "move" /\ A[l].op = "move" /\ From(p, A[k]) = From(p, A[l]) => k = l
  /\ \A k, l \in 1 .. N : A[k].op # "mkdir" /\ A[l].op = "move" => To(p, A[k]) # From(p, A[l])
  /\ \A x \in Filed(p, A, N) :
       x \notin Dug(p, A, N) /\ \A y \in Filed(p, A, N) \union Dug(p, A, N) : ~Inside(y, x)

\* After n of the actions: the moves to come find their files where they were, the
\* actions that are over are done, and there is nothing else.
Waiting(p, A, N, tree, n) ==
  \A k \in n + 1 .. N : A[k].op = "move" =>
    From(p, A[k]) \in DOMAIN tree.files /\ tree.files[From(p, A[k])] = From(p, A[k])
Done(p, a, tree) ==
  IF a.op = "mkdir" THEN To(p, a) \in tree.dirs
  ELSE To(p, a) \in DOMAIN tree.files /\ tree.files[To(p, a)] = From(p, a)
Underway(p, A, N, tree, n) ==
  /\ Waiting(p, A, N, tree, n)
  /\ \A k \in 1 .. n : Done(p, A[k], tree)
  /\ tree = [files |-> tree.files, dirs |-> tree.dirs]
  /\ DOMAIN tree.files \subseteq Filed(p, A, N) /\ tree.dirs \subseteq Dug(p, A, N)

LEMMA OneCarried ==
  ASSUME NEW p, NEW N \in Nat, NEW A, NEW tree, NEW n \in 1 .. N, Orderly(p, A, N),
         Underway(p, A, N, tree, n - 1)
  PROVE  Underway(p, A, N, Carried(p, A[n], tree), n)
<1> DEFINE a == A[n]
           from == From(p, a)
           to == To(p, a)
           fileAbove == \E x \in DOMAIN tree.files : Inside(to, x)
           isDir == to \in tree.dirs \/ \E x \in DOMAIN tree.files \union tree.dirs : Inside(x, to)
           put(files, file) == [x \in DOMAIN files \union {to} |-> IF x = to THEN file ELSE files[x]]
           left == [x \in DOMAIN tree.files \ {from} |-> tree.files[x]]
           next == Carried(p, a, tree)
<1>1. /\ a.op \in {"mkdir", "move", "extract"}
      /\ a.op = "mkdir" => to \in Dug(p, A, N)
      /\ a.op # "mkdir" => to \in Filed(p, A, N)
      /\ a.op = "move" => from \in Filed(p, A, N)
  BY DEF Orderly, Filed, Dug
<1>2. /\ DOMAIN tree.files \subseteq Filed(p, A, N) /\ tree.dirs \subseteq Dug(p, A, N)
      /\ tree = [files |-> tree.files, dirs |-> tree.dirs]
  BY DEF Underway
<1>3. ~fileAbove
  BY <1>1, <1>2 DEF Orderly
<1>4. a.op # "mkdir" => ~isDir
  BY <1>1, <1>2 DEF Orderly
<1>5. a.op = "mkdir" => to \notin DOMAIN tree.files
  BY <1>1, <1>2 DEF Orderly
<1>6. a.op = "move" => from \in DOMAIN tree.files /\ tree.files[from] = from
  <2>1. n \in (n - 1) + 1 .. N
    OBVIOUS
  <2> QED
    BY <2>1 DEF Underway, Waiting
<1>7. \A k \in 1 .. n : k # n => k \in 1 .. n - 1 /\ k \in 1 .. N /\ Done(p, A[k], tree)
  <2> SUFFICES ASSUME NEW k \in 1 .. n, k # n PROVE k \in 1 .. n - 1 /\ k \in 1 .. N /\ Done(p, A[k], tree)
    OBVIOUS
  <2>1. k \in 1 .. n - 1 /\ k \in 1 .. N
    OBVIOUS
  <2> QED
    BY <2>1 DEF Underway
<1>8. \A k \in n + 1 .. N : k \in (n - 1) + 1 .. N /\ k \in 1 .. N /\ k # n
  OBVIOUS
<1>9. CASE a.op = "mkdir"
  <2>1. next = [files |-> tree.files, dirs |-> tree.dirs \union {to}]
    <3>1. next = [tree EXCEPT !.dirs = @ \union {to}]
      BY <1>3, <1>5, <1>9 DEF Carried, To, From
    <3> QED
      BY <1>2, <3>1
  <2> HIDE DEF next
  <2>2. \A k \in 1 .. n : Done(p, A[k], next)
    BY <1>7, <1>9, <2>1 DEF Done
  <2>3. Waiting(p, A, N, next, n)
    BY <1>8, <2>1 DEF Underway, Waiting
  <2>4. Underway(p, A, N, next, n)
    BY <1>1, <1>2, <1>9, <2>1, <2>2, <2>3 DEF Underway
  <2> QED
    BY <2>4 DEF next
<1>10. ASSUME NEW files, DOMAIN files \subseteq DOMAIN tree.files, a.op # "mkdir",
              \A x \in DOMAIN tree.files : x \in DOMAIN files \/ (a.op = "move" /\ x = from),
              \A x \in DOMAIN files : files[x] = tree.files[x],
              next = [files |-> put(files, from), dirs |-> tree.dirs]
       PROVE  Underway(p, A, N, next, n)
  <2> HIDE DEF next
  <2>1. /\ DOMAIN next.files = DOMAIN files \union {to} /\ next.files[to] = from
        /\ \A x \in DOMAIN files : x # to => next.files[x] = tree.files[x]
        /\ next.dirs = tree.dirs
    BY <1>10
  <2>2. ASSUME NEW k \in 1 .. n PROVE Done(p, A[k], next)
    <3>1. CASE k = n
      BY <1>10, <2>1, <3>1 DEF Done
    <3>2. CASE k # n
      <4>1. k \in 1 .. N /\ Done(p, A[k], tree)
        BY <1>7, <3>2
      <4>2. A[k].op # "mkdir" => To(p, A[k]) # to /\ (a.op = "move" => To(p, A[k]) # from)
        BY <1>10, <3>2, <4>1 DEF Orderly
      <4> QED
        BY <1>10, <2>1, <4>1, <4>2 DEF Done
    <3> QED
      BY <3>1, <3>2
  <2>3. ASSUME NEW k \in n + 1 .. N, A[k].op = "move"
        PROVE  From(p, A[k]) \in DOMAIN next.files /\ next.files[From(p, A[k])] = From(p, A[k])
    <3>1. k \in (n - 1) + 1 .. N /\ k \in 1 .. N /\ k # n
      BY <1>8
    <3>2. From(p, A[k]) \in DOMAIN tree.files /\ tree.files[From(p, A[k])] = From(p, A[k])
      BY <2>3, <3>1 DEF Underway, Waiting
    <3>3. From(p, A[k]) # to /\ (a.op = "move" => From(p, A[k]) # from)
      BY <1>10, <2>3, <3>1 DEF Orderly
    <3> QED
      BY <1>10, <2>1, <3>2, <3>3
  <2>4. DOMAIN next.files \subseteq Filed(p, A, N)
    BY <1>1, <1>2, <1>10, <2>1
  <2>5. Waiting(p, A, N, next, n)
    BY <2>3 DEF Waiting
  <2> QED
    BY <1>2, <1>10, <2>1, <2>2, <2>4, <2>5 DEF Underway
<1>11. CASE a.op = "extract"
  <2>1. next = [tree EXCEPT !.files = put(@, from)]
    BY <1>3, <1>4, <1>11 DEF Carried, To, From
  <2>2. next = [files |-> put(tree.files, from), dirs |-> tree.dirs]
    BY <1>2, <2>1
  <2> HIDE DEF next
  <2>3. Underway(p, A, N, next, n)
    BY <1>10, <1>11, <2>2
  <2> QED
    BY <2>3 DEF next
<1>12. CASE a.op = "move"
  <2>1. next = [tree EXCEPT !.files = put(left, tree.files[from])]
    BY <1>3, <1>4, <1>6, <1>12 DEF Carried, To, From
  <2>2. next = [files |-> put(left, from), dirs |-> tree.dirs]
    BY <1>2, <1>6, <1>12, <2>1
  <2>3. /\ DOMAIN left = DOMAIN tree.files \ {from}
        /\ \A x \in DOMAIN left : left[x] = tree.files[x]
    OBVIOUS
  <2> HIDE DEF next, left
  <2>4. Underway(p, A, N, next, n)
    BY <1>10, <1>12, <2>2, <2>3
  <2> QED
    BY <2>4 DEF next
<1> QED
  BY <1>1, <1>9, <1>11, <1>12

LEMMA AllCarried ==
  ASSUME NEW p, NEW N \in Nat, NEW A, NEW held, Orderly(p, A, N), Underway(p, A, N, held[0], 0),
         \A n \in 1 .. N : held[n] = Carried(p, A[n], held[n - 1])
  PROVE  Underway(p, A, N, held[N], N)
<1> DEFINE T == {n \in 0 .. N : ~Underway(p, A, N, held[n], n)}
<1> SUFFICES ASSUME T # {} PROVE FALSE
  OBVIOUS
<1>1. PICK m \in T : \A k \in T : m <= k
  <2>1. T \in SUBSET Nat /\ T # {}
    OBVIOUS
  <2> HIDE DEF T
  <2> QED
    BY <2>1, LeastNatural
<1>2. m \in 1 .. N /\ m - 1 \in 0 .. N /\ m - 1 \notin T
  BY <1>1
<1>3. Underway(p, A, N, held[m - 1], m - 1)
  BY <1>2
<1>4. Underway(p, A, N, Carried(p, A[m], held[m - 1]), m)
  BY <1>2, <1>3, OneCarried
<1> QED
  BY <1>1, <1>2, <1>4

LEMMA OrderFreeHere == PlanInv => OrderFree
<1> DEFINE p == plan.doc
           laying == Laying(p)
           N == Cardinality(laying)
<1> SUFFICES ASSUME PlanInv, Accepted, TakenOnce(p), Level(p),
                    NEW order \in Bijection(1 .. N, laying), NEW i \in laying
             PROVE  Done(p, p.actions[i], After(p, order))
  BY DEF OrderFree, InAnyOrder, Done, To, From
<1> DEFINE A == [k \in 1 .. N |-> p.actions[order[k]]]
<1>1. IsPlan(p) /\ InvariantsHold(p)
  BY DEF PlanInv, Compared, Accepted
<1>2. DOMAIN p.actions = 1 .. Len(p.actions) /\ Len(p.actions) \in Nat
  BY <1>1 DEF IsPlan, IsVec
<1>3. IsFiniteSet(laying) /\ N \in Nat
  <2>1. IsFiniteSet(DOMAIN p.actions) /\ laying \subseteq DOMAIN p.actions
    BY <1>2, FS_Interval DEF Laying, Doing
  <2> QED
    BY <2>1, FS_Subset, FS_CardinalityType
<1>4. /\ order \in [1 .. N -> laying] /\ \A k, l \in 1 .. N : order[k] = order[l] => k = l
      /\ \E k \in 1 .. N : order[k] = i
  BY DEF Bijection, Injection, Surjection, IsInjective
<1>5. Len(order) = N
  <2> HIDE DEF N, laying
  <2> QED
    BY <1>3, <1>4
<1>6. ASSUME NEW j \in laying
      PROVE  /\ j \in DOMAIN p.actions /\ p.actions[j].op \in {"mkdir", "move", "extract"}
             /\ p.actions[j].op # "mkdir" => j \in Targets(p) /\ j \in Doing(p, {"move", "extract"})
             /\ p.actions[j].op = "mkdir" => j \in Doing(p, {"mkdir"})
             /\ p.actions[j].op = "move" => j \in Doing(p, {"move"})
  BY DEF Laying, Doing, Targets
<1>7. \A j, h \in laying : p.actions[j].op # "mkdir" /\ p.actions[h].op # "mkdir"
        /\ Place(p.actions[j].dest) = Place(p.actions[h].dest) => j = h
  <2>1. DestsDistinct(p)
    BY <1>1 DEF InvariantsHold
  <2> QED
    BY <1>6, <2>1 DEF DestsDistinct, Place, DestKey
<1>8. \A j, h \in laying : p.actions[j].op # "mkdir" /\ p.actions[h].op = "move"
        => Place(p.actions[j].dest) # Place(p.actions[h].source)
  <2> SUFFICES ASSUME NEW j \in laying, NEW h \in laying,
                      p.actions[j].op # "mkdir", p.actions[h].op = "move"
               PROVE  Place(p.actions[j].dest) # Place(p.actions[h].source)
    OBVIOUS
  <2>1. p.actions[j] \in Elements(p.actions) /\ p.actions[h] \in Elements(p.actions)
    BY <1>6 DEF Elements
  <2>2. ActionLegal(p, p.actions[j]) /\ ActionLegal(p, p.actions[h])
    BY <1>1, <2>1 DEF InvariantsHold
  <2>3. p.kind = "organize" /\ p.actions[j].op = "move"
    <3>1. p.kind \in DOMAIN OpOf
      BY <1>1 DEF IsPlan
    <3>2. /\ p.actions[j].op \in {"mkdir", OpOf[p.kind]}
          /\ p.actions[h].op \in {"mkdir", OpOf[p.kind]}
      BY <2>2 DEF ActionLegal
    <3>3. OpOf[p.kind] = "move" /\ p.actions[j].op = "move"
      BY <3>2
    <3> HIDE DEF p, laying
    <3> QED
      BY <3>1, <3>3 DEF OpOf
  <2>4. NoDestIsSource(p)
    BY <1>1 DEF InvariantsHold
  <2>5. DestKey(p.actions[j]) \in {DestKey(a) : a \in {a \in Elements(p.actions) : a.op = "move"}}
    BY <2>1, <2>3
  <2>6. Place(p.actions[h].source) \in {<<e.root, e.path>> : e \in ActionEntries(p)}
    BY <2>1 DEF Place, ActionEntries, HasSource
  <2> QED
    BY <2>3, <2>4, <2>5, <2>6 DEF NoDestIsSource, Place, DestKey
<1>9. \A j, h \in laying : p.actions[j].op = "move" /\ p.actions[h].op = "move"
        /\ Place(p.actions[j].source) = Place(p.actions[h].source) => j = h
  BY <1>6 DEF TakenOnce
<1> DEFINE dests(S) == {p.actions[j].dest : j \in Doing(p, S)}
           files == {p.actions[j].source : j \in Doing(p, {"move"})} \union dests({"move", "extract"})
<1>10. /\ \A x \in files, y \in files :
            \/ Place(x) = Place(y)
            \/ Spot(p, x) # Spot(p, y) /\ ~Inside(Spot(p, y), Spot(p, x))
       /\ \A x \in files, y \in dests({"mkdir"}) :
            Spot(p, x) # Spot(p, y) /\ ~Inside(Spot(p, y), Spot(p, x))
  BY DEF Level
<1>11. \A x, y : Place(x) = Place(y) => Spot(p, x) = Spot(p, y)
  BY DEF Place, Spot
<1>12. \A k \in 1 .. N : order[k] \in laying /\ A[k] = p.actions[order[k]]
  BY <1>4
<1>13. \A k \in 1 .. N :
         /\ A[k].op \in {"mkdir", "move", "extract"}
         /\ A[k].op # "mkdir" => A[k].dest \in files
         /\ A[k].op = "mkdir" => A[k].dest \in dests({"mkdir"})
         /\ A[k].op = "move" => A[k].source \in files
  BY <1>6, <1>12
<1> HIDE DEF N, A, laying, p, files, dests
<1>14. Orderly(p, A, N)
  <2>1. \A k, l \in 1 .. N :
          A[k].op # "mkdir" /\ A[l].op # "mkdir" /\ To(p, A[k]) = To(p, A[l]) => k = l
    <3> SUFFICES ASSUME NEW k \in 1 .. N, NEW l \in 1 .. N, A[k].op # "mkdir", A[l].op # "mkdir",
                        To(p, A[k]) = To(p, A[l])
                 PROVE  k = l
      OBVIOUS
    <3>1. Place(A[k].dest) = Place(A[l].dest)
      BY <1>10, <1>13 DEF To
    <3> QED
      BY <1>4, <1>7, <1>12, <3>1
  <2>2. \A k, l \in 1 .. N :
          A[k].op = "move" /\ A[l].op = "move" /\ From(p, A[k]) = From(p, A[l]) => k = l
    <3> SUFFICES ASSUME NEW k \in 1 .. N, NEW l \in 1 .. N, A[k].op = "move", A[l].op = "move",
                        From(p, A[k]) = From(p, A[l])
                 PROVE  k = l
      OBVIOUS
    <3>1. Place(A[k].source) = Place(A[l].source)
      BY <1>10, <1>13 DEF From
    <3> QED
      BY <1>4, <1>9, <1>12, <3>1
  <2>3. \A k, l \in 1 .. N : A[k].op # "mkdir" /\ A[l].op = "move" => To(p, A[k]) # From(p, A[l])
    <3> SUFFICES ASSUME NEW k \in 1 .. N, NEW l \in 1 .. N, A[k].op # "mkdir", A[l].op = "move"
                 PROVE  To(p, A[k]) # From(p, A[l])
      OBVIOUS
    <3>1. Place(A[k].dest) # Place(A[l].source)
      BY <1>8, <1>12
    <3> QED
      BY <1>10, <1>13, <3>1 DEF To, From
  <2>4. ASSUME NEW x \in Filed(p, A, N)
        PROVE  \E e \in files : x = Spot(p, e)
    BY <1>13 DEF Filed, To, From
  <2>5. ASSUME NEW y \in Dug(p, A, N)
        PROVE  \E e \in dests({"mkdir"}) : y = Spot(p, e)
    BY <1>13 DEF Dug, To
  <2>6. \A x \in Filed(p, A, N), y \in Dug(p, A, N) : x # y /\ ~Inside(y, x)
    BY <1>10, <2>4, <2>5
  <2>7. ASSUME NEW x \in Filed(p, A, N), NEW y \in Filed(p, A, N)
        PROVE  ~Inside(y, x)
    <3>1. PICK d \in files, e \in files : x = Spot(p, d) /\ y = Spot(p, e)
      BY <2>4
    <3>2. CASE Place(d) = Place(e)
      BY <1>11, <3>1, <3>2 DEF Inside
    <3>3. CASE Place(d) # Place(e)
      BY <1>10, <3>1, <3>3
    <3> QED
      BY <3>2, <3>3
  <2> QED
    BY <1>13, <2>1, <2>2, <2>3, <2>6, <2>7 DEF Orderly
<1>15. PICK held : Stages(p, order, N, held)
  BY <1>3, <1>5, AfterSteps
<1>16. Underway(p, A, N, held[0], 0)
  <2>1. held[0] = Onset(p)
    BY <1>15 DEF Stages
  <2>2. \A j \in Doing(p, {"move"}) : j \in laying
    BY DEF Doing, Laying, laying
  <2>3. \A j \in laying : \E k \in 1 .. N : order[k] = j
    BY DEF Bijection, Surjection
  <2>4. \A j \in Doing(p, {"move"}) : Spot(p, p.actions[j].source) \in Filed(p, A, N)
    <3> SUFFICES ASSUME NEW j \in Doing(p, {"move"})
                 PROVE  Spot(p, p.actions[j].source) \in Filed(p, A, N)
      OBVIOUS
    <3>1. PICK k \in 1 .. N : order[k] = j
      BY <2>2, <2>3
    <3>2. A[k].op = "move" /\ A[k].source = p.actions[j].source
      BY <1>12, <3>1 DEF Doing
    <3> QED
      BY <3>2 DEF Filed, From
  <2>5. DOMAIN held[0].files \subseteq Filed(p, A, N) /\ held[0].dirs = {}
    BY <2>1, <2>4 DEF Onset
  <2>6. Waiting(p, A, N, held[0], 0)
    <3> SUFFICES ASSUME NEW k \in 0 + 1 .. N, A[k].op = "move"
                 PROVE  /\ From(p, A[k]) \in DOMAIN held[0].files
                        /\ held[0].files[From(p, A[k])] = From(p, A[k])
      BY DEF Waiting
    <3>1. k \in 1 .. N
      OBVIOUS
    <3>2. order[k] \in Doing(p, {"move"}) /\ From(p, A[k]) = Spot(p, p.actions[order[k]].source)
      BY <1>6, <1>12, <3>1 DEF From
    <3> QED
      BY <2>1, <3>2 DEF Onset
  <2>7. held[0] = [files |-> held[0].files, dirs |-> held[0].dirs]
    BY <2>1 DEF Onset
  <2> QED
    BY <2>5, <2>6, <2>7 DEF Underway
<1>17. \A n \in 1 .. N : held[n] = Carried(p, A[n], held[n - 1])
  BY <1>12, <1>15 DEF Stages
<1>18. Underway(p, A, N, held[N], N)
  BY <1>3, <1>14, <1>16, <1>17, AllCarried
<1>19. PICK k \in 1 .. N : order[k] = i
  BY <1>4
<1>20. After(p, order) = held[N] /\ A[k] = p.actions[i]
  BY <1>12, <1>15, <1>19 DEF Stages
<1> QED
  BY <1>18, <1>20 DEF Underway

\* The actions of an accepted plan whose places are level may be done in any order:
\* each file ends where its action says, and each directory is made (OrderFree: the
\* checks of invariants_hold on destinations and sources).
THEOREM OrderIsFree == PlanSpec => []OrderFree
BY PlanInvariant, OrderFreeHere, PTL

-----------------------------------------------------------------------------
(***************************************************************************)
(* Documents and their lists.                                              *)
(***************************************************************************)
LEMMA VecIs ==
  ASSUME NEW s, IsVec(s)
  PROVE  Len(s) \in Nat /\ DOMAIN s = 1 .. Len(s) /\ s = [i \in 1 .. Len(s) |-> s[i]]
BY DEF IsVec

LEMMA VecOf ==
  ASSUME NEW N \in Nat, NEW s, s = [i \in 1 .. N |-> s[i]]
  PROVE  IsVec(s) /\ Len(s) = N /\ DOMAIN s = 1 .. N
<1>1. DOMAIN s = 1 .. N
  OBVIOUS
<1>2. s \in [1 .. N -> Elements(s)]
  BY <1>1 DEF Elements
<1>3. s \in Seq(Elements(s))
  BY <1>2, SeqDef
<1>4. Len(s) \in Nat /\ DOMAIN s = 1 .. Len(s)
  BY <1>3, LenProperties
<1>5. Len(s) = N
  BY <1>1, <1>4
<1> QED
  BY <1>1, <1>3, <1>5 DEF IsVec

Ids(roots) == 0 .. Len(roots) - 1
\* The roots that entries are in, and whether they show their path.
Scope(ids, shown) == [ids |-> ids, shown |-> shown]
In(e, R) == e.root \in R.ids /\ (R.shown => Shown(e) = e)

RootOk(r) ==
  IsStruct(r, {"id", "role", "path"}) /\ r.role \in DOMAIN RoleRank /\ r.path \in Seq(Int)
RootsOk(s) == IsVec(s) /\ \A n \in DOMAIN s : RootOk(s[n])

EntryOk(e, R) == IsEntry(e) /\ In(e, R)
DestOk(a, R) ==
  IsStruct(a, {"root", "path", "display"}) /\ a.path \in Seq(Int) \ {<<>>} /\ Last(a.path) # Slash /\ In(a, R)
ActionOk(a, R) ==
  /\ IsStruct(a, {"op", "source", "dest", "conflict", "group", "slot", "ordinal", "id"})
  /\ a.op \in {"mkdir", "move", "extract", "quarantine"} /\ a.group \in Seq(Int)
  /\ DestOk(a.dest, R) /\ (IF HasSource(a) THEN EntryOk(a.source, R) ELSE a.source = NoValue)
OneKind(s) == \A i, j \in DOMAIN s : s[i].op = "move" => s[j].op # "extract"
ActionsOk(s, R) == IsVec(s) /\ OneKind(s) /\ \A i \in DOMAIN s : ActionOk(s[i], R)

MemberOk(m, R) == IsStruct(m, {"entry"}) /\ EntryOk(m.entry, R)
MembersOk(s, R) == IsVec(s) /\ \A j \in DOMAIN s : MemberOk(s[j], R)
GroupOk(g, R) ==
  /\ IsStruct(g, {"id", "kind", "keeper", "members", "remaining"})
  /\ EntryOk(g.keeper, R) /\ MembersOk(g.members, R)
GroupsOk(s, R) == IsVec(s) /\ \A n \in DOMAIN s : GroupOk(s[n], R)

ExcludedOk(s, R) == IsVec(s) /\ \A n \in DOMAIN s : EntryOk(s[n], R)

DocOk(p) == IsStruct(p, {"roots", "actions", "groups", "excluded", "summary"})

\* A structure with some of its fields set keeps the others.
LEMMA NumberedOk ==
  ASSUME NEW r, RootOk(r), NEW n
  PROVE  LET q == Numbered(r, n) IN RootOk(q) /\ q.id = n - 1 /\ q.role = r.role /\ q.path = r.path
BY DEF RootOk, IsStruct, Has, Numbered

LEMMA ActionToOk ==
  ASSUME NEW R, NEW S, NEW a, ActionOk(a, R), NEW to, DestOk(to, S), NEW from,
         IF HasSource(a) THEN EntryOk(from, S) ELSE from = NoValue
  PROVE  LET q == ActionTo(a, to, from) IN
         /\ ActionOk(q, S) /\ q.dest = to /\ q.source = from
         /\ q.op = a.op /\ q.conflict = a.conflict /\ q.group = a.group
BY DEF ActionOk, IsStruct, Has, HasSource, ActionTo

LEMMA GroupToOk ==
  ASSUME NEW R, NEW S, NEW g, GroupOk(g, R), NEW e, EntryOk(e, S), NEW ms, MembersOk(ms, S)
  PROVE  LET q == GroupTo(g, e, ms) IN GroupOk(q, S) /\ q.keeper = e /\ q.members = ms
BY DEF GroupOk, IsStruct, Has, GroupTo

LEMMA MemberToOk ==
  ASSUME NEW R, NEW S, NEW m, MemberOk(m, R), NEW e, EntryOk(e, S)
  PROVE  LET q == MemberTo(m, e) IN MemberOk(q, S) /\ q.entry = e
BY DEF MemberOk, IsStruct, Has, MemberTo

\* A draft has all that canonicalize reads.
LEMMA DraftOk ==
  ASSUME NEW d, IsDraft(d)
  PROVE  LET R == Scope(RootRefs(d), FALSE) IN
         /\ DocOk(d) /\ RootsOk(d.roots) /\ ActionsOk(d.actions, R)
         /\ GroupsOk(d.groups, R) /\ ExcludedOk(d.excluded, R)
         /\ \A i \in DOMAIN d.actions : d.actions[i].conflict = NoValue
<1> DEFINE R == Scope(RootRefs(d), FALSE)
<1>1. DocOk(d)
  BY DEF DocOk, IsDraft, IsPlan, IsStruct, Has
<1>2. RootsOk(d.roots)
  <2>1. ASSUME NEW n \in DOMAIN d.roots PROVE RootOk(d.roots[n])
    <3>1. d.roots[n] \in Elements(d.roots)
      BY DEF Elements
    <3> QED
      BY <3>1 DEF IsDraft, IsPlan, RootOk, IsStruct, Has
  <2> QED
    BY <2>1 DEF RootsOk, IsDraft, IsPlan
<1>3. \A e \in Referenced(d) : EntryOk(e, R)
  BY DEF IsDraft, EntryOk, RootRefs, In, Scope
<1>4. ActionsOk(d.actions, R)
  <2>1. ASSUME NEW i \in DOMAIN d.actions PROVE ActionOk(d.actions[i], R)
    <3>1. d.actions[i] \in Elements(d.actions)
      BY DEF Elements
    <3>2. d.actions[i].dest.root \in RootRefs(d)
      BY <3>1 DEF RootRefs
    <3>3. IF HasSource(d.actions[i]) THEN EntryOk(d.actions[i].source, R)
          ELSE d.actions[i].source = NoValue
      <4>1. HasSource(d.actions[i]) => d.actions[i].source \in Referenced(d)
        BY <3>1 DEF Referenced, ActionEntries
      <4>2. HasSource(d.actions[i]) <=> d.actions[i].source # NoValue
        BY <3>1 DEF IsDraft, IsPlan
      <4> QED
        BY <1>3, <4>1, <4>2
    <3>4. DestOk(d.actions[i].dest, R)
      BY <3>1, <3>2 DEF IsDraft, DestOk, In, Scope
    <3> QED
      BY <3>1, <3>3, <3>4 DEF IsDraft, IsPlan, ActionOk, IsStruct, Has
  <2>2. OneKind(d.actions)
    <3>1. SUFFICES ASSUME NEW i \in DOMAIN d.actions, NEW j \in DOMAIN d.actions,
                          d.actions[i].op = "move", d.actions[j].op = "extract"
                   PROVE  FALSE
      BY DEF OneKind
    <3>2. {"move", "extract"} \subseteq Ops(d)
      BY <3>1 DEF Ops, Elements
    <3> QED
      BY <3>2 DEF IsDraft
  <2> QED
    BY <2>1, <2>2 DEF ActionsOk, IsDraft, IsPlan
<1>5. GroupsOk(d.groups, R)
  <2>1. ASSUME NEW n \in DOMAIN d.groups PROVE GroupOk(d.groups[n], R)
    <3> DEFINE g == d.groups[n]
    <3>1. g \in Elements(d.groups)
      BY DEF Elements
    <3>2. EntryOk(g.keeper, R)
      <4>1. g.keeper \in Referenced(d)
        BY <3>1 DEF Referenced, GroupEntries
      <4> QED
        BY <1>3, <4>1
    <3>3. ASSUME NEW j \in DOMAIN g.members PROVE MemberOk(g.members[j], R)
      <4>1. g.members[j] \in Elements(g.members)
        BY DEF Elements
      <4>2. g.members[j].entry \in Referenced(d)
        BY <3>1, <4>1 DEF Referenced, GroupEntries
      <4>3. EntryOk(g.members[j].entry, R)
        BY <1>3, <4>2
      <4>4. IsStruct(g.members[j], {"entry"})
        BY <3>1, <4>1 DEF IsDraft, IsPlan, IsStruct, Has
      <4> QED
        BY <4>3, <4>4 DEF MemberOk
    <3>4. IsStruct(g, {"id", "kind", "keeper", "members", "remaining"}) /\ IsVec(g.members)
      BY <3>1 DEF IsDraft, IsPlan, IsStruct, Has
    <3> QED
      BY <3>2, <3>3, <3>4 DEF GroupOk, MembersOk
  <2> QED
    BY <2>1 DEF GroupsOk, IsDraft, IsPlan
<1>6. ExcludedOk(d.excluded, R)
  BY DEF ExcludedOk, IsDraft, IsPlan, EntryOk, RootRefs, Elements, In, Scope
<1>7. \A i \in DOMAIN d.actions : d.actions[i].conflict = NoValue
  BY DEF IsDraft, Elements
<1> QED
  BY <1>1, <1>2, <1>4, <1>5, <1>6, <1>7

-----------------------------------------------------------------------------
(***************************************************************************)
(* Sorting lists by keys.                                                  *)
(***************************************************************************)
\* t is s in an order of its places.
Permutes(order, s, t) ==
  /\ Len(s) \in Nat /\ DOMAIN s = 1 .. Len(s)
  /\ IsVec(t) /\ Len(t) = Len(s) /\ DOMAIN t = 1 .. Len(s)
  /\ order \in [1 .. Len(s) -> 1 .. Len(s)]
  /\ \A n \in 1 .. Len(s) : t[n] = s[order[n]]
  /\ \A i \in 1 .. Len(s) : \E n \in 1 .. Len(s) : order[n] = i
  /\ \A n, m \in 1 .. Len(s) : order[n] = order[m] => n = m
\* t is s sorted by its keys, those that are equal in the order they were.
Sorts(order, s, t, keys) ==
  /\ Permutes(order, s, t) /\ Ordered([n \in 1 .. Len(s) |-> keys[order[n]]])
  /\ \A n, m \in 1 .. Len(s) : keys[order[n]] = keys[order[m]] /\ n < m => order[n] < order[m]

LEMMA SortOf ==
  ASSUME NEW s, IsVec(s), NEW keys \in [1 .. Len(s) -> Seq(Int)],
         NEW t, t = [n \in DOMAIN s |-> s[InOrder(keys)[n]]]
  PROVE  \E order : Sorts(order, s, t, keys)
<1> DEFINE N == Len(s)
           order == InOrder(keys)
<1>1. N \in Nat /\ DOMAIN s = 1 .. N
  BY VecIs
<1>2. keys \in [1 .. N -> Seq(Int)]
  OBVIOUS
<1> HIDE DEF N
<1>3. /\ order \in [1 .. N -> 1 .. N]
      /\ \A i \in 1 .. N : \E n \in 1 .. N : order[n] = i
      /\ \A n, m \in 1 .. N : order[n] = order[m] => n = m
      /\ \A n, m \in 1 .. N : n < m => Before(keys, order[n], order[m])
  BY <1>1, <1>2, Sorted
<1>4. t = [n \in 1 .. N |-> t[n]] /\ \A n \in 1 .. N : t[n] = s[order[n]]
  BY <1>1
<1>5. IsVec(t) /\ Len(t) = N /\ DOMAIN t = 1 .. N
  BY <1>1, <1>4, VecOf
<1>6. Ordered([n \in 1 .. N |-> keys[order[n]]])
  BY <1>1, <1>2, SortedIsOrdered
<1> HIDE DEF order
<1>7. ASSUME NEW n \in 1 .. N, NEW m \in 1 .. N, keys[order[n]] = keys[order[m]], n < m
      PROVE  order[n] < order[m]
  <2>1. Before(keys, order[n], order[m]) /\ keys[order[m]] \in Seq(Int)
    BY <1>2, <1>3, <1>7
  <2>2. ~Less(keys[order[n]], keys[order[m]])
    BY <1>7, <2>1, LessIrreflexive
  <2> QED
    BY <2>1, <2>2 DEF Before
<1>8. Permutes(order, s, t)
  BY <1>1, <1>3, <1>4, <1>5 DEF Permutes, N
<1>9. Sorts(order, s, t, keys)
  BY <1>6, <1>7, <1>8 DEF Sorts, N
<1> QED
  BY <1>9

LEMMA SortOfOrdered ==
  ASSUME NEW s, IsVec(s), NEW keys \in [1 .. Len(s) -> Seq(Int)], Ordered(keys)
  PROVE  [n \in DOMAIN s |-> s[InOrder(keys)[n]]] = s
<1> DEFINE N == Len(s)
<1>1. N \in Nat /\ DOMAIN s = 1 .. N /\ s = [n \in 1 .. N |-> s[n]]
  BY VecIs
<1>2. InOrder(keys) = [n \in 1 .. N |-> n]
  BY <1>1, OrderedAlready
<1> QED
  BY <1>1, <1>2

-----------------------------------------------------------------------------
(***************************************************************************)
(* Roots.                                                                  *)
(***************************************************************************)
RootsDone(s) ==
  /\ RootsOk(s) /\ \A n \in DOMAIN s : s[n].id = n - 1
  /\ Ordered([n \in DOMAIN s |-> RootKey(s[n])])

LEMMA RootKeyIsKey ==
  ASSUME NEW r, RootOk(r)
  PROVE  RootKey(r) \in Seq(Int)
<1>1. RoleRank[r.role] \in Int
  BY DEF RootOk, RoleRank
<1>2. <<RoleRank[r.role]>> \in Seq(Int) /\ r.path \in Seq(Int)
  BY <1>1 DEF RootOk
<1> QED
  BY <1>2, ConcatProperties DEF RootKey

LEMMA RootsSorted ==
  ASSUME NEW s, RootsOk(s), NEW t, t = StableSort(s, RootKey), NEW u,
         u = [n \in DOMAIN t |-> Numbered(t[n], n)]
  PROVE  /\ IsVec(t) /\ Len(t) = Len(s) /\ RootsDone(u) /\ Len(u) = Len(s)
         /\ \A i \in DOMAIN s : \E n \in DOMAIN t : t[n] = s[i]
<1> DEFINE N == Len(s)
           keys == [i \in DOMAIN s |-> RootKey(s[i])]
<1>1. N \in Nat /\ DOMAIN s = 1 .. N
  BY VecIs DEF RootsOk
<1>2. keys \in [1 .. N -> Seq(Int)]
  BY <1>1, RootKeyIsKey DEF RootsOk
<1>3. t = [n \in DOMAIN s |-> s[InOrder(keys)[n]]]
  BY DEF StableSort
<1>4. \A i \in 1 .. N : keys[i] = RootKey(s[i])
  BY <1>1
<1> HIDE DEF keys
<1>5. IsVec(s)
  BY DEF RootsOk
<1>6. PICK order : Sorts(order, s, t, keys)
  BY <1>2, <1>3, <1>5, SortOf
<1>14. Permutes(order, s, t) /\ Ordered([n \in 1 .. N |-> keys[order[n]]])
  BY <1>6 DEF Sorts
<1>7. ASSUME NEW n \in 1 .. N
      PROVE  RootOk(u[n]) /\ u[n].id = n - 1 /\ RootKey(u[n]) = keys[order[n]]
  <2>1. RootOk(t[n]) /\ keys[order[n]] = RootKey(t[n])
    <3>1. PICK i \in 1 .. N : order[n] = i
      BY <1>14 DEF Permutes
    <3>2. t[n] = s[i] /\ keys[i] = RootKey(s[i]) /\ RootOk(s[i])
      BY <1>1, <1>4, <1>14, <3>1 DEF RootsOk, Permutes
    <3> QED
      BY <3>1, <3>2
  <2>2. u[n] = Numbered(t[n], n)
    BY <1>14 DEF Permutes
  <2>3. RootOk(u[n]) /\ u[n].id = n - 1 /\ u[n].role = t[n].role /\ u[n].path = t[n].path
    BY <2>1, <2>2, NumberedOk
  <2> QED
    BY <2>1, <2>3 DEF RootKey
<1>8. u = [n \in 1 .. N |-> u[n]]
  BY <1>14 DEF Permutes
<1>9. IsVec(u) /\ Len(u) = N /\ DOMAIN u = 1 .. N
  BY <1>1, <1>8, VecOf
<1>10. [n \in DOMAIN u |-> RootKey(u[n])] = [n \in 1 .. N |-> keys[order[n]]]
  BY <1>7, <1>9
<1>11. RootsDone(u)
  BY <1>7, <1>9, <1>10, <1>14 DEF RootsDone, RootsOk
<1>12. \A i \in DOMAIN s : \E n \in DOMAIN t : t[n] = s[i]
  BY <1>14 DEF Permutes
<1>13. IsVec(t) /\ Len(t) = Len(s)
  BY <1>14 DEF Permutes
<1> QED
  BY <1>9, <1>11, <1>12, <1>13

-----------------------------------------------------------------------------
(***************************************************************************)
(* Every entry of a document replaced by another.                          *)
(***************************************************************************)
LEMMA MembersMapped ==
  ASSUME NEW S, NEW s, IsVec(s), NEW t, t = [j \in DOMAIN s |-> t[j]],
         \A j \in DOMAIN s : MemberOk(t[j], S)
  PROVE  MembersOk(t, S)
<1>1. Len(s) \in Nat /\ DOMAIN s = 1 .. Len(s)
  BY VecIs
<1>2. t = [j \in 1 .. Len(s) |-> t[j]]
  BY <1>1
<1>3. IsVec(t) /\ DOMAIN t = DOMAIN s
  BY <1>1, <1>2, VecOf
<1> QED
  BY <1>3 DEF MembersOk

-----------------------------------------------------------------------------
(***************************************************************************)
(* What the steps of canonicalize make of a draft.                         *)
(***************************************************************************)
Staged(p, shown) ==
  LET R == Scope(Ids(p.roots), shown) IN
  /\ DocOk(p) /\ RootsDone(p.roots) /\ ActionsOk(p.actions, R)
  /\ GroupsOk(p.groups, R) /\ ExcludedOk(p.excluded, R)

LEMMA FollowingOk ==
  ASSUME NEW t, IsVec(t), NEW e, \E n \in DOMAIN t : t[n].id = e.root
  PROVE  LET q == Following(e, t)
             S == Scope(Ids(t), FALSE) IN
         /\ IsEntry(e) => EntryOk(q, S)
         /\ \A R : DestOk(e, R) => DestOk(q, S)
<1>1. Len(t) \in Nat /\ DOMAIN t = 1 .. Len(t)
  BY VecIs
<1>2. PICK v : v = (CHOOSE n \in DOMAIN t : t[n].id = e.root) - 1
  OBVIOUS
<1>3. v \in Ids(t)
  BY <1>1, <1>2 DEF Ids
<1>4. PICK q : q = [e EXCEPT !.root = v]
  OBVIOUS
<1>5. Following(e, t) = q
  BY <1>2, <1>4 DEF Following
<1>6. IsEntry(e) => EntryOk(q, Scope(Ids(t), FALSE))
  BY <1>3, <1>4 DEF EntryOk, IsEntry, IsStruct, Has, In, Scope
<1>7. \A R : DestOk(e, R) => DestOk(q, Scope(Ids(t), FALSE))
  BY <1>3, <1>4 DEF DestOk, IsStruct, Has, In, Scope
<1> QED
  BY <1>5, <1>6, <1>7

LEMMA RootsStage ==
  ASSUME NEW d, IsDraft(d), RootsClosed(d)
  PROVE  LET p == CanonicalRoots(d) IN
         Staged(p, FALSE) /\ \A i \in DOMAIN p.actions : p.actions[i].conflict = NoValue
<1> DEFINE R == Scope(RootRefs(d), FALSE)
<1>1. PICK t : t = StableSort(d.roots, RootKey)
  OBVIOUS
<1>2. PICK u : u = [n \in DOMAIN t |-> Numbered(t[n], n)]
  OBVIOUS
<1>3. /\ DocOk(d) /\ RootsOk(d.roots) /\ ActionsOk(d.actions, R)
      /\ GroupsOk(d.groups, R) /\ ExcludedOk(d.excluded, R)
      /\ \A i \in DOMAIN d.actions : d.actions[i].conflict = NoValue
  BY DraftOk
<1>4. /\ IsVec(t) /\ Len(t) = Len(d.roots) /\ RootsDone(u) /\ Len(u) = Len(d.roots)
      /\ \A i \in DOMAIN d.roots : \E n \in DOMAIN t : t[n] = d.roots[i]
  BY <1>1, <1>2, <1>3, RootsSorted
<1> DEFINE S == Scope(Ids(u), FALSE)
<1>5. Scope(Ids(t), FALSE) = S
  BY <1>4 DEF Ids
<1>6. \A id \in R.ids : \E n \in DOMAIN t : t[n].id = id
  BY <1>4 DEF RootsClosed, RootIds, Elements, Scope
<1>7. \A e : /\ EntryOk(e, R) => EntryOk(Following(e, t), S)
             /\ DestOk(e, R) => DestOk(Following(e, t), S)
  BY <1>4, <1>5, <1>6, FollowingOk DEF EntryOk, DestOk, In
<1> DEFINE A == [i \in DOMAIN d.actions |->
                   ActionTo(d.actions[i], Following(d.actions[i].dest, t),
                     IF HasSource(d.actions[i]) THEN Following(d.actions[i].source, t) ELSE NoValue)]
           members == [n \in DOMAIN d.groups |->
                         [j \in DOMAIN d.groups[n].members |->
                            MemberTo(d.groups[n].members[j], Following(d.groups[n].members[j].entry, t))]]
           G == [n \in DOMAIN d.groups |->
                   GroupTo(d.groups[n], Following(d.groups[n].keeper, t), members[n])]
           E == [i \in DOMAIN d.excluded |-> Following(d.excluded[i], t)]
<1>8. CanonicalRoots(d) = [[d EXCEPT !.actions = A, !.groups = G, !.excluded = E] EXCEPT !.roots = u]
  BY <1>1, <1>2 DEF CanonicalRoots, EachEntry
<1> HIDE DEF S
<1>9. /\ IsVec(A) /\ IsVec(G) /\ IsVec(E)
      /\ DOMAIN A = DOMAIN d.actions /\ DOMAIN G = DOMAIN d.groups /\ DOMAIN E = DOMAIN d.excluded
  <2>1. /\ Len(d.actions) \in Nat /\ DOMAIN d.actions = 1 .. Len(d.actions)
        /\ Len(d.groups) \in Nat /\ DOMAIN d.groups = 1 .. Len(d.groups)
        /\ Len(d.excluded) \in Nat /\ DOMAIN d.excluded = 1 .. Len(d.excluded)
    BY <1>3, VecIs DEF ActionsOk, GroupsOk, ExcludedOk
  <2>2. /\ A = [i \in 1 .. Len(d.actions) |-> A[i]]
        /\ G = [i \in 1 .. Len(d.groups) |-> G[i]]
        /\ E = [i \in 1 .. Len(d.excluded) |-> E[i]]
    BY <2>1
  <2> HIDE DEF A, G, E
  <2> QED
    BY <2>1, <2>2, VecOf
<1>10. ASSUME NEW n \in DOMAIN d.groups
       PROVE  MembersOk(members[n], S)
  <2>1. MembersOk(d.groups[n].members, R)
    BY <1>3 DEF GroupsOk, GroupOk
  <2>2. \A j \in DOMAIN d.groups[n].members : EntryOk(Following(d.groups[n].members[j].entry, t), S)
    BY <1>7, <2>1 DEF MembersOk, MemberOk
  <2>3. ASSUME NEW j \in DOMAIN d.groups[n].members
        PROVE  MemberOk(members[n][j], S)
    <3>1. members[n][j] = MemberTo(d.groups[n].members[j], Following(d.groups[n].members[j].entry, t))
      OBVIOUS
    <3> HIDE DEF members, R
    <3>2. MemberOk(d.groups[n].members[j], R)
      BY <2>1 DEF MembersOk
    <3> QED
      BY <2>2, <3>1, <3>2, MemberToOk
  <2>4. PICK ms : ms = members[n]
    OBVIOUS
  <2>5. ms = [j \in DOMAIN d.groups[n].members |-> ms[j]]
    BY <2>4
  <2>6. PICK os : os = d.groups[n].members
    OBVIOUS
  <2> HIDE DEF members, R
  <2>7. IsVec(os) /\ ms = [j \in DOMAIN os |-> ms[j]] /\ \A j \in DOMAIN os : MemberOk(ms[j], S)
    BY <2>1, <2>3, <2>4, <2>5, <2>6 DEF MembersOk
  <2>8. MembersOk(ms, S)
    BY <2>7, MembersMapped
  <2> QED
    BY <2>4, <2>8
<1>11. ASSUME NEW i \in DOMAIN d.actions
       PROVE  ActionOk(A[i], S) /\ A[i].op = d.actions[i].op /\ A[i].conflict = d.actions[i].conflict
  <2>1. ActionOk(d.actions[i], R)
    BY <1>3 DEF ActionsOk
  <2>2. /\ DestOk(Following(d.actions[i].dest, t), S)
        /\ HasSource(d.actions[i]) => EntryOk(Following(d.actions[i].source, t), S)
    BY <1>7, <2>1 DEF ActionOk
  <2>3. A[i] = ActionTo(d.actions[i], Following(d.actions[i].dest, t),
                        IF HasSource(d.actions[i]) THEN Following(d.actions[i].source, t) ELSE NoValue)
    OBVIOUS
  <2> HIDE DEF A, R
  <2> QED
    BY <2>1, <2>2, <2>3, ActionToOk
<1>12. ASSUME NEW n \in DOMAIN d.groups
       PROVE  GroupOk(G[n], S)
  <2>1. GroupOk(d.groups[n], R)
    BY <1>3 DEF GroupsOk
  <2>2. EntryOk(Following(d.groups[n].keeper, t), S)
    BY <1>7, <2>1 DEF GroupOk
  <2>3. G[n] = GroupTo(d.groups[n], Following(d.groups[n].keeper, t), members[n])
    OBVIOUS
  <2> HIDE DEF G, R, members
  <2> QED
    BY <1>10, <2>1, <2>2, <2>3, GroupToOk
<1>13. ExcludedOk(E, S)
  BY <1>3, <1>7, <1>9 DEF ExcludedOk
<1> HIDE DEF R, A, G, E
<1>14. OneKind(A) /\ \A i \in DOMAIN A : A[i].conflict = NoValue
  BY <1>3, <1>9, <1>11 DEF OneKind, ActionsOk
<1>15. ActionsOk(A, S) /\ GroupsOk(G, S)
  BY <1>9, <1>11, <1>12, <1>14 DEF ActionsOk, GroupsOk
<1>17. PICK p : p = [[d EXCEPT !.actions = A, !.groups = G, !.excluded = E] EXCEPT !.roots = u]
  OBVIOUS
<1>18. DocOk(p) /\ p.actions = A /\ p.groups = G /\ p.excluded = E /\ p.roots = u
  BY <1>3, <1>17 DEF DocOk, IsStruct, Has
<1>19. Staged(p, FALSE)
  BY <1>4, <1>13, <1>15, <1>18 DEF Staged, S
<1> QED
  BY <1>8, <1>14, <1>17, <1>18, <1>19

-----------------------------------------------------------------------------
(***************************************************************************)
(* Conflicts.                                                              *)
(***************************************************************************)
LEMMA SubSeqOfAppend ==
  ASSUME NEW p \in Seq(Int), NEW n \in Int
  PROVE  SubSeq(Append(p, n), 1, Len(p)) = p
<1> DEFINE q == Append(p, n)
           r == SubSeq(q, 1, Len(p))
<1>1. q \in Seq(Int) /\ Len(q) = Len(p) + 1 /\ \A i \in 1 .. Len(p) : q[i] = p[i]
  BY AppendProperties
<1>2. Len(p) \in Nat
  OBVIOUS
<1> HIDE DEF q
<1>3. r \in Seq(Int) /\ Len(r) = Len(p) /\ \A i \in 1 .. Len(p) : r[i] = q[i]
  BY <1>1, <1>2, SubSeqProperties
<1> QED
  BY <1>1, <1>3, SeqEqual

LEMMA SameSize ==
  ASSUME NEW S, IsFiniteSet(S), NEW T, NEW f \in [S -> T],
         \A y \in T : \E x \in S : f[x] = y, \A x, y \in S : f[x] = f[y] => x = y
  PROVE  Cardinality(T) = Cardinality(S)
<1>1. f \in Bijection(S, T)
  BY DEF Bijection, Injection, Surjection, IsInjective
<1>2. ExistsBijection(S, T)
  BY <1>1 DEF ExistsBijection
<1> QED
  BY <1>2, FS_Bijection

\* What the conflicts of an action depend on.
Alike(a, b) ==
  /\ a.op = b.op /\ a.dest.root = b.dest.root /\ Base(a) = Base(b)
  /\ HasSource(a) => /\ a.source.root = b.source.root /\ a.source.file = b.source.file
                     /\ a.source.path = b.source.path

LEMMA AlikeSame ==
  ASSUME NEW a, NEW b, Alike(a, b)
  PROVE  /\ Placed(a) <=> Placed(b)
         /\ Wanted(a) = Wanted(b)
         /\ Placed(a) => /\ SourceRank(a.source) = SourceRank(b.source)
                         /\ EntryKey(a.source) = EntryKey(b.source)
BY DEF Alike, Placed, Wanted, SourceRank, EntryKey, HasSource

\* t has actions like those of s, at places that keep the order of equal ranks.
Follows(order, s, t, N) ==
  /\ DOMAIN s = 1 .. N /\ DOMAIN t = 1 .. N /\ order \in [1 .. N -> 1 .. N]
  /\ \A i \in 1 .. N : \E n \in 1 .. N : order[n] = i
  /\ \A n, m \in 1 .. N : order[n] = order[m] => n = m
  /\ \A n \in 1 .. N : Alike(t[n], s[order[n]])
  /\ \A n, m \in 1 .. N :
       Placed(t[n]) /\ Placed(t[m]) /\ SourceRank(t[n].source) = SourceRank(t[m].source) =>
         (n < m <=> order[n] < order[m])

RivalKeys(s, i) == {EntryKey(s[j].source) : j \in Rivals(s, i)}
Before1(s, i) == {j \in Rivals(s, i) : RankedBefore(s, j, i)}

LEMMA SameConflict ==
  ASSUME NEW N \in Nat, NEW s, NEW t, NEW order, Follows(order, s, t, N), NEW n \in 1 .. N,
         Placed(t[n])
  PROVE  /\ Cardinality(Rivals(t, n)) = Cardinality(Rivals(s, order[n]))
         /\ ConflictRank(t, n) = ConflictRank(s, order[n])
         /\ RivalKeys(t, n) = RivalKeys(s, order[n])
<1>1. /\ DOMAIN s = 1 .. N /\ DOMAIN t = 1 .. N
      /\ \A m \in 1 .. N : order[m] \in 1 .. N
      /\ \A i \in 1 .. N : \E m \in 1 .. N : order[m] = i
      /\ \A m, k \in 1 .. N : order[m] = order[k] => m = k
  BY DEF Follows
<1>2. \A m \in 1 .. N :
        /\ Placed(t[m]) <=> Placed(s[order[m]])
        /\ Wanted(t[m]) = Wanted(s[order[m]])
        /\ Placed(t[m]) => /\ SourceRank(t[m].source) = SourceRank(s[order[m]].source)
                           /\ EntryKey(t[m].source) = EntryKey(s[order[m]].source)
  BY AlikeSame DEF Follows
<1>3. \A m \in 1 .. N : m \in Rivals(t, n) <=> order[m] \in Rivals(s, order[n])
  BY <1>1, <1>2 DEF Rivals
<1>4. Rivals(t, n) \subseteq 1 .. N /\ Rivals(s, order[n]) \subseteq 1 .. N
  BY <1>1 DEF Rivals
<1>5. \A m \in Rivals(t, n) : Placed(t[m])
  BY DEF Rivals
<1>6. ASSUME NEW m \in Rivals(t, n)
      PROVE  RankedBefore(t, m, n) <=> RankedBefore(s, order[m], order[n])
  <2>1. m \in 1 .. N /\ Placed(t[m])
    BY <1>4, <1>5
  <2>2. /\ SourceRank(t[m].source) = SourceRank(s[order[m]].source)
        /\ SourceRank(t[n].source) = SourceRank(s[order[n]].source)
    BY <1>2, <2>1
  <2>3. SourceRank(t[m].source) = SourceRank(t[n].source) => (m < n <=> order[m] < order[n])
    BY <2>1 DEF Follows
  <2> QED
    BY <2>2, <2>3 DEF RankedBefore
<1>7. IsFiniteSet(Rivals(t, n)) /\ IsFiniteSet(Before1(t, n))
  <2>1. IsFiniteSet(1 .. N)
    BY FS_Interval
  <2>2. Before1(t, n) \subseteq 1 .. N
    BY <1>4 DEF Before1
  <2> QED
    BY <1>4, <2>1, <2>2, FS_Subset
<1>8. Cardinality(Rivals(t, n)) = Cardinality(Rivals(s, order[n]))
  <2>1. PICK f : f = [m \in Rivals(t, n) |-> order[m]]
    OBVIOUS
  <2>2. f \in [Rivals(t, n) -> Rivals(s, order[n])]
    BY <1>3, <1>4, <2>1
  <2>3. \A y \in Rivals(s, order[n]) : \E x \in Rivals(t, n) : f[x] = y
    BY <1>1, <1>3, <1>4, <2>1
  <2>4. \A x, y \in Rivals(t, n) : f[x] = f[y] => x = y
    BY <1>1, <1>4, <2>1
  <2> QED
    BY <1>7, <2>2, <2>3, <2>4, SameSize
<1>9. Cardinality(Before1(t, n)) = Cardinality(Before1(s, order[n]))
  <2>1. PICK f : f = [m \in Before1(t, n) |-> order[m]]
    OBVIOUS
  <2>2. \A m \in 1 .. N : m \in Before1(t, n) <=> order[m] \in Before1(s, order[n])
    BY <1>3, <1>6 DEF Before1
  <2>3. Before1(t, n) \subseteq 1 .. N /\ Before1(s, order[n]) \subseteq 1 .. N
    BY <1>4 DEF Before1
  <2>4. f \in [Before1(t, n) -> Before1(s, order[n])]
    BY <2>1, <2>2, <2>3
  <2>5. \A y \in Before1(s, order[n]) : \E x \in Before1(t, n) : f[x] = y
    BY <1>1, <2>1, <2>2, <2>3
  <2>6. \A x, y \in Before1(t, n) : f[x] = f[y] => x = y
    BY <1>1, <2>1, <2>3
  <2> QED
    BY <1>7, <2>4, <2>5, <2>6, SameSize
<1>10. RivalKeys(t, n) = RivalKeys(s, order[n])
  <2>1. \A m \in Rivals(t, n) : /\ order[m] \in Rivals(s, order[n])
                               /\ EntryKey(t[m].source) = EntryKey(s[order[m]].source)
    BY <1>2, <1>3, <1>4, <1>5
  <2>2. \A j \in Rivals(s, order[n]) : \E m \in Rivals(t, n) : order[m] = j
    BY <1>1, <1>3, <1>4
  <2> QED
    BY <2>1, <2>2 DEF RivalKeys
<1> QED
  BY <1>8, <1>9, <1>10 DEF ConflictRank, Before1

SettledAt(s, i) ==
  LET a == s[i]
      rank == ConflictRank(s, i) IN
  /\ Strippable(a)
  /\ Placed(a) =>
       IF Cardinality(Rivals(s, i)) = 1 THEN a.conflict = NoValue
       ELSE /\ a.dest.path = IF rank = 0 THEN Base(a) ELSE Append(Base(a), rank)
            /\ a.conflict = [ordinal |-> rank, with |-> RivalKeys(s, i)]
SettledOk(s) == \A i \in DOMAIN s : SettledAt(s, i)

\* Settled actions stay settled when they are put in another order.
LEMMA SettledMoved ==
  ASSUME NEW N \in Nat, NEW s, NEW t, NEW order, Follows(order, s, t, N), SettledOk(s),
         \A n \in 1 .. N : /\ t[n].conflict = s[order[n]].conflict
                           /\ t[n].dest.path = s[order[n]].dest.path
  PROVE  SettledOk(t)
<1>1. SUFFICES ASSUME NEW n \in 1 .. N PROVE SettledAt(t, n)
  BY DEF SettledOk, Follows
<1>2. order[n] \in DOMAIN s /\ Alike(t[n], s[order[n]])
  BY DEF Follows
<1>3. SettledAt(s, order[n])
  BY <1>2 DEF SettledOk
<1>4. t[n].conflict = s[order[n]].conflict /\ t[n].dest.path = s[order[n]].dest.path
  OBVIOUS
<1>5. Strippable(t[n]) /\ Base(t[n]) = Base(s[order[n]])
  BY <1>3, <1>4 DEF SettledAt, Strippable, Suffixed, Base
<1>6. CASE ~Placed(t[n])
  BY <1>5, <1>6 DEF SettledAt
<1>7. CASE Placed(t[n])
  <2>1. /\ Cardinality(Rivals(t, n)) = Cardinality(Rivals(s, order[n]))
        /\ ConflictRank(t, n) = ConflictRank(s, order[n])
        /\ RivalKeys(t, n) = RivalKeys(s, order[n])
    BY <1>7, SameConflict
  <2>2. Placed(s[order[n]])
    BY <1>2, <1>7, AlikeSame
  <2> QED
    BY <1>3, <1>4, <1>5, <2>1, <2>2 DEF SettledAt
<1> QED
  BY <1>6, <1>7

Suffix(path, rank) == IF rank = 0 THEN path ELSE Append(path, rank)
Conflict(rank, keys) == [ordinal |-> rank, with |-> keys]
Recorded(a, path, c) == [a EXCEPT !.dest.path = path, !.conflict = c]

\* The suffix that is recorded is the one that is there.
LEMMA SettleOne ==
  ASSUME NEW R, R.shown = FALSE, NEW a, ActionOk(a, R), a.conflict = NoValue,
         NEW rank \in Nat, NEW keys \in SUBSET Seq(Int)
  PROVE  LET b == Recorded(a, Suffix(a.dest.path, rank), Conflict(rank, keys)) IN
         /\ ActionOk(b, R) /\ Alike(b, a) /\ Strippable(b)
         /\ b.dest.path = Suffix(a.dest.path, rank) /\ b.conflict = Conflict(rank, keys)
<1>0. PICK path, c, b :
        /\ path = Suffix(a.dest.path, rank) /\ c = Conflict(rank, keys)
        /\ b = Recorded(a, path, c)
  OBVIOUS
<1>1. c # NoValue /\ c.ordinal = rank
  BY <1>0, PlanAssumption DEF PlanAssumption, Conflict
<1>2. PICK e : e = [a.dest EXCEPT !.path = path]
  OBVIOUS
<1>3. b = [a EXCEPT !.dest = e, !.conflict = c]
  BY <1>0, <1>2 DEF Recorded
<1>4. a.dest.path \in Seq(Int) /\ a.dest.path # <<>> /\ Base(a) = a.dest.path
  BY DEF ActionOk, DestOk, Base, Suffixed
<1>5. path \in Seq(Int) /\ path # <<>> /\ Last(path) # Slash
  <2>1. Last(a.dest.path) # Slash
    BY DEF ActionOk, DestOk
  <2>2. CASE rank = 0
    BY <1>0, <1>4, <2>1, <2>2 DEF Suffix
  <2>3. CASE rank # 0
    <3>1. path = Append(a.dest.path, rank)
      BY <1>0, <2>3 DEF Suffix
    <3>2. path \in Seq(Int) /\ Len(path) = Len(a.dest.path) + 1 /\ path[Len(a.dest.path) + 1] = rank
      BY <1>4, <3>1, AppendProperties
    <3>3. Last(path) = rank /\ path # <<>>
      BY <1>4, <3>2 DEF Last
    <3> QED
      BY <3>2, <3>3 DEF Slash
  <2> QED
    BY <2>2, <2>3
<1>6. DestOk(e, R) /\ e.path = path /\ e.root = a.dest.root
  BY <1>2, <1>5 DEF ActionOk, DestOk, IsStruct, Has, In
<1>7. /\ b.conflict = c /\ b.dest = e /\ b.op = a.op /\ b.source = a.source
      /\ b.group = a.group /\ ActionOk(b, R)
  BY <1>3, <1>6 DEF ActionOk, IsStruct, Has, HasSource
<1>8. rank # 0 => Len(path) > 1 /\ Last(path) = rank /\ Front(path) = a.dest.path
  <2>1. SUFFICES ASSUME rank # 0 PROVE Len(path) > 1 /\ Last(path) = rank /\ Front(path) = a.dest.path
    OBVIOUS
  <2>2. PICK p : p = a.dest.path
    OBVIOUS
  <2>3. path = Append(p, rank) /\ p \in Seq(Int) /\ p # <<>>
    BY <1>0, <1>4, <2>1, <2>2 DEF Suffix
  <2>4. Len(path) = Len(p) + 1 /\ path[Len(p) + 1] = rank /\ Len(p) > 0 /\ Len(p) \in Nat
    BY <2>3, AppendProperties
  <2>5. SubSeq(path, 1, Len(p)) = p
    <3>1. SubSeq(Append(p, rank), 1, Len(p)) = p
      BY <2>3, SubSeqOfAppend
    <3> QED
      BY <2>3, <3>1
  <2>6. Len(path) - 1 = Len(p)
    BY <2>4
  <2> QED
    BY <2>2, <2>4, <2>5, <2>6 DEF Last, Front
<1>9. Base(b) = a.dest.path /\ Strippable(b)
  <2>0. Last(a.dest.path) # Slash
    BY DEF ActionOk, DestOk
  <2>1. Suffixed(b) <=> rank # 0
    BY <1>1, <1>7 DEF Suffixed
  <2>2. b.conflict.ordinal = rank
    BY <1>1, <1>7
  <2>3. rank = 0 => path = a.dest.path
    BY <1>0 DEF Suffix
  <2> QED
    BY <1>6, <1>7, <1>8, <2>0, <2>1, <2>2, <2>3 DEF Base, Strippable
<1>10. /\ ActionOk(b, R) /\ Alike(b, a) /\ Strippable(b) /\ b.dest.path = path /\ b.conflict = c
  BY <1>4, <1>6, <1>7, <1>9 DEF Alike
<1> QED
  BY <1>0, <1>10

LEMMA SettleStage ==
  ASSUME NEW R, R.shown = FALSE, R.ids \subseteq Int, NEW s, ActionsOk(s, R),
         \A i \in DOMAIN s : s[i].conflict = NoValue,
         NEW t, t = [i \in DOMAIN s |-> Settled(s, i)]
  PROVE  ActionsOk(t, R) /\ SettledOk(t)
<1> DEFINE N == Len(s)
<1>1. N \in Nat /\ DOMAIN s = 1 .. N
  BY VecIs DEF ActionsOk
<1> HIDE DEF N
<1>2. ASSUME NEW i \in 1 .. N
      PROVE  /\ Cardinality(Rivals(s, i)) \in Nat /\ ConflictRank(s, i) \in Nat
             /\ RivalKeys(s, i) \subseteq Seq(Int)
  <2>1. IsFiniteSet(1 .. N)
    BY <1>1, FS_Interval
  <2>2. Rivals(s, i) \subseteq 1 .. N /\ Before1(s, i) \subseteq 1 .. N
    BY <1>1 DEF Rivals, Before1
  <2>3. Cardinality(Rivals(s, i)) \in Nat /\ Cardinality(Before1(s, i)) \in Nat
    BY <2>1, <2>2, FS_Subset, FS_CardinalityType
  <2>4. ASSUME NEW j \in Rivals(s, i) PROVE EntryKey(s[j].source) \in Seq(Int)
    <3>1. Placed(s[j]) /\ j \in DOMAIN s
      BY DEF Rivals
    <3>2. HasSource(s[j]) /\ ActionOk(s[j], R)
      BY <3>1 DEF ActionsOk, Placed, HasSource
    <3>3. s[j].source.root \in Int /\ s[j].source.file \in Int
      BY <3>2 DEF ActionOk, EntryOk, In, IsEntry
    <3> QED
      BY <3>3 DEF EntryKey
  <2> QED
    BY <2>3, <2>4 DEF ConflictRank, Before1, RivalKeys
<1>3. ASSUME NEW i \in 1 .. N
      PROVE  /\ ActionOk(t[i], R) /\ Alike(t[i], s[i]) /\ Strippable(t[i])
             /\ Placed(t[i]) =>
                  IF Cardinality(Rivals(s, i)) = 1 THEN t[i].conflict = NoValue
                  ELSE /\ t[i].dest.path = IF ConflictRank(s, i) = 0 THEN Base(s[i])
                                           ELSE Append(Base(s[i]), ConflictRank(s, i))
                       /\ t[i].conflict = [ordinal |-> ConflictRank(s, i), with |-> RivalKeys(s, i)]
  <2>1. PICK a : a = s[i]
    OBVIOUS
  <2>2. ActionOk(a, R) /\ a.conflict = NoValue
    BY <1>1, <2>1 DEF ActionsOk
  <2>3. Base(a) = a.dest.path /\ Strippable(a) /\ Alike(a, a)
    BY <2>2 DEF Base, Suffixed, Strippable, Alike
  <2>4. t[i] = Settled(s, i)
    BY <1>1
  <2>5. CASE ~Placed(a)
    <3>1. t[i] = a
      BY <2>1, <2>4, <2>5 DEF Settled
    <3> QED
      BY <2>1, <2>2, <2>3, <2>5, <3>1
  <2>6. CASE Placed(a) /\ Cardinality(Rivals(s, i)) = 1
    <3>1. t[i] = [a EXCEPT !.conflict = NoValue]
      BY <2>1, <2>4, <2>6 DEF Settled
    <3>2. t[i] = a
      BY <2>2, <3>1 DEF ActionOk, IsStruct, Has
    <3> QED
      BY <2>1, <2>2, <2>3, <2>6, <3>2
  <2>7. CASE Placed(a) /\ Cardinality(Rivals(s, i)) # 1
    <3>1. PICK rank, keys : rank = ConflictRank(s, i) /\ keys = RivalKeys(s, i)
      OBVIOUS
    <3>2. rank \in Nat /\ keys \in SUBSET Seq(Int)
      BY <1>2, <3>1
    <3> DEFINE b == Recorded(a, Suffix(a.dest.path, rank), Conflict(rank, keys))
    <3>3. t[i] = b
      BY <2>1, <2>3, <2>4, <2>7, <3>1 DEF Settled, RivalKeys, Recorded, Suffix, Conflict
    <3>5. /\ ActionOk(b, R) /\ Alike(b, a) /\ Strippable(b)
          /\ b.dest.path = Suffix(a.dest.path, rank) /\ b.conflict = Conflict(rank, keys)
      BY <2>2, <3>2, SettleOne
    <3> HIDE DEF b
    <3>6. /\ ActionOk(t[i], R) /\ Alike(t[i], s[i]) /\ Strippable(t[i])
          /\ t[i].dest.path = Suffix(Base(a), rank) /\ t[i].conflict = Conflict(rank, keys)
      BY <2>1, <2>3, <3>3, <3>5
    <3> QED
      BY <2>1, <2>7, <3>1, <3>6 DEF Suffix, Conflict
  <2> QED
    BY <2>5, <2>6, <2>7
<1>4. t = [i \in 1 .. N |-> t[i]]
  BY <1>1
<1>5. IsVec(t) /\ DOMAIN t = 1 .. N
  BY <1>1, <1>4, VecOf
<1>6. PICK order : order = [n \in 1 .. N |-> n]
  OBVIOUS
<1>7. Follows(order, s, t, N)
  BY <1>1, <1>3, <1>5, <1>6 DEF Follows
<1>8. ASSUME NEW i \in 1 .. N PROVE SettledAt(t, i)
  <2>1. /\ Strippable(t[i]) /\ Base(t[i]) = Base(s[i])
    BY <1>3 DEF Alike
  <2>2. CASE ~Placed(t[i])
    BY <2>1, <2>2 DEF SettledAt
  <2>3. CASE Placed(t[i])
    <3>1. order[i] = i
      BY <1>6
    <3>2. /\ Cardinality(Rivals(t, i)) = Cardinality(Rivals(s, i))
          /\ ConflictRank(t, i) = ConflictRank(s, i) /\ RivalKeys(t, i) = RivalKeys(s, i)
      BY <1>1, <1>7, <2>3, <3>1, SameConflict
    <3> QED
      BY <1>3, <2>1, <2>3, <3>2 DEF SettledAt
  <2> QED
    BY <2>2, <2>3
<1>9. OneKind(t)
  <2>1. \A i \in 1 .. N : t[i].op = s[i].op
    BY <1>3 DEF Alike
  <2>2. OneKind(s)
    BY DEF ActionsOk
  <2> QED
    BY <1>1, <1>5, <2>1, <2>2 DEF OneKind
<1>10. \A i \in DOMAIN t : ActionOk(t[i], R) /\ SettledAt(t, i)
  BY <1>3, <1>5, <1>8
<1> QED
  BY <1>5, <1>9, <1>10 DEF ActionsOk, SettledOk

LEMMA SettledFixed ==
  ASSUME NEW R, NEW s, ActionsOk(s, R), SettledOk(s)
  PROVE  /\ [i \in DOMAIN s |-> Settled(s, i)] = s
         /\ \A i \in DOMAIN s : Strippable(s[i])
<1>1. s = [i \in DOMAIN s |-> s[i]]
  BY VecIs DEF ActionsOk
<1>2. ASSUME NEW i \in DOMAIN s PROVE Settled(s, i) = s[i] /\ Strippable(s[i])
  <2>1. PICK a : a = s[i]
    OBVIOUS
  <2>2. ActionOk(a, R) /\ SettledAt(s, i)
    BY <2>1 DEF ActionsOk, SettledOk
  <2>3. IsStruct(a, {"conflict", "dest"}) /\ IsStruct(a.dest, {"path"})
    BY <2>2 DEF ActionOk, DestOk, IsStruct, Has
  <2>4. CASE ~Placed(a)
    BY <2>1, <2>2, <2>4 DEF Settled, SettledAt
  <2>5. CASE Placed(a) /\ Cardinality(Rivals(s, i)) = 1
    <3>1. Settled(s, i) = [a EXCEPT !.conflict = NoValue]
      BY <2>1, <2>5 DEF Settled
    <3>2. a.conflict = NoValue /\ Strippable(a)
      BY <2>1, <2>2, <2>5 DEF SettledAt
    <3> QED
      BY <2>1, <2>3, <3>1, <3>2 DEF IsStruct, Has
  <2>6. CASE Placed(a) /\ Cardinality(Rivals(s, i)) # 1
    <3>1. PICK path, c :
            /\ path = IF ConflictRank(s, i) = 0 THEN Base(a) ELSE Append(Base(a), ConflictRank(s, i))
            /\ c = [ordinal |-> ConflictRank(s, i), with |-> RivalKeys(s, i)]
      OBVIOUS
    <3>2. Settled(s, i) = [a EXCEPT !.dest.path = path, !.conflict = c]
      BY <2>1, <2>6, <3>1 DEF Settled, RivalKeys
    <3>3. a.conflict = c /\ a.dest.path = path /\ Strippable(a)
      BY <2>1, <2>2, <2>6, <3>1 DEF SettledAt
    <3>4. [a EXCEPT !.dest.path = path, !.conflict = c] = a
      BY <2>3, <3>3 DEF IsStruct, Has
    <3> QED
      BY <2>1, <3>2, <3>3, <3>4
  <2> QED
    BY <2>4, <2>5, <2>6
<1> QED
  BY <1>1, <1>2

-----------------------------------------------------------------------------
(***************************************************************************)
(* What is shown.                                                          *)
(***************************************************************************)
LEMMA ShownOk ==
  ASSUME NEW ids, NEW e
  PROVE  LET q == Shown(e)
             R == Scope(ids, FALSE)
             S == Scope(ids, TRUE) IN
         /\ EntryOk(e, R) => /\ EntryOk(q, S) /\ q.root = e.root /\ q.path = e.path
                             /\ q.file = e.file
         /\ DestOk(e, R) => DestOk(q, S) /\ q.root = e.root /\ q.path = e.path
<1>1. PICK v : v = Lossy(e.path)
  OBVIOUS
<1>2. PICK q : q = [e EXCEPT !.display = v]
  OBVIOUS
<1>3. Shown(e) = q
  BY <1>1, <1>2 DEF Shown
<1>4. SUFFICES ASSUME IsStruct(e, {"root", "path", "display"})
               PROVE  /\ EntryOk(e, Scope(ids, FALSE)) =>
                           /\ EntryOk(q, Scope(ids, TRUE)) /\ q.root = e.root
                           /\ q.path = e.path /\ q.file = e.file
                      /\ DestOk(e, Scope(ids, FALSE)) =>
                           DestOk(q, Scope(ids, TRUE)) /\ q.root = e.root /\ q.path = e.path
  BY <1>3 DEF EntryOk, DestOk, IsEntry, IsStruct, Has
<1>5. q.path = e.path /\ q.display = v /\ q.root = e.root /\ IsStruct(q, {"root", "path", "display"})
  BY <1>2, <1>4 DEF IsStruct, Has
<1>6. Shown(q) = q
  <2>1. Shown(q) = [q EXCEPT !.display = v]
    BY <1>1, <1>5 DEF Shown
  <2> QED
    BY <1>5, <2>1 DEF IsStruct, Has
<1>7. IsEntry(e) => IsEntry(q) /\ q.file = e.file
  BY <1>2 DEF IsEntry, IsStruct, Has
<1>8. e.root \in ids => In(q, Scope(ids, TRUE))
  BY <1>5, <1>6 DEF In, Scope
<1> QED
  BY <1>5, <1>7, <1>8 DEF EntryOk, DestOk, In, Scope

LEMMA ShownStage ==
  ASSUME NEW d, Staged(d, FALSE), SettledOk(d.actions)
  PROVE  LET p == Displayed(d) IN Staged(p, TRUE) /\ SettledOk(p.actions)
<1> DEFINE R == Scope(Ids(d.roots), FALSE)
           S == Scope(Ids(d.roots), TRUE)
<1>3. /\ DocOk(d) /\ RootsDone(d.roots) /\ ActionsOk(d.actions, R)
      /\ GroupsOk(d.groups, R) /\ ExcludedOk(d.excluded, R)
  BY DEF Staged
<1>7. \A e : /\ EntryOk(e, R) => /\ EntryOk(Shown(e), S) /\ Shown(e).root = e.root
                                 /\ Shown(e).path = e.path /\ Shown(e).file = e.file
             /\ DestOk(e, R) => /\ DestOk(Shown(e), S) /\ Shown(e).root = e.root
                                /\ Shown(e).path = e.path
  BY ShownOk
<1> DEFINE A == [i \in DOMAIN d.actions |->
                   ActionTo(d.actions[i], Shown(d.actions[i].dest),
                     IF HasSource(d.actions[i]) THEN Shown(d.actions[i].source) ELSE NoValue)]
           members == [n \in DOMAIN d.groups |->
                         [j \in DOMAIN d.groups[n].members |->
                            MemberTo(d.groups[n].members[j], Shown(d.groups[n].members[j].entry))]]
           G == [n \in DOMAIN d.groups |->
                   GroupTo(d.groups[n], Shown(d.groups[n].keeper), members[n])]
           E == [i \in DOMAIN d.excluded |-> Shown(d.excluded[i])]
<1>8. Displayed(d) = [d EXCEPT !.actions = A, !.groups = G, !.excluded = E]
  BY DEF Displayed, EachEntry
<1> HIDE DEF S
<1>9. /\ IsVec(A) /\ IsVec(G) /\ IsVec(E)
      /\ DOMAIN A = DOMAIN d.actions /\ DOMAIN G = DOMAIN d.groups /\ DOMAIN E = DOMAIN d.excluded
  <2>1. /\ Len(d.actions) \in Nat /\ DOMAIN d.actions = 1 .. Len(d.actions)
        /\ Len(d.groups) \in Nat /\ DOMAIN d.groups = 1 .. Len(d.groups)
        /\ Len(d.excluded) \in Nat /\ DOMAIN d.excluded = 1 .. Len(d.excluded)
    BY <1>3, VecIs DEF ActionsOk, GroupsOk, ExcludedOk
  <2>2. /\ A = [i \in 1 .. Len(d.actions) |-> A[i]]
        /\ G = [i \in 1 .. Len(d.groups) |-> G[i]]
        /\ E = [i \in 1 .. Len(d.excluded) |-> E[i]]
    BY <2>1
  <2> HIDE DEF A, G, E
  <2> QED
    BY <2>1, <2>2, VecOf
<1>10. ASSUME NEW n \in DOMAIN d.groups
       PROVE  MembersOk(members[n], S)
  <2>1. MembersOk(d.groups[n].members, R)
    BY <1>3 DEF GroupsOk, GroupOk
  <2>2. \A j \in DOMAIN d.groups[n].members : EntryOk(Shown(d.groups[n].members[j].entry), S)
    BY <1>7, <2>1 DEF MembersOk, MemberOk
  <2>3. ASSUME NEW j \in DOMAIN d.groups[n].members
        PROVE  MemberOk(members[n][j], S)
    <3>1. members[n][j] = MemberTo(d.groups[n].members[j], Shown(d.groups[n].members[j].entry))
      OBVIOUS
    <3> HIDE DEF members, R
    <3>2. MemberOk(d.groups[n].members[j], R)
      BY <2>1 DEF MembersOk
    <3> QED
      BY <2>2, <3>1, <3>2, MemberToOk
  <2>4. PICK ms : ms = members[n]
    OBVIOUS
  <2>5. ms = [j \in DOMAIN d.groups[n].members |-> ms[j]]
    BY <2>4
  <2>6. PICK os : os = d.groups[n].members
    OBVIOUS
  <2> HIDE DEF members, R
  <2>7. IsVec(os) /\ ms = [j \in DOMAIN os |-> ms[j]] /\ \A j \in DOMAIN os : MemberOk(ms[j], S)
    BY <2>1, <2>3, <2>4, <2>5, <2>6 DEF MembersOk
  <2>8. MembersOk(ms, S)
    BY <2>7, MembersMapped
  <2> QED
    BY <2>4, <2>8
<1>11. ASSUME NEW i \in DOMAIN d.actions
       PROVE  /\ ActionOk(A[i], S) /\ A[i].op = d.actions[i].op
              /\ A[i].conflict = d.actions[i].conflict
              /\ A[i].dest.path = d.actions[i].dest.path /\ A[i].dest.root = d.actions[i].dest.root
              /\ HasSource(d.actions[i]) => /\ A[i].source.root = d.actions[i].source.root
                                            /\ A[i].source.path = d.actions[i].source.path
                                            /\ A[i].source.file = d.actions[i].source.file
  <2>1. ActionOk(d.actions[i], R)
    BY <1>3 DEF ActionsOk
  <2>2. PICK e : e = Shown(d.actions[i].dest)
    OBVIOUS
  <2>3. PICK f : f = IF HasSource(d.actions[i]) THEN Shown(d.actions[i].source) ELSE NoValue
    OBVIOUS
  <2>4. DestOk(e, S) /\ e.path = d.actions[i].dest.path /\ e.root = d.actions[i].dest.root
    BY <1>7, <2>1, <2>2 DEF ActionOk
  <2>5. IF HasSource(d.actions[i])
        THEN /\ EntryOk(f, S) /\ f.root = d.actions[i].source.root
             /\ f.path = d.actions[i].source.path /\ f.file = d.actions[i].source.file
        ELSE f = NoValue
    BY <1>7, <2>1, <2>3 DEF ActionOk
  <2>6. A[i] = ActionTo(d.actions[i], e, f)
    BY <2>2, <2>3
  <2> HIDE DEF A, R
  <2>7. /\ ActionOk(A[i], S) /\ A[i].dest = e /\ A[i].source = f
        /\ A[i].op = d.actions[i].op /\ A[i].conflict = d.actions[i].conflict
    BY <2>1, <2>4, <2>5, <2>6, ActionToOk
  <2> QED
    BY <2>4, <2>5, <2>7
<1>12. ASSUME NEW n \in DOMAIN d.groups
       PROVE  GroupOk(G[n], S)
  <2>1. GroupOk(d.groups[n], R)
    BY <1>3 DEF GroupsOk
  <2>2. EntryOk(Shown(d.groups[n].keeper), S)
    BY <1>7, <2>1 DEF GroupOk
  <2>3. G[n] = GroupTo(d.groups[n], Shown(d.groups[n].keeper), members[n])
    OBVIOUS
  <2> HIDE DEF G, R, members
  <2> QED
    BY <1>10, <2>1, <2>2, <2>3, GroupToOk
<1>13. ExcludedOk(E, S)
  BY <1>3, <1>7, <1>9 DEF ExcludedOk
<1> HIDE DEF R, A, G, E
<1>14. OneKind(A)
  BY <1>3, <1>9, <1>11 DEF OneKind, ActionsOk
<1>15. ActionsOk(A, S) /\ GroupsOk(G, S)
  BY <1>9, <1>11, <1>12, <1>14 DEF ActionsOk, GroupsOk
<1>16. SettledOk(A)
  <2> DEFINE N == Len(d.actions)
  <2>1. N \in Nat /\ DOMAIN d.actions = 1 .. N
    BY <1>3, VecIs DEF ActionsOk
  <2>2. PICK order : order = [n \in 1 .. N |-> n]
    OBVIOUS
  <2> HIDE DEF N
  <2>3. ASSUME NEW n \in 1 .. N
        PROVE  /\ Alike(A[n], d.actions[n]) /\ A[n].conflict = d.actions[n].conflict
               /\ A[n].dest.path = d.actions[n].dest.path
    BY <1>11, <2>1 DEF Alike, Base, Suffixed, HasSource
  <2>4. Follows(order, d.actions, A, N)
    BY <1>9, <2>1, <2>2, <2>3 DEF Follows
  <2>5. PICK s : s = d.actions
    OBVIOUS
  <2> QED
    BY <2>1, <2>2, <2>3, <2>4, <2>5, SettledMoved
<1>17. PICK p : p = [d EXCEPT !.actions = A, !.groups = G, !.excluded = E]
  OBVIOUS
<1>18. DocOk(p) /\ p.actions = A /\ p.groups = G /\ p.excluded = E /\ p.roots = d.roots
  BY <1>3, <1>17 DEF DocOk, IsStruct, Has
<1>19. Staged(p, TRUE)
  BY <1>3, <1>13, <1>15, <1>18 DEF Staged, S
<1> QED
  BY <1>8, <1>16, <1>17, <1>18, <1>19

-----------------------------------------------------------------------------
(***************************************************************************)
(* Groups.                                                                 *)
(***************************************************************************)
LEMMA EntryKeyIsKey ==
  ASSUME NEW R, R.ids \subseteq Int, NEW e, EntryOk(e, R)
  PROVE  EntryKey(e) \in Seq(Int)
<1>1. e.root \in Int /\ e.file \in Int
  BY DEF EntryOk, In, IsEntry
<1> QED
  BY <1>1 DEF EntryKey

MembersOrdered(s) == Ordered([j \in DOMAIN s |-> MemberKey(s[j])])
GroupDone(g) == MembersOrdered(g.members) /\ g.id = GroupId(g) /\ g.remaining = Remaining(g)
GroupsDone(s) ==
  Ordered([n \in DOMAIN s |-> KeeperKey(s[n])]) /\ \A n \in DOMAIN s : GroupDone(s[n])

LEMMA MembersStage ==
  ASSUME NEW R, R.ids \subseteq Int, NEW s, MembersOk(s, R), NEW t, t = StableSort(s, MemberKey)
  PROVE  /\ MembersOk(t, R) /\ MembersOrdered(t)
         /\ MembersOrdered(s) => t = s
<1> DEFINE N == Len(s)
           keys == [i \in DOMAIN s |-> MemberKey(s[i])]
<1>1. N \in Nat /\ DOMAIN s = 1 .. N /\ IsVec(s)
  BY VecIs DEF MembersOk
<1>2. \A i \in DOMAIN s : MemberKey(s[i]) \in Seq(Int)
  BY EntryKeyIsKey DEF MemberKey, MembersOk, MemberOk
<1>3. keys \in [1 .. N -> Seq(Int)]
  BY <1>1, <1>2
<1>4. t = [n \in DOMAIN s |-> s[InOrder(keys)[n]]]
  BY DEF StableSort
<1>5. \A i \in 1 .. N : keys[i] = MemberKey(s[i])
  BY <1>1
<1>6. MembersOrdered(s) => Ordered(keys)
  BY DEF MembersOrdered
<1> HIDE DEF keys
<1>7. PICK order : Sorts(order, s, t, keys)
  BY <1>1, <1>3, <1>4, SortOf
<1>8. Permutes(order, s, t) /\ Ordered([n \in 1 .. N |-> keys[order[n]]])
  BY <1>7 DEF Sorts
<1>9. ASSUME NEW n \in 1 .. N PROVE MemberOk(t[n], R) /\ MemberKey(t[n]) = keys[order[n]]
  <2>1. PICK i \in 1 .. N : order[n] = i
    BY <1>8 DEF Permutes
  <2>2. t[n] = s[i]
    BY <1>8, <2>1 DEF Permutes
  <2>3. MemberOk(s[i], R) /\ keys[i] = MemberKey(s[i])
    BY <1>1, <1>5 DEF MembersOk
  <2> QED
    BY <2>1, <2>2, <2>3
<1>10. IsVec(t) /\ DOMAIN t = 1 .. N
  BY <1>8 DEF Permutes
<1>11. [j \in DOMAIN t |-> MemberKey(t[j])] = [n \in 1 .. N |-> keys[order[n]]]
  BY <1>9, <1>10
<1>12. MembersOk(t, R) /\ MembersOrdered(t)
  BY <1>8, <1>9, <1>10, <1>11 DEF MembersOk, MembersOrdered
<1>13. MembersOrdered(s) => t = s
  BY <1>1, <1>3, <1>4, <1>6, SortOfOrdered
<1> QED
  BY <1>12, <1>13

LEMMA MembersSortedOk ==
  ASSUME NEW R, R.ids \subseteq Int, NEW g, GroupOk(g, R)
  PROVE  LET q == MembersSorted(g) IN
         /\ GroupOk(q, R) /\ MembersOrdered(q.members)
         /\ MembersOrdered(g.members) => q = g
<1>1. PICK t : t = StableSort(g.members, MemberKey)
  OBVIOUS
<1>2. PICK s : s = g.members
  OBVIOUS
<1>3. MembersOk(s, R) /\ t = StableSort(s, MemberKey)
  BY <1>1, <1>2 DEF GroupOk
<1>4. MembersOk(t, R) /\ MembersOrdered(t) /\ (MembersOrdered(s) => t = s)
  BY <1>3, MembersStage
<1>5. PICK q : q = [g EXCEPT !.members = t]
  OBVIOUS
<1>6. GroupOk(q, R) /\ q.members = t /\ (t = g.members => q = g)
  BY <1>4, <1>5 DEF GroupOk, IsStruct, Has
<1>7. MembersSorted(g) = q
  BY <1>1, <1>5 DEF MembersSorted
<1> QED
  BY <1>2, <1>4, <1>6, <1>7

LEMMA DerivedOk ==
  ASSUME NEW R, NEW g, GroupOk(g, R)
  PROVE  LET q == Derived(g) IN
         /\ GroupOk(q, R) /\ q.keeper = g.keeper /\ q.members = g.members
         /\ q.id = GroupId(q) /\ q.remaining = Remaining(q)
         /\ g.id = GroupId(g) /\ g.remaining = Remaining(g) => q = g
<1>1. PICK id, remaining : id = GroupId(g) /\ remaining = Remaining(g)
  OBVIOUS
<1>2. PICK q : q = [g EXCEPT !.id = id, !.remaining = remaining]
  OBVIOUS
<1>3. Derived(g) = q
  BY <1>1, <1>2 DEF Derived
<1>4. /\ GroupOk(q, R) /\ q.keeper = g.keeper /\ q.members = g.members /\ q.kind = g.kind
      /\ q.id = id /\ q.remaining = remaining
      /\ g.id = id /\ g.remaining = remaining => q = g
  BY <1>2 DEF GroupOk, IsStruct, Has
<1>5. GroupId(q) = GroupId(g)
  BY <1>4 DEF GroupId
<1>6. Remaining(q) = Remaining(g)
  BY <1>4 DEF Remaining
<1> QED
  BY <1>1, <1>3, <1>4, <1>5, <1>6

GroupsOf(s) ==
  LET sorted == StableSort([n \in DOMAIN s |-> MembersSorted(s[n])], KeeperKey)
  IN [n \in DOMAIN sorted |-> Derived(sorted[n])]

LEMMA GroupsStage ==
  ASSUME NEW R, R.ids \subseteq Int, NEW s, GroupsOk(s, R)
  PROVE  LET u == GroupsOf(s) IN
         /\ GroupsOk(u, R) /\ GroupsDone(u)
         /\ GroupsDone(s) => u = s
<1> DEFINE N == Len(s)
<1>1. N \in Nat /\ DOMAIN s = 1 .. N /\ IsVec(s)
  BY VecIs DEF GroupsOk
<1> HIDE DEF N
<1>2. PICK v : v = [n \in DOMAIN s |-> MembersSorted(s[n])]
  OBVIOUS
<1>3. PICK t : t = StableSort(v, KeeperKey)
  OBVIOUS
<1>4. PICK u : u = [n \in DOMAIN t |-> Derived(t[n])]
  OBVIOUS
<1>5. GroupsOf(s) = u
  BY <1>2, <1>3, <1>4 DEF GroupsOf
<1>6. v = [n \in 1 .. N |-> v[n]]
  BY <1>1, <1>2
<1>7. IsVec(v) /\ Len(v) = N /\ DOMAIN v = 1 .. N
  BY <1>1, <1>6, VecOf
<1>8. ASSUME NEW n \in 1 .. N
      PROVE  /\ GroupOk(v[n], R) /\ MembersOrdered(v[n].members)
             /\ MembersOrdered(s[n].members) => v[n] = s[n]
  <2>1. GroupOk(s[n], R) /\ v[n] = MembersSorted(s[n])
    BY <1>1, <1>2 DEF GroupsOk
  <2> QED
    BY <2>1, MembersSortedOk
<1> DEFINE keys == [i \in DOMAIN v |-> KeeperKey(v[i])]
<1>9. \A i \in DOMAIN v : KeeperKey(v[i]) \in Seq(Int)
  BY <1>7, <1>8, EntryKeyIsKey DEF KeeperKey, GroupOk
<1>10. keys \in [1 .. N -> Seq(Int)]
  BY <1>7, <1>9
<1>11. t = [n \in DOMAIN v |-> v[InOrder(keys)[n]]]
  BY <1>3 DEF StableSort
<1>12. \A i \in 1 .. N : keys[i] = KeeperKey(v[i])
  BY <1>7
<1>13. v = s /\ GroupsDone(s) => Ordered(keys)
  BY DEF GroupsDone
<1> HIDE DEF keys
<1>14. PICK order : Sorts(order, v, t, keys)
  BY <1>7, <1>10, <1>11, SortOf
<1>15. Permutes(order, v, t) /\ Ordered([n \in 1 .. N |-> keys[order[n]]])
  BY <1>7, <1>14 DEF Sorts
<1>16. IsVec(t) /\ DOMAIN t = 1 .. N
  BY <1>7, <1>15 DEF Permutes
<1>17. ASSUME NEW n \in 1 .. N
       PROVE  /\ GroupOk(u[n], R) /\ GroupDone(u[n]) /\ KeeperKey(u[n]) = keys[order[n]]
              /\ GroupDone(t[n]) => u[n] = t[n]
  <2>1. PICK i \in 1 .. N : order[n] = i
    BY <1>7, <1>15 DEF Permutes
  <2>2. GroupOk(t[n], R) /\ MembersOrdered(t[n].members) /\ KeeperKey(t[n]) = keys[order[n]]
    BY <1>7, <1>8, <1>12, <1>15, <2>1 DEF Permutes
  <2>3. u[n] = Derived(t[n])
    BY <1>4, <1>16
  <2>4. /\ GroupOk(u[n], R) /\ u[n].keeper = t[n].keeper /\ u[n].members = t[n].members
        /\ u[n].id = GroupId(u[n]) /\ u[n].remaining = Remaining(u[n])
        /\ t[n].id = GroupId(t[n]) /\ t[n].remaining = Remaining(t[n]) => u[n] = t[n]
    BY <2>2, <2>3, DerivedOk
  <2> QED
    BY <2>2, <2>4 DEF GroupDone, KeeperKey
<1>18. u = [n \in 1 .. N |-> u[n]]
  BY <1>4, <1>16
<1>19. IsVec(u) /\ DOMAIN u = 1 .. N
  BY <1>1, <1>18, VecOf
<1>20. [n \in DOMAIN u |-> KeeperKey(u[n])] = [n \in 1 .. N |-> keys[order[n]]]
  BY <1>17, <1>19
<1>21. GroupsOk(u, R) /\ GroupsDone(u)
  BY <1>15, <1>17, <1>19, <1>20 DEF GroupsOk, GroupsDone
<1>22. ASSUME GroupsDone(s) PROVE u = s
  <2>1. \A n \in 1 .. N : v[n] = s[n]
    BY <1>1, <1>8, <1>22 DEF GroupsDone, GroupDone
  <2>2. v = s
    <3>1. s = [n \in 1 .. N |-> s[n]]
      BY <1>1, VecIs
    <3> QED
      BY <1>6, <2>1, <3>1
  <2>3. t = v
    BY <1>7, <1>10, <1>11, <1>13, <1>22, <2>2, SortOfOrdered
  <2>4. \A n \in 1 .. N : u[n] = t[n]
    BY <1>1, <1>17, <1>22, <2>2, <2>3 DEF GroupsDone
  <2> QED
    BY <1>6, <1>18, <2>2, <2>3, <2>4
<1> QED
  BY <1>5, <1>21, <1>22

-----------------------------------------------------------------------------
(***************************************************************************)
(* What is excluded.                                                       *)
(***************************************************************************)
ExcludedDone(s) == Ordered([j \in DOMAIN s |-> EntryKey(s[j])])

LEMMA ExcludedStage ==
  ASSUME NEW R, R.ids \subseteq Int, NEW s, ExcludedOk(s, R), NEW t, t = StableSort(s, EntryKey)
  PROVE  /\ ExcludedOk(t, R) /\ ExcludedDone(t)
         /\ ExcludedDone(s) => t = s
<1> DEFINE N == Len(s)
           keys == [i \in DOMAIN s |-> EntryKey(s[i])]
<1>1. N \in Nat /\ DOMAIN s = 1 .. N /\ IsVec(s)
  BY VecIs DEF ExcludedOk
<1>2. \A i \in DOMAIN s : EntryKey(s[i]) \in Seq(Int)
  BY EntryKeyIsKey DEF ExcludedOk
<1>3. keys \in [1 .. N -> Seq(Int)]
  BY <1>1, <1>2
<1>4. t = [n \in DOMAIN s |-> s[InOrder(keys)[n]]]
  BY DEF StableSort
<1>5. \A i \in 1 .. N : keys[i] = EntryKey(s[i])
  BY <1>1
<1>6. ExcludedDone(s) => Ordered(keys)
  BY DEF ExcludedDone
<1> HIDE DEF keys
<1>7. PICK order : Sorts(order, s, t, keys)
  BY <1>1, <1>3, <1>4, SortOf
<1>8. Permutes(order, s, t) /\ Ordered([n \in 1 .. N |-> keys[order[n]]])
  BY <1>7 DEF Sorts
<1>9. ASSUME NEW n \in 1 .. N PROVE EntryOk(t[n], R) /\ EntryKey(t[n]) = keys[order[n]]
  <2>1. PICK i \in 1 .. N : order[n] = i
    BY <1>8 DEF Permutes
  <2>2. t[n] = s[i]
    BY <1>8, <2>1 DEF Permutes
  <2>3. EntryOk(s[i], R) /\ keys[i] = EntryKey(s[i])
    BY <1>1, <1>5 DEF ExcludedOk
  <2> QED
    BY <2>1, <2>2, <2>3
<1>10. IsVec(t) /\ DOMAIN t = 1 .. N
  BY <1>8 DEF Permutes
<1>11. [j \in DOMAIN t |-> EntryKey(t[j])] = [n \in 1 .. N |-> keys[order[n]]]
  BY <1>9, <1>10
<1>12. ExcludedOk(t, R) /\ ExcludedDone(t)
  BY <1>8, <1>9, <1>10, <1>11 DEF ExcludedOk, ExcludedDone
<1>13. ExcludedDone(s) => t = s
  BY <1>1, <1>3, <1>4, <1>6, SortOfOrdered
<1> QED
  BY <1>12, <1>13

-----------------------------------------------------------------------------
(***************************************************************************)
(* Actions.                                                                *)
(***************************************************************************)
LEMMA RankParts ==
  ASSUME NEW e, IsEntry(e), e.root \in Int
  PROVE  LET k == SourceRank(e) IN
         /\ k \in Seq(Int) /\ k[1] = e.root /\ k[Len(k)] = e.file
<1> DEFINE k == <<e.root>> \o e.path
           l == <<-1, e.file>>
<1>1. e.path \in Seq(Int) /\ e.file \in Int
  BY DEF IsEntry
<1>2. <<e.root>> \in Seq(Int) /\ Len(<<e.root>>) = 1 /\ <<e.root>>[1] = e.root
  OBVIOUS
<1>3. k \in Seq(Int) /\ Len(k) = 1 + Len(e.path) /\ k[1] = e.root
  BY <1>1, <1>2, ConcatProperties
<1>4. l \in Seq(Int) /\ Len(l) = 2 /\ l[2] = e.file
  BY <1>1
<1>5. Len(e.path) \in Nat
  BY <1>1
<1> HIDE DEF k, l
<1>6. /\ k \o l \in Seq(Int) /\ Len(k \o l) = 3 + Len(e.path)
      /\ (k \o l)[1] = e.root /\ (k \o l)[Len(k \o l)] = e.file
  <2>1. PICK s : s = k \o l
    OBVIOUS
  <2>2. /\ s \in Seq(Int) /\ Len(s) = Len(k) + Len(l)
        /\ \A i \in 1 .. Len(k) + Len(l) : s[i] = IF i <= Len(k) THEN k[i] ELSE l[i - Len(k)]
    <3>1. k \in Seq(Int) /\ l \in Seq(Int)
      BY <1>3, <1>4
    <3> QED
      BY <2>1, <3>1, ConcatProperties
  <2>3. PICK n \in Nat : n = Len(e.path)
    BY <1>5
  <2>4. Len(k) = n + 1 /\ Len(l) = 2 /\ k[1] = e.root /\ l[2] = e.file
    BY <1>3, <1>4, <2>3
  <2>5. \A i \in 1 .. n + 3 : s[i] = IF i <= n + 1 THEN k[i] ELSE l[i - (n + 1)]
    BY <2>2, <2>4
  <2>6. s[1] = k[1] /\ s[n + 3] = l[n + 3 - (n + 1)]
    BY <2>5
  <2>7. n + 3 - (n + 1) = 2
    OBVIOUS
  <2>8. Len(s) = n + 3 /\ Len(s) = 3 + n
    BY <2>2, <2>4
  <2> QED
    BY <2>1, <2>2, <2>3, <2>4, <2>6, <2>7, <2>8
<1>7. SourceRank(e) = k \o l
  BY DEF SourceRank, k, l
<1> QED
  BY <1>6, <1>7

LEMMA ActionKeyIsKey ==
  ASSUME NEW R, R.ids \subseteq Int, NEW a, ActionOk(a, R)
  PROVE  ActionKey(a) \in Seq(Int)
<1>1. a.op \in {"mkdir", "move", "extract", "quarantine"}
  BY DEF ActionOk
<1>2. a.dest.path \in Seq(Int) /\ a.dest.root \in Int /\ a.group \in Seq(Int)
  BY DEF ActionOk, DestOk, In
<1>3. a.op # "mkdir" => /\ a.source.root \in Int /\ a.source.file \in Int
                       /\ a.source.path \in Seq(Int) /\ IsEntry(a.source)
  BY DEF ActionOk, HasSource, EntryOk, In, IsEntry
<1>4. CASE a.op = "mkdir"
  <2>1. ActionKey(a) = <<0, a.dest.root>> \o a.dest.path
    BY <1>4 DEF ActionKey
  <2>2. <<0, a.dest.root>> \in Seq(Int)
    BY <1>2
  <2> QED
    BY <1>2, <2>1, <2>2, ConcatProperties
<1>5. CASE a.op = "move"
  <2>1. ActionKey(a) = <<1>> \o SourceRank(a.source)
    BY <1>5 DEF ActionKey
  <2>2. <<1>> \in Seq(Int) /\ SourceRank(a.source) \in Seq(Int)
    BY <1>3, <1>5, RankParts
  <2> QED
    BY <2>1, <2>2, ConcatProperties
<1>6. CASE a.op = "extract"
  <2>1. ActionKey(a) = <<1, a.source.root, -1, a.source.file>>
    BY <1>6 DEF ActionKey
  <2> QED
    BY <1>3, <1>6, <2>1
<1>7. CASE a.op = "quarantine"
  <2>1. ActionKey(a) = <<1, a.source.root>> \o a.group \o <<-1>> \o a.source.path
                         \o <<-1, a.source.file>>
    BY <1>7 DEF ActionKey
  <2>2. /\ <<1, a.source.root>> \in Seq(Int) /\ <<-1>> \in Seq(Int)
        /\ <<-1, a.source.file>> \in Seq(Int) /\ a.source.path \in Seq(Int)
    BY <1>3, <1>7
  <2>3. <<1, a.source.root>> \o a.group \in Seq(Int)
    BY <1>2, <2>2, ConcatProperties
  <2>4. (<<1, a.source.root>> \o a.group) \o <<-1>> \in Seq(Int)
    BY <2>2, <2>3, ConcatProperties
  <2>5. ((<<1, a.source.root>> \o a.group) \o <<-1>>) \o a.source.path \in Seq(Int)
    BY <2>2, <2>4, ConcatProperties
  <2> QED
    BY <2>1, <2>2, <2>5, ConcatProperties
<1> QED
  BY <1>1, <1>4, <1>5, <1>6, <1>7

\* Actions of one kind whose sources have one rank are sorted by one key.
LEMMA SameRankSameKey ==
  ASSUME NEW R, R.ids \subseteq Int, NEW a, ActionOk(a, R), NEW b, ActionOk(b, R),
         Placed(a), a.op = b.op, SourceRank(a.source) = SourceRank(b.source)
  PROVE  ActionKey(a) = ActionKey(b)
<1>1. /\ a.source.root \in Int /\ IsEntry(a.source) /\ b.source.root \in Int /\ IsEntry(b.source)
  BY DEF ActionOk, HasSource, EntryOk, In, Placed
<1>2. a.source.root = b.source.root /\ a.source.file = b.source.file
  BY <1>1, RankParts
<1>3. a.op = "move" \/ a.op = "extract"
  BY DEF Placed
<1> QED
  BY <1>2, <1>3 DEF ActionKey

\* The same action but for what is derived of it.
SameBut(a, b) ==
  /\ a.op = b.op /\ a.dest = b.dest /\ a.source = b.source /\ a.conflict = b.conflict
  /\ a.group = b.group

LEMMA SameButSame ==
  ASSUME NEW a, NEW b, SameBut(a, b)
  PROVE  Alike(a, b) /\ ActionKey(a) = ActionKey(b) /\ SlotOf(a) = SlotOf(b)
<1>1. Alike(a, b)
  BY DEF SameBut, Alike, Base, Suffixed
<1>2. ActionKey(a) = ActionKey(b)
  BY DEF SameBut, ActionKey
<1>3. SlotOf(a) = SlotOf(b)
  BY DEF SameBut, SlotOf
<1> QED
  BY <1>1, <1>2, <1>3

LEMMA SlottedOk ==
  ASSUME NEW R, NEW a, ActionOk(a, R)
  PROVE  LET q == Slotted(a) IN ActionOk(q, R) /\ SameBut(q, a) /\ Slotted(q) = q
<1>1. CASE a.op # "quarantine"
  BY <1>1 DEF Slotted, SameBut
<1>2. CASE a.op = "quarantine"
  <2>1. PICK slot : slot = SlotOf(a)
    OBVIOUS
  <2>2. PICK q : q = [a EXCEPT !.slot = slot]
    OBVIOUS
  <2>3. Slotted(a) = q
    BY <1>2, <2>1, <2>2 DEF Slotted
  <2>4. ActionOk(q, R) /\ SameBut(q, a) /\ q.slot = slot
    BY <2>2 DEF ActionOk, IsStruct, Has, SameBut, HasSource
  <2>5. SlotOf(q) = slot
    BY <2>1, <2>4, SameButSame
  <2>6. Slotted(q) = q
    BY <2>4, <2>5 DEF Slotted, ActionOk, IsStruct, Has
  <2> QED
    BY <2>3, <2>4, <2>6
<1> QED
  BY <1>1, <1>2

ActionDone(a, n) == Slotted(a) = a /\ a.ordinal = n - 1 /\ a.id = ActionId(a)
ActionsDone(s) ==
  Ordered([n \in DOMAIN s |-> ActionKey(s[n])]) /\ \A n \in DOMAIN s : ActionDone(s[n], n)

LEMMA RankedOk ==
  ASSUME NEW R, NEW a, ActionOk(a, R), Slotted(a) = a, NEW n
  PROVE  LET q == Ranked(a, n) IN
         /\ ActionOk(q, R) /\ SameBut(q, a) /\ ActionDone(q, n)
         /\ ActionDone(a, n) => q = a
<1>1. PICK id, ordinal : id = ActionId(a) /\ ordinal = n - 1
  OBVIOUS
<1>2. PICK q : q = [a EXCEPT !.ordinal = ordinal, !.id = id]
  OBVIOUS
<1>3. Ranked(a, n) = q
  BY <1>1, <1>2 DEF Ranked
<1>4. /\ ActionOk(q, R) /\ SameBut(q, a) /\ q.slot = a.slot /\ q.ordinal = ordinal /\ q.id = id
      /\ a.ordinal = ordinal /\ a.id = id => q = a
  BY <1>2 DEF ActionOk, IsStruct, Has, SameBut, HasSource
<1>5. ActionId(q) = id
  BY <1>1, <1>4 DEF ActionId, SameBut, HasSource
<1>6. Slotted(q) = q
  <2>1. a.op = "quarantine" => a.slot = SlotOf(a)
    BY DEF Slotted, ActionOk, IsStruct, Has
  <2>2. SlotOf(q) = SlotOf(a) /\ q.op = a.op
    BY <1>4, SameButSame DEF SameBut
  <2>3. q.op = "quarantine" => q.slot = SlotOf(q)
    BY <1>4, <2>1, <2>2
  <2> QED
    BY <1>4, <2>3 DEF Slotted, ActionOk, IsStruct, Has
<1> QED
  BY <1>1, <1>3, <1>4, <1>5, <1>6 DEF ActionDone

ActionsOf(s) ==
  LET sorted == StableSort([n \in DOMAIN s |-> Slotted(s[n])], ActionKey)
  IN [n \in DOMAIN s |-> Ranked(sorted[n], n)]

LEMMA ActionsStage ==
  ASSUME NEW R, R.ids \subseteq Int, NEW s, ActionsOk(s, R), SettledOk(s)
  PROVE  LET u == ActionsOf(s) IN
         /\ ActionsOk(u, R) /\ SettledOk(u) /\ ActionsDone(u)
         /\ ActionsDone(s) => u = s
<1> DEFINE N == Len(s)
<1>1. N \in Nat /\ DOMAIN s = 1 .. N /\ IsVec(s) /\ s = [n \in 1 .. N |-> s[n]]
  BY VecIs DEF ActionsOk
<1> HIDE DEF N
<1>2. PICK v : v = [n \in DOMAIN s |-> Slotted(s[n])]
  OBVIOUS
<1>3. PICK t : t = StableSort(v, ActionKey)
  OBVIOUS
<1>4. PICK u : u = [n \in DOMAIN s |-> Ranked(t[n], n)]
  OBVIOUS
<1>5. ActionsOf(s) = u
  BY <1>2, <1>3, <1>4 DEF ActionsOf
<1>6. v = [n \in 1 .. N |-> v[n]]
  BY <1>1, <1>2
<1>7. IsVec(v) /\ Len(v) = N /\ DOMAIN v = 1 .. N
  BY <1>1, <1>6, VecOf
<1>8. ASSUME NEW n \in 1 .. N
      PROVE  /\ ActionOk(v[n], R) /\ SameBut(v[n], s[n]) /\ Slotted(v[n]) = v[n]
             /\ ActionKey(v[n]) \in Seq(Int)
  <2>1. ActionOk(s[n], R) /\ v[n] = Slotted(s[n])
    BY <1>1, <1>2 DEF ActionsOk
  <2>2. ActionOk(v[n], R) /\ SameBut(v[n], s[n]) /\ Slotted(v[n]) = v[n]
    BY <2>1, SlottedOk
  <2> QED
    BY <2>2, ActionKeyIsKey
<1> DEFINE keys == [i \in DOMAIN v |-> ActionKey(v[i])]
<1>10. keys \in [1 .. N -> Seq(Int)]
  BY <1>7, <1>8
<1>11. t = [n \in DOMAIN v |-> v[InOrder(keys)[n]]]
  BY <1>3 DEF StableSort
<1>12. \A i \in 1 .. N : keys[i] = ActionKey(v[i])
  BY <1>7
<1>13. v = s /\ ActionsDone(s) => Ordered(keys)
  BY DEF ActionsDone
<1> HIDE DEF keys
<1>14. PICK order : Sorts(order, v, t, keys)
  BY <1>7, <1>10, <1>11, SortOf
<1>15. /\ Permutes(order, v, t) /\ Ordered([n \in 1 .. N |-> keys[order[n]]])
       /\ \A n, m \in 1 .. N : keys[order[n]] = keys[order[m]] /\ n < m => order[n] < order[m]
  BY <1>7, <1>14 DEF Sorts
<1>16. /\ DOMAIN t = 1 .. N /\ order \in [1 .. N -> 1 .. N]
       /\ \A i \in 1 .. N : \E n \in 1 .. N : order[n] = i
       /\ \A n, m \in 1 .. N : order[n] = order[m] => n = m
       /\ \A n \in 1 .. N : t[n] = v[order[n]]
  BY <1>7, <1>15 DEF Permutes
<1>17. ASSUME NEW n \in 1 .. N
       PROVE  /\ ActionOk(u[n], R) /\ SameBut(u[n], s[order[n]]) /\ ActionDone(u[n], n)
              /\ ActionKey(u[n]) = keys[order[n]]
              /\ ActionDone(t[n], n) => u[n] = t[n]
  <2>1. PICK i \in 1 .. N : order[n] = i
    BY <1>16
  <2>2. /\ ActionOk(t[n], R) /\ SameBut(t[n], s[i]) /\ Slotted(t[n]) = t[n]
        /\ ActionKey(t[n]) = keys[i]
    <3>1. t[n] = v[i]
      BY <1>16, <2>1
    <3>2. /\ ActionOk(v[i], R) /\ SameBut(v[i], s[i]) /\ Slotted(v[i]) = v[i]
          /\ keys[i] = ActionKey(v[i])
      BY <1>8, <1>12
    <3> QED
      BY <3>1, <3>2
  <2>3. u[n] = Ranked(t[n], n)
    BY <1>1, <1>4
  <2>4. /\ ActionOk(u[n], R) /\ SameBut(u[n], t[n]) /\ ActionDone(u[n], n)
        /\ ActionDone(t[n], n) => u[n] = t[n]
    BY <2>2, <2>3, RankedOk
  <2>5. ActionKey(u[n]) = ActionKey(t[n])
    BY <2>4, SameButSame
  <2>6. SameBut(u[n], s[i])
    BY <2>2, <2>4 DEF SameBut
  <2> QED
    BY <2>1, <2>2, <2>4, <2>5, <2>6
<1>18. u = [n \in 1 .. N |-> u[n]]
  BY <1>1, <1>4
<1>19. IsVec(u) /\ DOMAIN u = 1 .. N
  BY <1>1, <1>18, VecOf
<1>20. [n \in DOMAIN u |-> ActionKey(u[n])] = [n \in 1 .. N |-> keys[order[n]]]
  BY <1>17, <1>19
<1>21. ActionsDone(u)
  BY <1>15, <1>17, <1>19, <1>20 DEF ActionsDone
<1>22. OneKind(s) /\ OneKind(u)
  <2>1. OneKind(s)
    BY DEF ActionsOk
  <2>2. \A n \in 1 .. N : order[n] \in 1 .. N /\ u[n].op = s[order[n]].op
    BY <1>16, <1>17 DEF SameBut
  <2>3. ASSUME NEW n \in 1 .. N, NEW m \in 1 .. N, u[n].op = "move" PROVE u[m].op # "extract"
    <3>1. s[order[n]].op = "move" => s[order[m]].op # "extract"
      BY <1>1, <2>1, <2>2 DEF OneKind
    <3> QED
      BY <2>2, <2>3, <3>1
  <2> QED
    BY <1>19, <2>1, <2>3 DEF OneKind
<1>23. ActionsOk(u, R)
  BY <1>17, <1>19, <1>22 DEF ActionsOk
<1>24. Follows(order, s, u, N)
  <2>1. ASSUME NEW n \in 1 .. N PROVE Alike(u[n], s[order[n]])
    BY <1>17, SameButSame
  <2>2. ASSUME NEW n \in 1 .. N, NEW m \in 1 .. N, Placed(u[n]), Placed(u[m]),
               SourceRank(u[n].source) = SourceRank(u[m].source)
        PROVE  n < m <=> order[n] < order[m]
    <3>1. u[n].op = u[m].op
      BY <1>19, <1>22, <2>2 DEF OneKind, Placed
    <3>2. ActionOk(u[n], R) /\ ActionOk(u[m], R)
      BY <1>17
    <3>3. ActionKey(u[n]) = ActionKey(u[m])
      BY <2>2, <3>1, <3>2, SameRankSameKey
    <3>4. keys[order[n]] = keys[order[m]]
      BY <1>17, <3>3
    <3>5. /\ n < m => order[n] < order[m]
          /\ m < n => order[m] < order[n]
      BY <1>15, <3>4
    <3>6. order[n] \in 1 .. N /\ order[m] \in 1 .. N
      BY <1>16
    <3> QED
      BY <1>1, <3>5, <3>6
  <2> QED
    BY <1>1, <1>16, <1>19, <2>1, <2>2 DEF Follows
<1>25. SettledOk(u)
  <2>1. ASSUME NEW n \in 1 .. N
        PROVE  /\ u[n].conflict = s[order[n]].conflict
               /\ u[n].dest.path = s[order[n]].dest.path
    BY <1>17 DEF SameBut
  <2> QED
    BY <1>1, <1>24, <2>1, SettledMoved
<1>26. ASSUME ActionsDone(s) PROVE u = s
  <2>1. \A n \in 1 .. N : v[n] = s[n]
    BY <1>1, <1>2, <1>26 DEF ActionsDone, ActionDone
  <2>2. v = s
    BY <1>1, <1>6, <2>1
  <2>3. t = v
    BY <1>7, <1>10, <1>11, <1>13, <1>26, <2>2, SortOfOrdered
  <2>4. \A n \in 1 .. N : u[n] = t[n]
    BY <1>1, <1>17, <1>26, <2>2, <2>3 DEF ActionsDone
  <2> QED
    BY <1>6, <1>18, <2>2, <2>3, <2>4
<1> QED
  BY <1>5, <1>21, <1>23, <1>25, <1>26

-----------------------------------------------------------------------------
(***************************************************************************)
(* What is canonical is left as it is.                                     *)
(***************************************************************************)
Settles(p) ==
  /\ Staged(p, TRUE) /\ SettledOk(p.actions) /\ ActionsDone(p.actions)
  /\ GroupsDone(p.groups) /\ ExcludedDone(p.excluded)
  /\ p.summary = SummaryOf(p.actions, p.groups, p.excluded)

\* A structure is the same with fields set to what they are.
LEMMA ActionToSame ==
  ASSUME NEW R, NEW a, ActionOk(a, R)
  PROVE  ActionTo(a, a.dest, a.source) = a
BY DEF ActionOk, IsStruct, Has, ActionTo

LEMMA MemberToSame ==
  ASSUME NEW R, NEW m, MemberOk(m, R)
  PROVE  MemberTo(m, m.entry) = m
BY DEF MemberOk, IsStruct, Has, MemberTo

LEMMA GroupToSame ==
  ASSUME NEW R, NEW g, GroupOk(g, R)
  PROVE  GroupTo(g, g.keeper, g.members) = g
BY DEF GroupOk, IsStruct, Has, GroupTo

LEMMA DocSame ==
  ASSUME NEW p, DocOk(p)
  PROVE  /\ [p EXCEPT !.roots = p.roots] = p
         /\ [p EXCEPT !.actions = p.actions] = p
         /\ [p EXCEPT !.groups = p.groups] = p
         /\ [p EXCEPT !.excluded = p.excluded] = p
         /\ [p EXCEPT !.summary = p.summary] = p
         /\ [p EXCEPT !.actions = p.actions, !.groups = p.groups, !.excluded = p.excluded] = p
BY DEF DocOk, IsStruct, Has

LEMMA ShownFixed ==
  ASSUME NEW p, Staged(p, TRUE)
  PROVE  Displayed(p) = p
<1> DEFINE R == Scope(Ids(p.roots), TRUE)
<1>1. /\ DocOk(p) /\ ActionsOk(p.actions, R) /\ GroupsOk(p.groups, R) /\ ExcludedOk(p.excluded, R)
  BY DEF Staged
<1>2. \A e : EntryOk(e, R) \/ DestOk(e, R) => Shown(e) = e
  BY DEF EntryOk, DestOk, In, Scope
<1> DEFINE A == [i \in DOMAIN p.actions |->
                   ActionTo(p.actions[i], Shown(p.actions[i].dest),
                     IF HasSource(p.actions[i]) THEN Shown(p.actions[i].source) ELSE NoValue)]
           members == [n \in DOMAIN p.groups |->
                         [j \in DOMAIN p.groups[n].members |->
                            MemberTo(p.groups[n].members[j], Shown(p.groups[n].members[j].entry))]]
           G == [n \in DOMAIN p.groups |->
                   GroupTo(p.groups[n], Shown(p.groups[n].keeper), members[n])]
           E == [i \in DOMAIN p.excluded |-> Shown(p.excluded[i])]
<1>3. Displayed(p) = [p EXCEPT !.actions = A, !.groups = G, !.excluded = E]
  BY DEF Displayed, EachEntry
<1> HIDE DEF R
<1>4. A = p.actions
  <2>1. ASSUME NEW i \in DOMAIN p.actions PROVE A[i] = p.actions[i]
    <3>1. ActionOk(p.actions[i], R)
      BY <1>1 DEF ActionsOk
    <3>2. Shown(p.actions[i].dest) = p.actions[i].dest
      BY <1>2, <3>1 DEF ActionOk
    <3>3. (IF HasSource(p.actions[i]) THEN Shown(p.actions[i].source) ELSE NoValue) = p.actions[i].source
      BY <1>2, <3>1 DEF ActionOk
    <3>4. A[i] = ActionTo(p.actions[i], p.actions[i].dest, p.actions[i].source)
      BY <3>2, <3>3
    <3> HIDE DEF A
    <3> QED
      BY <3>1, <3>4, ActionToSame
  <2>2. p.actions = [i \in DOMAIN p.actions |-> p.actions[i]]
    BY <1>1, VecIs DEF ActionsOk
  <2>3. A = [i \in DOMAIN p.actions |-> A[i]]
    OBVIOUS
  <2> HIDE DEF A
  <2> QED
    BY <2>1, <2>2, <2>3
<1>5. ASSUME NEW n \in DOMAIN p.groups PROVE members[n] = p.groups[n].members
  <2>1. MembersOk(p.groups[n].members, R)
    BY <1>1 DEF GroupsOk, GroupOk
  <2>2. ASSUME NEW j \in DOMAIN p.groups[n].members PROVE members[n][j] = p.groups[n].members[j]
    <3>1. MemberOk(p.groups[n].members[j], R)
      BY <2>1 DEF MembersOk
    <3>2. Shown(p.groups[n].members[j].entry) = p.groups[n].members[j].entry
      BY <1>2, <3>1 DEF MemberOk
    <3>3. members[n][j] = MemberTo(p.groups[n].members[j], p.groups[n].members[j].entry)
      BY <3>2
    <3> HIDE DEF members
    <3> QED
      BY <3>1, <3>3, MemberToSame
  <2>3. p.groups[n].members = [j \in DOMAIN p.groups[n].members |-> p.groups[n].members[j]]
    BY <2>1, VecIs DEF MembersOk
  <2>4. members[n] = [j \in DOMAIN p.groups[n].members |-> members[n][j]]
    OBVIOUS
  <2> HIDE DEF members
  <2> QED
    BY <2>2, <2>3, <2>4
<1>6. G = p.groups
  <2>1. ASSUME NEW n \in DOMAIN p.groups PROVE G[n] = p.groups[n]
    <3>1. GroupOk(p.groups[n], R)
      BY <1>1 DEF GroupsOk
    <3>2. Shown(p.groups[n].keeper) = p.groups[n].keeper
      BY <1>2, <3>1 DEF GroupOk
    <3> HIDE DEF members
    <3>3. G[n] = GroupTo(p.groups[n], p.groups[n].keeper, p.groups[n].members)
      BY <1>5, <3>2
    <3> HIDE DEF G
    <3> QED
      BY <3>1, <3>3, GroupToSame
  <2>2. p.groups = [n \in DOMAIN p.groups |-> p.groups[n]]
    BY <1>1, VecIs DEF GroupsOk
  <2>3. G = [n \in DOMAIN p.groups |-> G[n]]
    OBVIOUS
  <2> HIDE DEF G
  <2> QED
    BY <2>1, <2>2, <2>3
<1>7. E = p.excluded
  <2>1. p.excluded = [n \in DOMAIN p.excluded |-> p.excluded[n]]
    BY <1>1, VecIs DEF ExcludedOk
  <2> QED
    BY <1>1, <1>2, <2>1 DEF ExcludedOk
<1> HIDE DEF A, G, E, members
<1> QED
  BY <1>1, <1>3, <1>4, <1>6, <1>7, DocSame

LEMMA FollowingSame ==
  ASSUME NEW t, IsVec(t), \A n \in DOMAIN t : t[n].id = n - 1,
         NEW e, IsStruct(e, {"root"}), e.root \in Ids(t)
  PROVE  Following(e, t) = e
<1>1. Len(t) \in Nat /\ DOMAIN t = 1 .. Len(t)
  BY VecIs
<1>2. PICK v : v = (CHOOSE n \in DOMAIN t : t[n].id = e.root) - 1
  OBVIOUS
<1>3. e.root + 1 \in DOMAIN t /\ t[e.root + 1].id = e.root
  BY <1>1 DEF Ids
<1>4. v = e.root
  <2>1. PICK m : m = CHOOSE n \in DOMAIN t : t[n].id = e.root
    OBVIOUS
  <2>2. m \in DOMAIN t /\ t[m].id = e.root
    BY <1>3, <2>1
  <2>3. m \in Nat /\ m - 1 = e.root
    BY <1>1, <2>2
  <2> QED
    BY <1>2, <2>1, <2>3
<1>5. Following(e, t) = [e EXCEPT !.root = v]
  BY <1>2 DEF Following
<1> QED
  BY <1>4, <1>5 DEF IsStruct, Has

LEMMA RootsSame ==
  ASSUME NEW s, RootsDone(s)
  PROVE  /\ StableSort(s, RootKey) = s
         /\ [n \in DOMAIN s |-> Numbered(s[n], n)] = s
<1> DEFINE N == Len(s)
           keys == [i \in DOMAIN s |-> RootKey(s[i])]
<1>1. N \in Nat /\ DOMAIN s = 1 .. N /\ IsVec(s) /\ s = [n \in 1 .. N |-> s[n]]
  BY VecIs DEF RootsDone, RootsOk
<1>2. \A i \in DOMAIN s : RootKey(s[i]) \in Seq(Int)
  BY RootKeyIsKey DEF RootsDone, RootsOk
<1>3. keys \in [1 .. N -> Seq(Int)]
  BY <1>1, <1>2
<1>4. Ordered(keys)
  BY DEF RootsDone
<1>5. StableSort(s, RootKey) = [n \in DOMAIN s |-> s[InOrder(keys)[n]]]
  BY DEF StableSort
<1> HIDE DEF keys
<1>6. StableSort(s, RootKey) = s
  BY <1>1, <1>3, <1>4, <1>5, SortOfOrdered
<1>7. ASSUME NEW n \in DOMAIN s PROVE Numbered(s[n], n) = s[n]
  <2>1. RootOk(s[n]) /\ s[n].id = n - 1
    BY DEF RootsDone, RootsOk
  <2> QED
    BY <2>1 DEF RootOk, IsStruct, Has, Numbered
<1> QED
  BY <1>1, <1>6, <1>7

LEMMA RootsFixed ==
  ASSUME NEW p, Staged(p, TRUE)
  PROVE  CanonicalRoots(p) = p
<1> DEFINE R == Scope(Ids(p.roots), TRUE)
<1>1. /\ DocOk(p) /\ ActionsOk(p.actions, R) /\ GroupsOk(p.groups, R) /\ ExcludedOk(p.excluded, R)
      /\ RootsDone(p.roots)
  BY DEF Staged
<1>8. PICK t : t = StableSort(p.roots, RootKey)
  OBVIOUS
<1>9. PICK u : u = [n \in DOMAIN t |-> Numbered(t[n], n)]
  OBVIOUS
<1>10. t = p.roots /\ u = p.roots
  BY <1>1, <1>8, <1>9, RootsSame
<1>2. \A e : EntryOk(e, R) \/ DestOk(e, R) => Following(e, t) = e
  <2>1. IsVec(t) /\ \A n \in DOMAIN t : t[n].id = n - 1
    BY <1>1, <1>10 DEF RootsDone, RootsOk
  <2>2. \A e : EntryOk(e, R) \/ DestOk(e, R) => IsStruct(e, {"root"}) /\ e.root \in Ids(t)
    BY <1>10 DEF EntryOk, DestOk, IsEntry, IsStruct, Has, In, Scope
  <2> QED
    BY <2>1, <2>2, FollowingSame
<1> DEFINE A == [i \in DOMAIN p.actions |->
                   ActionTo(p.actions[i], Following(p.actions[i].dest, t),
                     IF HasSource(p.actions[i]) THEN Following(p.actions[i].source, t) ELSE NoValue)]
           members == [n \in DOMAIN p.groups |->
                         [j \in DOMAIN p.groups[n].members |->
                            MemberTo(p.groups[n].members[j], Following(p.groups[n].members[j].entry, t))]]
           G == [n \in DOMAIN p.groups |->
                   GroupTo(p.groups[n], Following(p.groups[n].keeper, t), members[n])]
           E == [i \in DOMAIN p.excluded |-> Following(p.excluded[i], t)]
<1>3. CanonicalRoots(p) = [[p EXCEPT !.actions = A, !.groups = G, !.excluded = E] EXCEPT !.roots = u]
  BY <1>8, <1>9 DEF CanonicalRoots, EachEntry
<1> HIDE DEF R
<1>4. A = p.actions
  <2>1. ASSUME NEW i \in DOMAIN p.actions PROVE A[i] = p.actions[i]
    <3>1. ActionOk(p.actions[i], R)
      BY <1>1 DEF ActionsOk
    <3>2. Following(p.actions[i].dest, t) = p.actions[i].dest
      BY <1>2, <3>1 DEF ActionOk
    <3>3. (IF HasSource(p.actions[i]) THEN Following(p.actions[i].source, t) ELSE NoValue) = p.actions[i].source
      BY <1>2, <3>1 DEF ActionOk
    <3>4. A[i] = ActionTo(p.actions[i], p.actions[i].dest, p.actions[i].source)
      BY <3>2, <3>3
    <3> HIDE DEF A
    <3> QED
      BY <3>1, <3>4, ActionToSame
  <2>2. p.actions = [i \in DOMAIN p.actions |-> p.actions[i]]
    BY <1>1, VecIs DEF ActionsOk
  <2>3. A = [i \in DOMAIN p.actions |-> A[i]]
    OBVIOUS
  <2> HIDE DEF A
  <2> QED
    BY <2>1, <2>2, <2>3
<1>5. ASSUME NEW n \in DOMAIN p.groups PROVE members[n] = p.groups[n].members
  <2>1. MembersOk(p.groups[n].members, R)
    BY <1>1 DEF GroupsOk, GroupOk
  <2>2. ASSUME NEW j \in DOMAIN p.groups[n].members PROVE members[n][j] = p.groups[n].members[j]
    <3>1. MemberOk(p.groups[n].members[j], R)
      BY <2>1 DEF MembersOk
    <3>2. Following(p.groups[n].members[j].entry, t) = p.groups[n].members[j].entry
      BY <1>2, <3>1 DEF MemberOk
    <3>3. members[n][j] = MemberTo(p.groups[n].members[j], p.groups[n].members[j].entry)
      BY <3>2
    <3> HIDE DEF members
    <3> QED
      BY <3>1, <3>3, MemberToSame
  <2>3. p.groups[n].members = [j \in DOMAIN p.groups[n].members |-> p.groups[n].members[j]]
    BY <2>1, VecIs DEF MembersOk
  <2>4. members[n] = [j \in DOMAIN p.groups[n].members |-> members[n][j]]
    OBVIOUS
  <2> HIDE DEF members
  <2> QED
    BY <2>2, <2>3, <2>4
<1>6. G = p.groups
  <2>1. ASSUME NEW n \in DOMAIN p.groups PROVE G[n] = p.groups[n]
    <3>1. GroupOk(p.groups[n], R)
      BY <1>1 DEF GroupsOk
    <3>2. Following(p.groups[n].keeper, t) = p.groups[n].keeper
      BY <1>2, <3>1 DEF GroupOk
    <3> HIDE DEF members
    <3>3. G[n] = GroupTo(p.groups[n], p.groups[n].keeper, p.groups[n].members)
      BY <1>5, <3>2
    <3> HIDE DEF G
    <3> QED
      BY <3>1, <3>3, GroupToSame
  <2>2. p.groups = [n \in DOMAIN p.groups |-> p.groups[n]]
    BY <1>1, VecIs DEF GroupsOk
  <2>3. G = [n \in DOMAIN p.groups |-> G[n]]
    OBVIOUS
  <2> HIDE DEF G
  <2> QED
    BY <2>1, <2>2, <2>3
<1>7. E = p.excluded
  <2>1. p.excluded = [n \in DOMAIN p.excluded |-> p.excluded[n]]
    BY <1>1, VecIs DEF ExcludedOk
  <2> QED
    BY <1>1, <1>2, <2>1 DEF ExcludedOk
<1> HIDE DEF A, G, E, members
<1> QED
  BY <1>1, <1>3, <1>4, <1>6, <1>7, <1>10, DocSame

LEMMA StagedClosed ==
  ASSUME NEW p, Staged(p, TRUE)
  PROVE  RootsClosed(p)
<1> DEFINE R == Scope(Ids(p.roots), TRUE)
           N == Len(p.roots)
<1>1. /\ ActionsOk(p.actions, R) /\ GroupsOk(p.groups, R) /\ ExcludedOk(p.excluded, R)
      /\ RootsDone(p.roots)
  BY DEF Staged
<1>2. N \in Nat /\ DOMAIN p.roots = 1 .. N
  BY <1>1, VecIs DEF RootsDone, RootsOk
<1>3. RootIds(p) = 0 .. N - 1
  <2>1. RootIds(p) = {p.roots[n].id : n \in 1 .. N}
    BY <1>2 DEF RootIds, Elements
  <2>2. \A n \in 1 .. N : p.roots[n].id = n - 1
    BY <1>1, <1>2 DEF RootsDone
  <2>3. \A i \in 0 .. N - 1 : i + 1 \in 1 .. N /\ p.roots[i + 1].id = i
    BY <1>2, <2>2
  <2> HIDE DEF N
  <2>4. \A id \in RootIds(p) : id \in 0 .. N - 1
    BY <1>2, <2>1, <2>2
  <2>5. \A id \in 0 .. N - 1 : id \in RootIds(p)
    BY <2>1, <2>3
  <2> QED
    BY <2>4, <2>5
<1>4. Cardinality(RootIds(p)) = N
  BY <1>2, <1>3, FS_Interval
<1>5. \A e : EntryOk(e, R) \/ DestOk(e, R) => e.root \in 0 .. N - 1
  BY DEF EntryOk, DestOk, In, Scope, Ids
<1> HIDE DEF R
<1>6. {a.dest.root : a \in Elements(p.actions)} \subseteq 0 .. N - 1
  BY <1>1, <1>5 DEF Elements, ActionsOk, ActionOk
<1>7. {e.root : e \in Elements(p.excluded)} \subseteq 0 .. N - 1
  BY <1>1, <1>5 DEF Elements, ExcludedOk
<1>8. \A e \in Referenced(p) : EntryOk(e, R)
  <2>1. \A e \in ActionEntries(p) : EntryOk(e, R)
    <3>1. \A a \in Elements(p.actions) : HasSource(a) => EntryOk(a.source, R)
      BY <1>1 DEF Elements, ActionsOk, ActionOk
    <3> QED
      BY <3>1 DEF ActionEntries
  <2>2. ASSUME NEW g \in Elements(p.groups) PROVE \A e \in GroupEntries(g) : EntryOk(e, R)
    <3>1. GroupOk(g, R)
      BY <1>1 DEF GroupsOk, Elements
    <3> QED
      BY <3>1 DEF GroupOk, GroupEntries, MembersOk, MemberOk, Elements
  <2> QED
    BY <2>1, <2>2 DEF Referenced
<1> QED
  BY <1>3, <1>4, <1>5, <1>6, <1>7, <1>8 DEF RootsClosed, RootRefs

-----------------------------------------------------------------------------
(***************************************************************************)
(* Canonicalize makes a canonical document of a draft, and leaves it.      *)
(***************************************************************************)
\* A document with one of its parts replaced keeps the others.
WithActions(p, x) == [p EXCEPT !.actions = x]
WithGroups(p, x) == [p EXCEPT !.groups = x]
WithExcluded(p, x) == [p EXCEPT !.excluded = x]
WithSummary(p, x) == [p EXCEPT !.summary = x]
SameParts(p, q, parts) == DocOk(q) /\ \A part \in parts : q[part] = p[part]

LEMMA WithPart ==
  ASSUME NEW p, DocOk(p), NEW x
  PROVE  /\ LET q == WithActions(p, x) IN
            SameParts(p, q, {"roots", "groups", "excluded", "summary"}) /\ q.actions = x
         /\ LET q == WithGroups(p, x) IN
            SameParts(p, q, {"roots", "actions", "excluded", "summary"}) /\ q.groups = x
         /\ LET q == WithExcluded(p, x) IN
            SameParts(p, q, {"roots", "actions", "groups", "summary"}) /\ q.excluded = x
         /\ LET q == WithSummary(p, x) IN
            SameParts(p, q, {"roots", "actions", "groups", "excluded"}) /\ q.summary = x
BY DEF WithActions, WithGroups, WithExcluded, WithSummary, SameParts, DocOk, IsStruct, Has

LEMMA StepsAre ==
  ASSUME NEW p, DocOk(p)
  PROVE  /\ Conflicted(p) = WithActions(p, [i \in DOMAIN p.actions |-> Settled(p.actions, i)])
         /\ CanonicalGroups(p) = WithGroups(p, GroupsOf(p.groups))
         /\ CanonicalActions(p) = WithActions(p, ActionsOf(p.actions))
         /\ ExcludedSorted(p) = WithExcluded(p, StableSort(p.excluded, EntryKey))
         /\ Summarized(p) = WithSummary(p, SummaryOf(p.actions, p.groups, p.excluded))
BY DEF Conflicted, CanonicalGroups, CanonicalActions, ExcludedSorted, Summarized,
       WithActions, WithGroups, WithExcluded, WithSummary, GroupsOf, ActionsOf

LEMMA CanonicalSettles ==
  ASSUME NEW d, IsDraft(d), RootsClosed(d)
  PROVE  Settles(Canonicalize(d))
<1>1. PICK p1 : p1 = CanonicalRoots(d)
  OBVIOUS
<1>2. Staged(p1, FALSE) /\ \A i \in DOMAIN p1.actions : p1.actions[i].conflict = NoValue
  BY <1>1, RootsStage
<1> DEFINE R == Scope(Ids(p1.roots), FALSE)
<1>3. R.shown = FALSE /\ R.ids \subseteq Int
  BY DEF Scope, Ids
<1>4. PICK p2 : p2 = Conflicted(p1)
  OBVIOUS
<1>5. DocOk(p1) /\ RootsDone(p1.roots) /\ ActionsOk(p1.actions, R)
      /\ GroupsOk(p1.groups, R) /\ ExcludedOk(p1.excluded, R)
  BY <1>2 DEF Staged
<1>6. PICK x : x = [i \in DOMAIN p1.actions |-> Settled(p1.actions, i)]
  OBVIOUS
<1> HIDE DEF R
<1>7. ActionsOk(x, R) /\ SettledOk(x)
  BY <1>2, <1>3, <1>5, <1>6, SettleStage
<1>8. p2 = WithActions(p1, x)
  BY <1>4, <1>5, <1>6, StepsAre
<1>9. /\ DocOk(p2) /\ p2.roots = p1.roots /\ p2.groups = p1.groups
      /\ p2.excluded = p1.excluded /\ p2.actions = x
  BY <1>5, <1>8, WithPart DEF SameParts
<1>10. Staged(p2, FALSE) /\ SettledOk(p2.actions)
  BY <1>5, <1>7, <1>9 DEF Staged, R
<1>11. PICK p3 : p3 = Displayed(p2)
  OBVIOUS
<1>12. Staged(p3, TRUE) /\ SettledOk(p3.actions)
  BY <1>10, <1>11, ShownStage
<1> DEFINE S == Scope(Ids(p3.roots), TRUE)
<1>13. S.ids \subseteq Int
  BY DEF Scope, Ids
<1>14. DocOk(p3) /\ RootsDone(p3.roots) /\ ActionsOk(p3.actions, S)
       /\ GroupsOk(p3.groups, S) /\ ExcludedOk(p3.excluded, S)
  BY <1>12 DEF Staged
<1>15. PICK p4 : p4 = CanonicalGroups(p3)
  OBVIOUS
<1>16. PICK g : g = GroupsOf(p3.groups)
  OBVIOUS
<1> HIDE DEF S
<1>17. GroupsOk(g, S) /\ GroupsDone(g)
  BY <1>13, <1>14, <1>16, GroupsStage
<1>18. p4 = WithGroups(p3, g)
  BY <1>14, <1>15, <1>16, StepsAre
<1>19. /\ DocOk(p4) /\ p4.roots = p3.roots /\ p4.actions = p3.actions
       /\ p4.excluded = p3.excluded /\ p4.groups = g
  BY <1>14, <1>18, WithPart DEF SameParts
<1>20. PICK p5 : p5 = CanonicalActions(p4)
  OBVIOUS
<1>21. PICK a : a = ActionsOf(p3.actions)
  OBVIOUS
<1>22. ActionsOk(a, S) /\ SettledOk(a) /\ ActionsDone(a)
  BY <1>12, <1>13, <1>14, <1>21, ActionsStage
<1>23. p5 = WithActions(p4, a)
  BY <1>19, <1>20, <1>21, StepsAre
<1>24. /\ DocOk(p5) /\ p5.roots = p3.roots /\ p5.groups = g
       /\ p5.excluded = p3.excluded /\ p5.actions = a
  BY <1>19, <1>23, WithPart DEF SameParts
<1>25. PICK p6 : p6 = ExcludedSorted(p5)
  OBVIOUS
<1>26. PICK e : e = StableSort(p3.excluded, EntryKey)
  OBVIOUS
<1>27. ExcludedOk(e, S) /\ ExcludedDone(e)
  BY <1>13, <1>14, <1>26, ExcludedStage
<1>28. p6 = WithExcluded(p5, e)
  BY <1>24, <1>25, <1>26, StepsAre
<1>29. /\ DocOk(p6) /\ p6.roots = p3.roots /\ p6.groups = g
       /\ p6.actions = a /\ p6.excluded = e
  BY <1>24, <1>28, WithPart DEF SameParts
<1>30. PICK c : c = Summarized(p6)
  OBVIOUS
<1>31. c = WithSummary(p6, SummaryOf(a, g, e))
  BY <1>29, <1>30, StepsAre
<1>32. /\ DocOk(c) /\ c.roots = p3.roots /\ c.groups = g
       /\ c.actions = a /\ c.excluded = e /\ c.summary = SummaryOf(a, g, e)
  BY <1>29, <1>31, WithPart DEF SameParts
<1>33. Staged(c, TRUE)
  BY <1>14, <1>17, <1>22, <1>27, <1>32 DEF Staged, S
<1>34. Settles(c)
  BY <1>17, <1>22, <1>27, <1>32, <1>33 DEF Settles
<1>35. Canonicalize(d) = c
  BY <1>1, <1>4, <1>11, <1>15, <1>20, <1>25, <1>30 DEF Canonicalize
<1> QED
  BY <1>34, <1>35

LEMMA SettlesVerified ==
  ASSUME NEW p, Settles(p)
  PROVE  VerifyDerived(p)
<1> DEFINE S == Scope(Ids(p.roots), TRUE)
<1>1. S.ids \subseteq Int
  BY DEF Scope, Ids
<1>2. /\ Staged(p, TRUE) /\ SettledOk(p.actions) /\ ActionsDone(p.actions)
      /\ GroupsDone(p.groups) /\ ExcludedDone(p.excluded)
      /\ p.summary = SummaryOf(p.actions, p.groups, p.excluded)
  BY DEF Settles
<1>3. DocOk(p) /\ ActionsOk(p.actions, S) /\ GroupsOk(p.groups, S) /\ ExcludedOk(p.excluded, S)
  BY <1>2 DEF Staged
<1> HIDE DEF S
<1>4. CanonicalRoots(p) = p /\ Displayed(p) = p /\ RootsClosed(p)
  BY <1>2, RootsFixed, ShownFixed, StagedClosed
<1>5. PICK a, g, e : a = p.actions /\ g = p.groups /\ e = p.excluded
  OBVIOUS
<1>6. /\ [i \in DOMAIN a |-> Settled(a, i)] = a
      /\ \A i \in DOMAIN a : Strippable(a[i])
  BY <1>2, <1>3, <1>5, SettledFixed
<1>7. Conflicted(p) = p
  <2>1. Conflicted(p) = WithActions(p, [i \in DOMAIN p.actions |-> Settled(p.actions, i)])
    BY <1>3, StepsAre
  <2>2. [i \in DOMAIN p.actions |-> Settled(p.actions, i)] = p.actions
    BY <1>5, <1>6
  <2>3. WithActions(p, p.actions) = p
    BY <1>3, DocSame DEF WithActions
  <2> QED
    BY <2>1, <2>2, <2>3
<1>8. GroupsOf(g) = g
  BY <1>1, <1>2, <1>3, <1>5, GroupsStage
<1>9. CanonicalGroups(p) = p
  BY <1>3, <1>5, <1>8, StepsAre, DocSame DEF WithGroups
<1>10. ActionsOf(a) = a
  BY <1>1, <1>2, <1>3, <1>5, ActionsStage
<1>11. CanonicalActions(p) = p
  BY <1>3, <1>5, <1>10, StepsAre, DocSame DEF WithActions
<1>12. PICK f : f = StableSort(e, EntryKey)
  OBVIOUS
<1>13. f = e
  BY <1>1, <1>2, <1>3, <1>5, <1>12, ExcludedStage
<1>14. ExcludedSorted(p) = p
  <2>1. ExcludedSorted(p) = WithExcluded(p, f)
    BY <1>3, <1>5, <1>12, StepsAre
  <2>2. WithExcluded(p, p.excluded) = p
    BY <1>3, DocSame DEF WithExcluded
  <2> QED
    BY <1>5, <1>13, <2>1, <2>2
<1>15. Summarized(p) = p
  BY <1>2, <1>3, StepsAre, DocSame DEF WithSummary
<1>16. Canonicalize(p) = p
  BY <1>4, <1>7, <1>9, <1>11, <1>14, <1>15 DEF Canonicalize
<1>17. \A b \in Elements(p.actions) : Strippable(b)
  BY <1>5, <1>6 DEF Elements
<1> QED
  BY <1>4, <1>16, <1>17 DEF VerifyDerived, Canonicalizable

LEMMA CanonicalIsFixed ==
  ASSUME NEW d, IsDraft(d), Canonicalizable(d)
  PROVE  VerifyDerived(Canonicalize(d))
<1>1. RootsClosed(d)
  BY DEF Canonicalizable
<1> QED
  BY <1>1, CanonicalSettles, SettlesVerified

-----------------------------------------------------------------------------
(***************************************************************************)
(* What is built is a draft, and what is written is canonical.             *)
(***************************************************************************)
Made ==
  /\ plan.step = "build" => IsDraft(plan.doc)
  /\ plan.step = "write" => VerifyDerived(plan.doc)

LEMMA InitMade == PlanInit => Made
<1> SUFFICES ASSUME PlanInit PROVE Made
  OBVIOUS
<1>1. PICK i \in DOMAIN PlanJobs : \E draft \in PlanJobs[i].drafts :
        plan.step = "build" /\ plan.doc = draft
  BY DEF PlanInit
<1> QED
  BY <1>1, PlanAssumption DEF Made, PlanAssumption

LEMMA StepMade == PlanInv /\ Made /\ [PlanNext]_planVars => Made'
<1> SUFFICES ASSUME PlanInv, Made, [PlanNext]_planVars PROVE Made'
  OBVIOUS
<1>1. PlanFields
  BY DEF PlanInv
<1>2. CASE Build
  <2>1. IsDraft(plan.doc)
    BY <1>2 DEF Made, Build, PlanAt
  <2>2. CASE Canonicalizable(plan.doc)
    <3>1. plan'.step = "write" /\ plan'.doc = Canonicalize(plan.doc)
      BY <1>1, <1>2, <2>2 DEF Build, PlanFields
    <3>2. VerifyDerived(Canonicalize(plan.doc))
      BY <2>1, <2>2, CanonicalIsFixed
    <3> QED
      BY <3>1, <3>2 DEF Made
  <2>3. CASE ~Canonicalizable(plan.doc)
    <3>1. plan'.step = "refused"
      BY <1>1, <1>2, <2>3 DEF Build, PlanRefused, PlanFields
    <3> QED
      BY <3>1 DEF Made
  <2> QED
    BY <2>2, <2>3
<1>3. CASE Write \/ Inspect \/ Open \/ Read \/ VerifyRoot \/ GatherEntries \/ VerifyEntry \/ Accept
  <2>1. plan'.step \notin {"build", "write"}
    BY <1>1, <1>3 DEF PlanFields, Write, Inspect, Open, Read, VerifyRoot, GatherEntries, VerifyEntry,
                      Accept, PlanAt, PlanRefused
  <2> QED
    BY <2>1 DEF Made
<1>4. CASE PaperChanges \/ DiskChanges
  <2>1. plan'.step = plan.step /\ plan.step \notin {"build", "write"}
    BY <1>1, <1>4 DEF PlanFields, PaperChanges, DiskChanges
  <2> QED
    BY <2>1 DEF Made
<1>5. CASE UNCHANGED planVars
  BY <1>5 DEF planVars, Made
<1> QED
  BY <1>2, <1>3, <1>4, <1>5 DEF PlanNext, PlanCommand

\* A canonical plan is left as it is when it is canonicalized once more, so what a
\* builder makes of its draft stands the check of write_plan and of the loader
\* (BuildSettles: canonicalize, verify_derived).
THEOREM BuildIsSettled == PlanSpec => []BuildSettles
<1>1. PlanInit => Made
  BY InitMade
<1>2. PlanInv /\ Made /\ [PlanNext]_planVars => Made'
  BY StepMade
<1>3. Made => BuildSettles
  BY DEF Made, BuildSettles
<1> QED
  BY <1>1, <1>2, <1>3, PlanInvariant, PTL DEF PlanSpec

=============================================================================
