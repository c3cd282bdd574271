--------------------------- MODULE MasterProofs ---------------------------
(***************************************************************************)
(* Theorems about MasterCatalog for any number of sessions, paths, indexes *)
(* and archive_ids.  CatalogInv is the inductive invariant.  A step either *)
(* changes one session only (LocalStep), or one row with no other writer   *)
(* about (RowStep), or the files and clocks outside (OutsideStep).         *)
(*                                                                         *)
(* At the end, theorems about MasterOpening: OpensOwn holds of every       *)
(* number of sessions and every file that may stand under the path.  The   *)
(* invariant says, for each maker of that file, how far a session may get  *)
(* with it, and for each step of a session, what the catalog has by then:  *)
(* tables and columns only ever come.                                      *)
(***************************************************************************)
EXTENDS MasterCatalog, MasterOpening, TLAPS

USE CatalogAssumption DEF CatalogAssumption, Id

\* The empty row and the idle session have their types.
\* Where a session is in the middle of a registration, and where it is the writer.
USE DEF MidAdd, WriterPC

LEMMA NoRowTyped == NoRow \in Row
BY DEF NoRow, Row

LEMMA IdleTyped == Idle \in SessionState
BY NoRowTyped DEF Idle, SessionState, PC, Status, AllCommands

\* A row is either empty or names an index and a path.
LEMMA RowNamed ==
  ASSUME NEW r \in Row
  PROVE  /\ r.uuid \in Uuid \union {None} /\ r.path \in Path \union {None}
         /\ r.status \in Status /\ r.aged \in BOOLEAN
         /\ r # NoRow => r.uuid \in Uuid /\ r.path \in Path
         /\ r.uuid = None => r = NoRow
<1>1. CASE r = NoRow
  <2>1. r.uuid = None /\ r.path = None /\ r.status = "db-missing" /\ r.aged = FALSE
    BY <1>1 DEF NoRow
  <2> QED
    BY <1>1, <2>1 DEF Status
<1>2. CASE r \in [uuid : Uuid, path : Path, status : Status, aged : BOOLEAN]
  <2>1. r.uuid \in Uuid /\ r.path \in Path /\ r.status \in Status /\ r.aged \in BOOLEAN
    BY <1>2
  <2> QED
    BY <2>1
<1> QED
  BY <1>1, <1>2 DEF Row

\* A registered row stays a row of the same index under any status and stamp.
LEMMA MarkedRow ==
  ASSUME TypeOK, NEW i \in Id, Registered(i), NEW st \in Status
  PROVE  LET marked == [archives[i] EXCEPT !.status = st]
             fresh == [archives[i] EXCEPT !.status = st, !.aged = FALSE]
         IN /\ marked \in Row /\ marked.uuid = archives[i].uuid
            /\ fresh \in Row /\ fresh.uuid = archives[i].uuid
<1> DEFINE r == archives[i]
           Full == [uuid : Uuid, path : Path, status : Status, aged : BOOLEAN]
<1>1. r \in Row /\ r.uuid # None
  BY DEF TypeOK, Registered
<1>2. r \in Full
  BY <1>1 DEF Row, NoRow
<1> HIDE DEF r
<1>3. [r EXCEPT !.status = st] \in Full /\ [r EXCEPT !.status = st].uuid = r.uuid
  BY <1>2
<1>4. /\ [r EXCEPT !.status = st, !.aged = FALSE] \in Full
      /\ [r EXCEPT !.status = st, !.aged = FALSE].uuid = r.uuid
  BY <1>2
<1>5. Full \subseteq Row
  BY DEF Row
<1> QED
  BY <1>3, <1>4, <1>5 DEF r

\* The status an index gives its row is one of the six.
LEMMA StatusTyped == \A u : StatusOf(u) \in Status /\ Completeness(u) \in Status
BY DEF StatusOf, Completeness, Status

\* What a session goes on with after a step is a session state at no index.
LEMMA ResumeTyped ==
  ASSUME TypeOK, NEW s \in Session
  PROVE  /\ Resume(s) \in SessionState
         /\ Resume(s).pc \in {"done", "next"}
<1>1. sess[s] \in SessionState
  BY DEF TypeOK
<1>2. [Idle EXCEPT !.pc = "done", !.cmd = sess[s].cmd, !.alone = sess[s].alone]
        \in SessionState
  BY <1>1, IdleTyped DEF SessionState, PC
<1>3. [Idle EXCEPT !.pc = "next", !.cmd = sess[s].cmd, !.list = sess[s].list,
                   !.cur = sess[s].cur, !.alone = sess[s].alone] \in SessionState
  BY <1>1, IdleTyped DEF SessionState, PC
<1> QED
  BY <1>2, <1>3 DEF Resume, Idle

\* What is said of the tables alone holds as long as they are unchanged.
LEMMA SameTables ==
  ASSUME CatalogInv, UNCHANGED <<archives, replica, emptied>>
  PROVE  ReplicaCoherent' /\ Replicated' /\ UniqueUuid'
BY DEF CatalogInv, ReplicaCoherent, Replicated, UniqueUuid, Registered, RowsOf

\* A step of one session that writes nothing preserves the invariant, if what
\* the session has in hand afterwards is real and it is the only writer.
LEMMA LocalStep ==
  ASSUME CatalogInv, NEW s \in Session, NEW next \in SessionState, Local(s, next),
         InHand(next), next.pc \in WriterPC => ~WriteLocked(s)
  PROVE  CatalogInv'
<1>1. /\ sess' = [sess EXCEPT ![s] = next] /\ sess \in [Session -> SessionState]
      /\ UNCHANGED <<archives, replica, disk, locked, seen, now, budget, moved, emptied, longGone>>
  BY DEF CatalogInv, TypeOK, Local, master, world
<1>2. TypeOK'
  BY <1>1 DEF CatalogInv, TypeOK
<1>3. ReplicaCoherent' /\ Replicated' /\ UniqueUuid'
  BY <1>1, SameTables
<1>4. SessionsInHand'
  BY <1>1 DEF CatalogInv, SessionsInHand, InHand
<1>5. OneWriter'
  BY <1>1 DEF CatalogInv, OneWriter, WriteLocked, Writing
<1> QED
  BY <1>2, <1>3, <1>4, <1>5 DEF CatalogInv

\* After a commit of session s the others hold what they held, except that
\* their snapshots and the claim to be alone are no longer true.
LEMMA CommittedTyped ==
  ASSUME TypeOK, NEW s \in Session, NEW next \in SessionState,
         NEW touched \in BOOLEAN, Committed(s, next, touched)
  PROVE  /\ sess' \in [Session -> SessionState] /\ sess'[s] = next
         /\ \A t \in Session \ {s} :
              /\ sess'[t].pc = sess[t].pc /\ sess'[t].path = sess[t].path
              /\ sess'[t].uuid = sess[t].uuid /\ sess'[t].target = sess[t].target
              /\ sess'[t].intact = sess[t].intact /\ sess'[t].list = sess[t].list
              /\ sess'[t].cur = sess[t].cur
<1>1. \A t \in Session : sess[t] \in SessionState
  BY DEF TypeOK
<1>2. \A t \in Session :
        [sess[t] EXCEPT !.current = FALSE, !.alone = FALSE] \in SessionState
  BY <1>1 DEF SessionState
<1>3. \A t \in Session \ {s} :
        sess'[t] \in {sess[t], [sess[t] EXCEPT !.current = FALSE, !.alone = FALSE]}
  BY DEF Committed
<1>4. sess'[s] = next
  BY DEF Committed
<1>5. sess' \in [Session -> SessionState]
  BY <1>1, <1>2 DEF Committed
<1>6. \A t \in Session :
        LET r == [sess[t] EXCEPT !.current = FALSE, !.alone = FALSE]
        IN /\ r.pc = sess[t].pc /\ r.path = sess[t].path /\ r.uuid = sess[t].uuid
           /\ r.target = sess[t].target /\ r.intact = sess[t].intact
           /\ r.list = sess[t].list /\ r.cur = sess[t].cur
  BY <1>1 DEF SessionState
<1> QED
  BY <1>3, <1>4, <1>5, <1>6, ZenonT(40)

\* An UPDATE of one row that keeps its index preserves the invariant: it waits
\* while another session is about to commit.
LEMMA RowStep ==
  ASSUME CatalogInv, NEW s \in Session, NEW i \in 0..MaxId, NEW row,
         NEW next \in SessionState, UpdateRow(s, i, row, next),
         i \in Id /\ Registered(i) => row \in Row /\ row.uuid = archives[i].uuid,
         next.pc \notin {"identify", "open", "dropFiles", "dropRow"} \union MidAdd
  PROVE  CatalogInv'
<1> USE DEF CatalogInv
<1>1. /\ archives' \in [Id -> Row]
      /\ \A j \in Id : archives'[j].uuid = archives[j].uuid
  BY DEF UpdateRow, TypeOK
<1>2. Registered(i) \in BOOLEAN
  BY DEF Registered
<1>3. /\ sess' \in [Session -> SessionState] /\ sess'[s] = next
      /\ \A t \in Session \ {s} :
           /\ sess'[t].pc = sess[t].pc /\ sess'[t].path = sess[t].path
           /\ sess'[t].uuid = sess[t].uuid /\ sess'[t].target = sess[t].target
           /\ sess'[t].intact = sess[t].intact /\ sess'[t].list = sess[t].list
           /\ sess'[t].cur = sess[t].cur
  BY <1>2, CommittedTyped DEF UpdateRow
<1>4. UNCHANGED <<replica, emptied, disk, locked, seen, now, budget, moved, longGone>>
  BY DEF UpdateRow, world
<1>5. TypeOK'
  BY <1>1, <1>3, <1>4 DEF TypeOK
<1>6. ReplicaCoherent' /\ Replicated' /\ UniqueUuid'
  BY <1>1, <1>4 DEF ReplicaCoherent, Replicated, UniqueUuid, Registered, RowsOf
<1>7. SessionsInHand'
  BY <1>1, <1>3, <1>4 DEF SessionsInHand, InHand
<1>8. OneWriter'
  BY <1>3 DEF OneWriter, Writing, At
<1> QED
  BY <1>5, <1>6, <1>7, <1>8

-----------------------------------------------------------------------------
\* A local step to a point where the session has nothing in hand.
LEMMA QuietStep ==
  ASSUME CatalogInv, NEW s \in Session, NEW next \in SessionState, Local(s, next),
         next.pc \notin {"identify", "open", "dropFiles", "dropRow"} \union MidAdd
  PROVE  CatalogInv'
<1>1. InHand(next) /\ (next.pc \in WriterPC => ~WriteLocked(s))
  BY DEF InHand
<1> QED
  BY <1>1, LocalStep

\* The error return preserves the invariant.
LEMMA FailStep ==
  ASSUME CatalogInv, NEW s \in Session, Fail(s)
  PROVE  CatalogInv'
<1>1. Idle.pc = "idle"
  BY DEF Idle
<1> QED
  BY <1>1, IdleTyped, QuietStep DEF Fail

LEMMA RollbackFails == \A s : Rollback(s) => Fail(s)
BY DEF Rollback

\* So does going on to the next row or returning.
LEMMA ResumeStep ==
  ASSUME CatalogInv, NEW s \in Session, Local(s, Resume(s))
  PROVE  CatalogInv'
BY ResumeTyped, QuietStep DEF CatalogInv

\* The steps of add before its COMMIT.
LEMMA AddLocal ==
  ASSUME CatalogInv, NEW s \in Session,
         \/ \E p \in Path : StartAdd(s, p)
         \/ OpenIndex(s) \/ OpenRefused(s) \/ Lookup(s) \/ Upsert(s)
         \/ UpsertRefused(s) \/ FinishJournal(s) \/ FinishStamp(s) \/ Rollback(s)
  PROVE  CatalogInv'
<1>1. sess[s] \in SessionState
  BY DEF CatalogInv, TypeOK
<1>2. ASSUME NEW p \in Path, StartAdd(s, p)
      PROVE  CatalogInv'
  <2> DEFINE next == [Idle EXCEPT !.pc = "open", !.cmd = "add", !.path = p]
  <2>1. next \in SessionState
    BY IdleTyped DEF SessionState, PC, AllCommands
  <2>2. next.pc = "open" /\ next.path = p
    BY DEF Idle
  <2>3. InHand(next) /\ next.pc \notin WriterPC
    BY <2>2 DEF InHand
  <2> QED
    BY <1>2, <2>1, <2>3, LocalStep DEF StartAdd
<1>3. CASE OpenIndex(s)
  <2> DEFINE next == [sess[s] EXCEPT !.pc = "lookup", !.uuid = disk[sess[s].path],
                                     !.intact = TRUE]
  <2>1. sess[s].path \in Path
    BY <1>1, <1>3 DEF CatalogInv, SessionsInHand, InHand, OpenIndex, At, SessionState
  <2>2. disk[sess[s].path] \in Uuid
    BY <1>3, <2>1 DEF CatalogInv, TypeOK, OpenIndex, Readable
  <2>3. next \in SessionState
    BY <1>1, <2>2 DEF SessionState, PC
  <2>4. next.pc = "lookup" /\ next.path = sess[s].path /\ next.uuid = disk[sess[s].path]
    BY <1>1 DEF SessionState
  <2>5. InHand(next) /\ next.pc \notin WriterPC
    BY <2>1, <2>2, <2>4 DEF InHand
  <2> QED
    BY <1>3, <2>3, <2>5, LocalStep DEF OpenIndex
<1>4. CASE OpenRefused(s) \/ UpsertRefused(s) \/ Rollback(s)
  BY <1>4, FailStep DEF OpenRefused, UpsertRefused, Rollback
<1>5. CASE Lookup(s)
  <2>1. PICK i \in 0..MaxId :
          Local(s, [sess[s] EXCEPT !.pc = "upsert", !.target = i, !.current = TRUE])
    BY <1>5 DEF Lookup
  <2> DEFINE next == [sess[s] EXCEPT !.pc = "upsert", !.target = i, !.current = TRUE]
  <2>2. next \in SessionState
    BY <1>1 DEF SessionState, PC
  <2>3. /\ next.pc = "upsert" /\ next.path = sess[s].path
        /\ next.uuid = sess[s].uuid /\ next.intact = sess[s].intact
    BY <1>1 DEF SessionState
  <2>4. InHand(sess[s]) /\ sess[s].pc = "lookup"
    BY <1>5 DEF CatalogInv, SessionsInHand, Lookup, At
  <2>5. InHand(next) /\ next.pc \notin WriterPC
    BY <2>3, <2>4 DEF InHand
  <2> QED
    BY <2>1, <2>2, <2>5, LocalStep
<1>6. CASE Upsert(s)
  <2>1. PICK i \in Id :
          /\ IF sess[s].target = 0 THEN IsNewRowid(i) ELSE i = sess[s].target
          /\ Local(s, [sess[s] EXCEPT !.pc = "finish", !.target = i])
    BY <1>6 DEF Upsert
  <2> DEFINE next == [sess[s] EXCEPT !.pc = "finish", !.target = i]
  <2>2. next \in SessionState
    <3>1. i \in 0..MaxId
      BY <2>1
    <3> QED
      BY <1>1, <3>1 DEF SessionState, PC
  <2>3. /\ next.pc = "finish" /\ next.path = sess[s].path /\ next.target = i
        /\ next.uuid = sess[s].uuid /\ next.intact = sess[s].intact
    BY <1>1 DEF SessionState
  <2>4. InHand(sess[s]) /\ sess[s].pc = "upsert" /\ UuidIsFree(s) /\ ~WriteLocked(s)
    BY <1>6 DEF CatalogInv, SessionsInHand, Upsert, At
  <2>5. \A j \in Id \ {i} : archives[j].uuid # sess[s].uuid
    BY <2>1, <2>4 DEF UuidIsFree
  <2>6. InHand(next)
    BY <2>3, <2>4, <2>5 DEF InHand
  <2> QED
    BY <2>1, <2>2, <2>4, <2>6, LocalStep
<1>7. CASE FinishJournal(s) \/ FinishStamp(s)
  <2>1. PICK pc \in {"stamp", "commit"} : Local(s, [sess[s] EXCEPT !.pc = pc])
    BY <1>7 DEF FinishJournal, FinishStamp
  <2> DEFINE next == [sess[s] EXCEPT !.pc = pc]
  <2>2. next \in SessionState
    BY <1>1 DEF SessionState, PC
  <2>3. /\ next.pc = pc /\ next.path = sess[s].path /\ next.target = sess[s].target
        /\ next.uuid = sess[s].uuid /\ next.intact = sess[s].intact
    BY <1>1 DEF SessionState
  <2>4. InHand(sess[s]) /\ Writing(s)
    BY <1>7 DEF CatalogInv, SessionsInHand, FinishJournal, FinishStamp, At, Writing
  <2>5. InHand(next)
    BY <2>3, <2>4 DEF InHand, Writing
  <2>6. ~WriteLocked(s)
    BY <2>4 DEF CatalogInv, OneWriter, WriteLocked
  <2> QED
    BY <2>1, <2>2, <2>5, <2>6, LocalStep
<1> QED
  BY <1>2, <1>3, <1>4, <1>5, <1>6, <1>7

\* COMMIT of add: the only writer replaces one row and its file rows.
LEMMA AddCommit ==
  ASSUME CatalogInv, NEW s \in Session, Commit(s)
  PROVE  CatalogInv'
<1> DEFINE k == sess[s].target
           row == [uuid |-> sess[s].uuid, path |-> sess[s].path,
                   status |-> StatusOf(sess[s].uuid), aged |-> FALSE]
<1>1. sess[s] \in SessionState /\ InHand(sess[s]) /\ At(s, "commit")
  BY DEF CatalogInv, TypeOK, SessionsInHand, Commit
<1>2. /\ k \in Id /\ sess[s].uuid \in Uuid /\ sess[s].path \in Path
      /\ \A j \in Id \ {k} : archives[j].uuid # sess[s].uuid
  BY <1>1 DEF InHand, At, SessionState
<1>3. row \in Row
  BY <1>2, StatusTyped DEF Row
<1>4. /\ archives' = [archives EXCEPT ![k] = row]
      /\ replica' = [replica EXCEPT ![k] = RowsRead(s)]
      /\ emptied' = emptied \ {k}
      /\ UNCHANGED <<disk, locked, seen, now, budget, moved, longGone>>
  BY DEF Commit, world
<1>5. RowsRead(s) \in {None, sess[s].uuid}
  BY DEF RowsRead, RowsOf
<1>6. /\ sess' \in [Session -> SessionState] /\ sess'[s] = Resume(s)
      /\ \A t \in Session \ {s} :
           /\ sess'[t].pc = sess[t].pc /\ sess'[t].path = sess[t].path
           /\ sess'[t].uuid = sess[t].uuid /\ sess'[t].target = sess[t].target
           /\ sess'[t].intact = sess[t].intact /\ sess'[t].list = sess[t].list
           /\ sess'[t].cur = sess[t].cur
  BY ResumeTyped, CommittedTyped DEF Commit, CatalogInv
<1>7. \A t \in Session \ {s} : sess[t].pc \notin WriterPC
  BY <1>1 DEF CatalogInv, OneWriter, Writing, At
<1>8. Resume(s).pc \in {"done", "next"}
  BY ResumeTyped DEF CatalogInv
<1>9. TypeOK'
  BY <1>2, <1>3, <1>4, <1>5, <1>6 DEF CatalogInv, TypeOK
<1>10. row.uuid = sess[s].uuid
  OBVIOUS
<1>11. ReplicaCoherent' /\ Replicated' /\ UniqueUuid'
  <2> HIDE DEF row
  <2>1. /\ archives'[k].uuid = sess[s].uuid /\ replica'[k] \in {None, sess[s].uuid}
        /\ replica'[k] = RowsOf(sess[s].uuid)
        /\ \A j \in Id \ {k} : /\ archives'[j] = archives[j] /\ replica'[j] = replica[j]
                               /\ j \in emptied' <=> j \in emptied
    BY <1>2, <1>4, <1>5, <1>10 DEF CatalogInv, TypeOK, RowsRead
  <2>2. Replicated'
    <3>1. ASSUME NEW i \in Id, Registered(i)', i \notin emptied'
          PROVE  replica'[i] = RowsOf(archives'[i].uuid)
      <4>1. CASE i = k
        BY <2>1, <4>1
      <4>2. CASE i # k
        BY <2>1, <3>1, <4>2 DEF CatalogInv, Replicated, Registered, RowsOf
      <4> QED
        BY <4>1, <4>2
    <3> QED
      BY <3>1 DEF Replicated, Registered, RowsOf
  <2> QED
    BY <1>2, <2>1, <2>2 DEF CatalogInv, ReplicaCoherent, UniqueUuid, Registered
<1>12. SessionsInHand'
  BY <1>4, <1>6, <1>7, <1>8 DEF CatalogInv, SessionsInHand, InHand
<1>13. OneWriter'
  BY <1>6, <1>7, <1>8 DEF OneWriter, Writing, At
<1> QED
  BY <1>9, <1>11, <1>12, <1>13 DEF CatalogInv

\* The steps of sync and sync --prune.
LEMMA SyncSteps ==
  ASSUME CatalogInv, NEW s \in Session,
         \/ \E c \in AllCommands : StartWalk(s, c)
         \/ EndWalk(s) \/ SyncStep(s)
  PROVE  CatalogInv'
<1>1. sess[s] \in SessionState /\ InHand(sess[s])
  BY DEF CatalogInv, TypeOK, SessionsInHand
<1>2. ASSUME NEW c \in AllCommands, StartWalk(s, c)
      PROVE  CatalogInv'
  <2> DEFINE next == [Idle EXCEPT !.pc = "next", !.cmd = c, !.list = archives]
  <2>1. next \in SessionState
    BY IdleTyped DEF SessionState, PC, CatalogInv, TypeOK
  <2>2. next.pc = "next"
    BY DEF Idle
  <2> QED
    BY <1>2, <2>1, <2>2, QuietStep DEF StartWalk
<1>3. CASE EndWalk(s)
  <2> DEFINE next == [Idle EXCEPT !.pc = "done", !.cmd = sess[s].cmd,
                                  !.alone = sess[s].alone]
  <2>1. next \in SessionState
    BY <1>1, IdleTyped DEF SessionState, PC
  <2>2. next.pc = "done"
    BY DEF Idle
  <2> QED
    BY <1>3, <2>1, <2>2, QuietStep DEF EndWalk
<1>4. CASE SyncVisit(s)
  <2>1. PICK i \in Id :
          /\ IsNext(s, i)
          /\ Local(s, [sess[s] EXCEPT
               !.cur = i,
               !.pc = IF disk[sess[s].list[i].path] # None THEN "identify"
                      ELSE IF sess[s].list[i].status # "db-missing" THEN "missing"
                      ELSE AfterMissing(s)])
    BY <1>4 DEF SyncVisit
  <2>2. PICK pc \in {"identify", "missing", "age", "next"} :
          Local(s, [sess[s] EXCEPT !.cur = i, !.pc = pc])
    BY <2>1 DEF AfterMissing
  <2> DEFINE next == [sess[s] EXCEPT !.cur = i, !.pc = pc]
  <2>3. i \in 0..MaxId /\ pc \in PC
    BY DEF PC
  <2>4. next \in SessionState
    BY <1>1, <2>3 DEF SessionState
  <2>5. next.pc = pc /\ next.cur = i /\ next.list = sess[s].list
    BY <1>1 DEF SessionState
  <2>6. sess[s].list[i] # NoRow
    BY <2>1 DEF IsNext, IsFirst, Listed, NoRow
  <2>7. InHand(next) /\ next.pc \notin WriterPC
    BY <2>5, <2>6 DEF InHand
  <2> QED
    BY <2>2, <2>4, <2>7, LocalStep
<1>5. CASE SyncIdentify(s)
  <2> DEFINE row == sess[s].list[sess[s].cur]
             u == disk[row.path]
  <2>1. sess[s].cur \in Id /\ row \in Row /\ row # NoRow
    BY <1>1, <1>5 DEF InHand, SyncIdentify, At, SessionState
  <2>2. row.path \in Path /\ u \in Uuid \union {None}
    BY <2>1, RowNamed DEF CatalogInv, TypeOK
  <2>3. \/ Local(s, [sess[s] EXCEPT !.pc = "unreadable"])
        \/ Local(s, [sess[s] EXCEPT !.pc = "open", !.path = row.path])
        \/ Local(s, [sess[s] EXCEPT !.pc = "refresh", !.uuid = u])
    BY <1>5 DEF SyncIdentify
  <2> HIDE DEF u, row
  <2>4. CASE Local(s, [sess[s] EXCEPT !.pc = "unreadable"])
    <3>1. [sess[s] EXCEPT !.pc = "unreadable"] \in SessionState
      BY <1>1 DEF SessionState, PC
    <3>2. [sess[s] EXCEPT !.pc = "unreadable"].pc = "unreadable"
      BY <1>1 DEF SessionState
    <3> QED
      BY <2>4, <3>1, <3>2, QuietStep
  <2>5. CASE Local(s, [sess[s] EXCEPT !.pc = "open", !.path = row.path])
    <3> DEFINE next == [sess[s] EXCEPT !.pc = "open", !.path = row.path]
    <3>1. next \in SessionState
      BY <1>1, <2>2 DEF SessionState, PC
    <3>2. next.pc = "open" /\ next.path = row.path
      BY <1>1 DEF SessionState
    <3>3. InHand(next) /\ next.pc \notin WriterPC
      BY <2>2, <3>2 DEF InHand
    <3> QED
      BY <2>5, <3>1, <3>3, LocalStep
  <2>6. CASE Local(s, [sess[s] EXCEPT !.pc = "refresh", !.uuid = u])
    <3>1. [sess[s] EXCEPT !.pc = "refresh", !.uuid = u] \in SessionState
      BY <1>1, <2>2 DEF SessionState, PC
    <3>2. [sess[s] EXCEPT !.pc = "refresh", !.uuid = u].pc = "refresh"
      BY <1>1 DEF SessionState
    <3> QED
      BY <2>6, <3>1, <3>2, QuietStep
  <2> QED
    BY <2>3, <2>4, <2>5, <2>6
<1>6. CASE SyncMark(s)
  <2>1. PICK pc \in {"age", "next"} :
          UpdateRow(s, sess[s].cur, [archives[sess[s].cur] EXCEPT !.status = "db-missing"],
                    [sess[s] EXCEPT !.pc = pc])
    BY <1>6 DEF SyncMark, AfterMissing
  <2>2. [sess[s] EXCEPT !.pc = pc] \in SessionState /\ [sess[s] EXCEPT !.pc = pc].pc = pc
    BY <1>1 DEF SessionState, PC
  <2>3. sess[s].cur \in 0..MaxId
    BY <1>1 DEF SessionState
  <2>4. ASSUME NEW i \in Id, Registered(i)
        PROVE  LET r == [archives[i] EXCEPT !.status = "db-missing"]
               IN r \in Row /\ r.uuid = archives[i].uuid
    BY <2>4, MarkedRow DEF CatalogInv, Status
  <2> QED
    BY <2>1, <2>2, <2>3, <2>4, RowStep
<1>7. CASE SyncRefresh(s)
  <2> DEFINE r(i) == [archives[i] EXCEPT !.status = StatusOf(sess[s].uuid),
                                         !.aged = FALSE]
  <2>1. UpdateRow(s, sess[s].cur, r(sess[s].cur), Resume(s))
    BY <1>7 DEF SyncRefresh
  <2>2. sess[s].cur \in 0..MaxId
    BY <1>1 DEF SessionState
  <2>3. ASSUME NEW i \in Id, Registered(i)
        PROVE  r(i) \in Row /\ r(i).uuid = archives[i].uuid
    BY <2>3, StatusTyped, MarkedRow DEF CatalogInv
  <2> QED
    BY <2>1, <2>2, <2>3, RowStep, ResumeTyped DEF CatalogInv
<1>8. CASE PruneCheck(s)
  <2> DEFINE next == [sess[s] EXCEPT !.pc = "find", !.target = sess[s].cur]
  <2>1. Local(s, next) \/ Local(s, Resume(s))
    BY <1>8 DEF PruneCheck
  <2>2. next \in SessionState /\ next.pc = "find"
    BY <1>1 DEF SessionState, PC
  <2> QED
    BY <2>1, <2>2, QuietStep, ResumeStep
<1> QED
  BY <1>2, <1>3, <1>4, <1>5, <1>6, <1>7, <1>8 DEF SyncStep

\* The steps of verify and verify --deep.
LEMMA VerifySteps ==
  ASSUME CatalogInv, NEW s \in Session, VerifyStep(s)
  PROVE  CatalogInv'
<1>1. sess[s] \in SessionState /\ Resume(s) \in SessionState
  BY ResumeTyped DEF CatalogInv, TypeOK
<1>2. \A st \in Status :
        LET next == [sess[s] EXCEPT !.pc = "judged", !.verdict = st]
        IN next \in SessionState /\ next.pc = "judged"
  BY <1>1 DEF SessionState, PC
<1>3. ASSUME NEW stale, Local(s, Judge(s, stale))
      PROVE  CatalogInv'
  <2>1. PICK st \in Status :
          \/ Local(s, [sess[s] EXCEPT !.pc = "judged", !.verdict = st])
          \/ Local(s, Resume(s))
    BY <1>3, StatusTyped DEF Judge, Status
  <2> QED
    BY <1>2, <2>1, QuietStep, ResumeStep
<1>4. CASE VerifyVisit(s)
  <2>1. PICK i \in Id, pc \in {"next", "judged", "compare"},
             st \in {"ok", "archive-missing"} :
          Local(s, [sess[s] EXCEPT !.cur = i, !.pc = pc, !.verdict = st])
    BY <1>4 DEF VerifyVisit
  <2> DEFINE next == [sess[s] EXCEPT !.cur = i, !.pc = pc, !.verdict = st]
  <2>2. i \in 0..MaxId /\ pc \in PC /\ st \in Status
    BY DEF PC, Status
  <2>3. next \in SessionState /\ next.pc = pc
    BY <1>1, <2>2 DEF SessionState
  <2> QED
    BY <2>1, <2>3, QuietStep
<1>5. CASE VerifyCompare(s)
  <2> DEFINE next == [sess[s] EXCEPT !.pc = "hash"]
  <2>1. Local(s, next) \/ Local(s, Judge(s, StatDiffers(s, sess[s].cur)))
    BY <1>5 DEF VerifyCompare
  <2>2. next \in SessionState /\ next.pc = "hash"
    BY <1>1 DEF SessionState, PC
  <2> QED
    BY <1>3, <2>1, <2>2, QuietStep
<1>6. CASE VerifyHash(s)
  BY <1>3, <1>6 DEF VerifyHash
<1>7. CASE VerifyFails(s)
  BY <1>7, FailStep DEF VerifyFails
<1>8. CASE VerifyMark(s)
  <2>1. UpdateRow(s, sess[s].cur,
          [archives[sess[s].cur] EXCEPT !.status = sess[s].verdict], Resume(s))
    BY <1>8 DEF VerifyMark
  <2>2. sess[s].cur \in 0..MaxId /\ sess[s].verdict \in Status
    BY <1>1 DEF SessionState
  <2> QED
    BY <2>1, <2>2, MarkedRow, RowStep, ResumeTyped DEF CatalogInv
<1> QED
  BY <1>4, <1>5, <1>6, <1>7, <1>8 DEF VerifyStep

\* The steps of rm, by itself and within sync --prune.
LEMMA RmSteps ==
  ASSUME CatalogInv, NEW s \in Session,
         \/ \E p \in Path : StartRm(s, 0, p)
         \/ \E i \in Id : StartRm(s, i, None)
         \/ RmStep(s)
  PROVE  CatalogInv'
<1>1. sess[s] \in SessionState /\ Resume(s) \in SessionState
  BY ResumeTyped DEF CatalogInv, TypeOK
<1>2. ASSUME NEW i \in 0..MaxId, NEW p \in Path \union {None}, StartRm(s, i, p)
      PROVE  CatalogInv'
  <2> DEFINE next == [Idle EXCEPT !.pc = "find", !.cmd = "rm", !.target = i, !.path = p]
  <2>1. next \in SessionState
    BY IdleTyped DEF SessionState, PC, AllCommands
  <2>2. next.pc = "find"
    BY DEF Idle
  <2> QED
    BY <1>2, <2>1, <2>2, QuietStep DEF StartRm
<1>3. CASE RmFind(s)
  <2>1. PICK i \in Id : Local(s, [sess[s] EXCEPT !.pc = "dropFiles", !.target = i])
    BY <1>3 DEF RmFind
  <2> DEFINE next == [sess[s] EXCEPT !.pc = "dropFiles", !.target = i]
  <2>2. i \in 0..MaxId
    OBVIOUS
  <2>3. next \in SessionState /\ next.pc = "dropFiles" /\ next.target = i
    BY <1>1, <2>2 DEF SessionState, PC
  <2>4. InHand(next) /\ next.pc \notin WriterPC
    BY <2>3 DEF InHand
  <2> QED
    BY <2>1, <2>3, <2>4, LocalStep
<1>4. CASE RmRefused(s)
  BY <1>4, FailStep DEF RmRefused
<1>5. ASSUME NEW next \in SessionState, NEW touched \in BOOLEAN,
             Committed(s, next, touched), ~WriteLocked(s),
             next.pc \in {"done", "next", "dropRow"},
             sess[s].target \in Id,
             \/ UNCHANGED archives /\ emptied' = emptied \union {sess[s].target}
             \/ /\ archives' = [archives EXCEPT ![sess[s].target] = NoRow]
                /\ emptied' = emptied \ {sess[s].target},
             replica' = [replica EXCEPT ![sess[s].target] = None],
             next.target \in Id \/ next.pc # "dropRow",
             UNCHANGED <<disk, locked, seen, now, budget, moved, longGone>>
      PROVE  CatalogInv'
  <2> USE DEF CatalogInv
  <2>1. NoRow \in Row /\ NoRow.uuid = None
    BY NoRowTyped DEF NoRow
  <2> DEFINE k == sess[s].target
  <2>2. /\ archives' \in [Id -> Row] /\ replica' \in [Id -> Uuid \union {None}]
        /\ \A j \in Id : j # k => /\ archives'[j] = archives[j] /\ replica'[j] = replica[j]
                                  /\ j \in emptied' <=> j \in emptied
        /\ \A j \in Id : j = k => /\ archives'[j].uuid \in {archives[j].uuid, None}
                                  /\ replica'[j] = None
                                  /\ archives'[j].uuid # None => j \in emptied'
        /\ emptied' \subseteq Id
    <3>1. CASE UNCHANGED archives /\ emptied' = emptied \union {k}
      <4> HIDE DEF k
      <4> QED
        BY <1>5, <3>1 DEF TypeOK, k
    <3>2. CASE archives' = [archives EXCEPT ![k] = NoRow] /\ emptied' = emptied \ {k}
      <4> HIDE DEF k
      <4> QED
        BY <1>5, <2>1, <3>2 DEF TypeOK, k
    <3> QED
      BY <1>5, <3>1, <3>2
  <2>3. /\ sess' \in [Session -> SessionState] /\ sess'[s] = next
        /\ \A t \in Session \ {s} :
             /\ sess'[t].pc = sess[t].pc /\ sess'[t].path = sess[t].path
             /\ sess'[t].uuid = sess[t].uuid /\ sess'[t].intact = sess[t].intact
             /\ sess'[t].list = sess[t].list /\ sess'[t].cur = sess[t].cur
             /\ sess'[t].target = sess[t].target
    BY <1>5, CommittedTyped
  <2>4. TypeOK'
    BY <1>5, <2>2, <2>3 DEF TypeOK
  <2>5. ReplicaCoherent' /\ Replicated' /\ UniqueUuid'
    <3>1. \A j \in Id : replica'[j] # None => j # k
      BY <2>2
    <3>2. \A j \in Id : archives'[j].uuid # None => archives'[j].uuid = archives[j].uuid
      BY <2>2
    <3>3. Replicated'
      BY <2>2, <3>2 DEF Replicated, Registered, RowsOf
    <3> QED
      BY <2>2, <3>1, <3>2, <3>3 DEF ReplicaCoherent, UniqueUuid, Registered
  <2>6. \A t \in Session : sess'[t].pc \notin WriterPC
    BY <1>5, <2>3 DEF WriteLocked, Writing, At
  <2>7. SessionsInHand' /\ OneWriter'
    BY <1>5, <2>3, <2>6 DEF SessionsInHand, InHand, OneWriter, Writing, At
  <2> QED
    BY <2>4, <2>5, <2>7
<1>6. CASE RmFiles(s)
  <2> DEFINE next == [sess[s] EXCEPT !.pc = "dropRow"]
  <2>1. next \in SessionState /\ next.pc = "dropRow" /\ next.target = sess[s].target
    BY <1>1 DEF SessionState, PC
  <2>2. sess[s].target \in Id
    BY <1>6 DEF CatalogInv, SessionsInHand, InHand, RmFiles, At
  <2> QED
    BY <1>5, <1>6, <2>1, <2>2 DEF RmFiles, world
<1>7. CASE RmRow(s)
  <2>1. sess[s].target \in Id
    BY <1>7 DEF CatalogInv, SessionsInHand, InHand, RmRow, At
  <2>2. Resume(s).pc # "dropRow"
    BY ResumeTyped DEF CatalogInv
  <2> QED
    BY <1>1, <1>5, <1>7, <2>1, <2>2, ResumeTyped DEF RmRow, world, CatalogInv, Registered
<1> QED
  BY <1>2, <1>3, <1>4, <1>6, <1>7 DEF RmStep

-----------------------------------------------------------------------------
\* A session that meets a change outside may lose its claims to be alone and
\* to read an intact file, and nothing else.
Met(r) == [r EXCEPT !.alone = FALSE]
Disturbed(r, b) == [r EXCEPT !.alone = FALSE, !.intact = b]

LEMMA DisturbedSession ==
  ASSUME NEW r \in SessionState, NEW b \in BOOLEAN
  PROVE  /\ Disturbed(r, b) \in SessionState /\ Disturbed(r, b).pc = r.pc
         /\ Disturbed(r, b).path = r.path /\ Disturbed(r, b).uuid = r.uuid
         /\ Disturbed(r, b).target = r.target /\ Disturbed(r, b).list = r.list
         /\ Disturbed(r, b).cur = r.cur /\ Disturbed(r, b).intact = b
BY DEF SessionState, Disturbed

LEMMA MetSession ==
  ASSUME NEW r \in SessionState
  PROVE  /\ Met(r) \in SessionState /\ Met(r).pc = r.pc /\ Met(r).path = r.path
         /\ Met(r).uuid = r.uuid /\ Met(r).target = r.target /\ Met(r).list = r.list
         /\ Met(r).cur = r.cur /\ Met(r).intact = r.intact
BY DEF SessionState, Met

\* A change outside that stamps the paths it touches preserves the invariant.
LEMMA OutsideStep ==
  ASSUME CatalogInv, NEW P \in SUBSET Path, Outside(P),
         disk' \in [Path -> Uuid \union {None}],
         \A p \in Path \ P : disk'[p] = disk[p],
         locked' \subseteq Path, seen' \in [Uuid -> Version \union {None}],
         now' \in [Source -> Version \union {None}], moved' \in BOOLEAN,
         longGone' \subseteq Path
  PROVE  CatalogInv'
<1> DEFINE after(t) == [sess[t] EXCEPT !.alone = FALSE,
                          !.intact = sess[t].intact /\ sess[t].path \notin P]
<1>1. /\ budget' = budget - 1 /\ budget > 0 /\ UNCHANGED <<archives, replica, emptied>>
      /\ sess' = [t \in Session |-> IF At(t, "idle") THEN sess[t] ELSE after(t)]
  BY DEF Outside, master
<1>2. \A t \in Session : sess[t] \in SessionState /\ InHand(sess[t])
  BY DEF CatalogInv, TypeOK, SessionsInHand
<1>3. \A t \in Session : (sess[t].intact /\ sess[t].path \notin P) \in BOOLEAN
  OBVIOUS
<1>4. \A t \in Session :
        /\ after(t) \in SessionState /\ after(t).pc = sess[t].pc
        /\ after(t).path = sess[t].path /\ after(t).uuid = sess[t].uuid
        /\ after(t).target = sess[t].target /\ after(t).list = sess[t].list
        /\ after(t).cur = sess[t].cur
        /\ after(t).intact => sess[t].intact /\ sess[t].path \notin P
  <2> TAKE t \in Session
  <2> DEFINE b == sess[t].intact /\ sess[t].path \notin P
  <2>1. b \in BOOLEAN /\ (b => sess[t].intact /\ sess[t].path \notin P)
    OBVIOUS
  <2> HIDE DEF b
  <2>2. sess[t] \in SessionState
    BY <1>2
  <2>3. after(t) = Disturbed(sess[t], b)
    BY DEF Disturbed, b
  <2> QED
    BY <2>1, <2>2, <2>3, DisturbedSession
<1> HIDE DEF after
<1>5. /\ sess' \in [Session -> SessionState]
      /\ \A t \in Session :
           /\ sess'[t].pc = sess[t].pc /\ sess'[t].path = sess[t].path
           /\ sess'[t].uuid = sess[t].uuid /\ sess'[t].target = sess[t].target
           /\ sess'[t].list = sess[t].list /\ sess'[t].cur = sess[t].cur
           /\ sess[t].pc # "idle" /\ sess'[t].intact =>
                sess[t].intact /\ sess[t].path \notin P
  BY <1>1, <1>2, <1>4 DEF At
<1>6. TypeOK'
  BY <1>1, <1>5 DEF CatalogInv, TypeOK
<1>7. ReplicaCoherent' /\ Replicated' /\ UniqueUuid'
  BY <1>1, SameTables
<1>8. SessionsInHand'
  <2> SUFFICES ASSUME NEW t \in Session
               PROVE  InHand(sess[t])'
    BY DEF SessionsInHand
  <2>1. sess[t].path \in Path \union {None}
    BY <1>2 DEF SessionState
  <2> QED
    BY <1>1, <1>2, <1>5, <2>1 DEF InHand
<1>9. OneWriter'
  BY <1>5 DEF CatalogInv, OneWriter, Writing, At
<1> QED
  BY <1>6, <1>7, <1>8, <1>9 DEF CatalogInv

\* So do the steps of the environment.
LEMMA EnvironmentSteps ==
  ASSUME CatalogInv, Environment
  PROVE  CatalogInv'
<1> USE DEF CatalogInv, TypeOK
<1>1. ASSUME NEW p \in Path, Delete(p) \/ WriterComes(p) \/ WriterGoes(p)
      PROVE  CatalogInv'
  <2>1. {p} \in SUBSET Path /\ {} \in SUBSET Path
    OBVIOUS
  <2>2. CASE Delete(p)
    BY <2>1, <2>2, OutsideStep DEF Delete
  <2>3. CASE WriterComes(p)
    BY <2>1, <2>3, OutsideStep DEF WriterComes
  <2>4. CASE WriterGoes(p)
    BY <2>1, <2>4, OutsideStep DEF WriterGoes
  <2> QED
    BY <1>1, <2>2, <2>3, <2>4
<1>2. ASSUME NEW p \in Path, NEW u \in Uuid, Build(p, u)
      PROVE  CatalogInv'
  <2>1. {p} \in SUBSET Path /\ now[SourceOf[u]] \in Version \union {None}
    OBVIOUS
  <2>2. /\ disk' \in [Path -> Uuid \union {None}]
        /\ \A q \in Path \ {p} : disk'[q] = disk[q]
        /\ seen' \in [Uuid -> Version \union {None}]
        /\ longGone' \subseteq Path /\ UNCHANGED <<locked, now, moved>>
    BY <1>2, <2>1 DEF Build
  <2> QED
    BY <1>2, <2>1, <2>2, OutsideStep, SMTT(30) DEF Build
<1>3. ASSUME NEW p \in Path, NEW q \in Path, Move(p, q) \/ Copy(p, q)
      PROVE  CatalogInv'
  <2>1. ASSUME NEW keep \in BOOLEAN, Relocate(p, q, keep)
        PROVE  CatalogInv'
    <3> DEFINE P == IF keep THEN {q} ELSE {p, q}
    <3>1. P \in SUBSET Path
      OBVIOUS
    <3>2. /\ disk' \in [Path -> Uuid \union {None}]
          /\ \A r \in Path \ P : disk'[r] = disk[r]
          /\ longGone' \subseteq Path /\ moved' \in BOOLEAN
          /\ UNCHANGED <<locked, seen, now>> /\ Outside(P)
      BY <2>1 DEF Relocate
    <3> QED
      BY <3>1, <3>2, OutsideStep
  <2> QED
    BY <1>3, <2>1 DEF Move, Copy
<1>4. ASSUME NEW src \in Source, NEW v \in Version \union {None}, ChangeSource(src, v)
      PROVE  CatalogInv'
  <2>1. {} \in SUBSET Path
    OBVIOUS
  <2> QED
    BY <1>4, <2>1, OutsideStep DEF ChangeSource
<1>5. CASE DaysPass
  <2> DEFINE aged(i) == IF Registered(i) THEN [archives[i] EXCEPT !.aged = TRUE] ELSE NoRow
             met(t) == Met(sess[t])
  <2>1. \A i \in Id : aged(i) \in Row /\ aged(i).uuid = archives[i].uuid
    <3> TAKE i \in Id
    <3>1. CASE Registered(i)
      <4>1. archives[i] \in [uuid : Uuid, path : Path, status : Status, aged : BOOLEAN]
        <5>1. archives[i] \in Row /\ archives[i].uuid # None
          BY <3>1 DEF Registered
        <5> QED
          BY <5>1 DEF Row, NoRow
      <4>2. /\ [archives[i] EXCEPT !.aged = TRUE] \in Row
            /\ [archives[i] EXCEPT !.aged = TRUE].uuid = archives[i].uuid
        BY <4>1 DEF Row
      <4> QED
        BY <3>1, <4>2
    <3>2. CASE ~Registered(i)
      BY <3>2, RowNamed, NoRowTyped DEF Registered
    <3> QED
      BY <3>1, <3>2
  <2>2. \A t \in Session :
          /\ met(t) \in SessionState /\ met(t).pc = sess[t].pc
          /\ met(t).path = sess[t].path /\ met(t).uuid = sess[t].uuid
          /\ met(t).target = sess[t].target /\ met(t).list = sess[t].list
          /\ met(t).cur = sess[t].cur /\ met(t).intact = sess[t].intact
    BY MetSession
  <2>3. /\ archives' = [i \in Id |-> aged(i)]
        /\ sess' = [t \in Session |-> IF At(t, "idle") THEN sess[t] ELSE met(t)]
        /\ budget' = budget - 1 /\ budget > 0 /\ longGone' \subseteq Path
        /\ UNCHANGED <<replica, emptied, disk, locked, seen, now, moved>>
    BY <1>5 DEF DaysPass, Met
  <2> HIDE DEF aged, met
  <2>4. /\ archives' \in [Id -> Row] /\ sess' \in [Session -> SessionState]
        /\ \A i \in Id : archives'[i].uuid = archives[i].uuid
        /\ \A t \in Session :
             /\ sess'[t].pc = sess[t].pc /\ sess'[t].path = sess[t].path
             /\ sess'[t].uuid = sess[t].uuid /\ sess'[t].target = sess[t].target
             /\ sess'[t].list = sess[t].list /\ sess'[t].cur = sess[t].cur
             /\ sess'[t].intact = sess[t].intact
    BY <2>1, <2>2, <2>3
  <2>5. TypeOK'
    BY <2>3, <2>4
  <2>6. ReplicaCoherent' /\ Replicated' /\ UniqueUuid'
    <3>1. replica' = replica /\ emptied' = emptied /\ \A i \in Id : archives'[i].uuid = archives[i].uuid
      BY <2>3, <2>4
    <3>2. ReplicaCoherent /\ Replicated /\ UniqueUuid
      OBVIOUS
    <3> HIDE DEF CatalogInv, TypeOK
    <3> QED
      BY <3>1, <3>2 DEF ReplicaCoherent, Replicated, UniqueUuid, Registered, RowsOf
  <2>7. SessionsInHand' /\ OneWriter'
    BY <2>3, <2>4 DEF SessionsInHand, InHand, OneWriter, Writing, At
  <2> QED
    BY <2>5, <2>6, <2>7
<1>6. ASSUME NEW s \in Session, Crash(s)
      PROVE  CatalogInv'
  <2>1. /\ sess' = [sess EXCEPT ![s] = Idle] /\ budget' = budget - 1 /\ budget > 0
        /\ UNCHANGED <<archives, replica, emptied, disk, locked, seen, now, moved, longGone>>
    BY <1>6 DEF Crash, master
  <2>2. Idle \in SessionState /\ Idle.pc = "idle"
    BY IdleTyped DEF Idle
  <2>3. TypeOK'
    BY <2>1, <2>2
  <2>4. ReplicaCoherent' /\ Replicated' /\ UniqueUuid'
    BY <2>1, SameTables
  <2>5. SessionsInHand' /\ OneWriter'
    BY <2>1, <2>2 DEF SessionsInHand, InHand, OneWriter, Writing, At
  <2> QED
    BY <2>3, <2>4, <2>5
<1> QED
  BY <1>1, <1>2, <1>3, <1>4, <1>5, <1>6 DEF Environment

-----------------------------------------------------------------------------
\* The empty catalog satisfies the invariant.
LEMMA InitInv == Init => CatalogInv
<1> SUFFICES ASSUME Init PROVE CatalogInv
  OBVIOUS
<1>1. NoRow \in Row /\ Idle \in SessionState /\ Idle.pc = "idle" /\ NoRow.uuid = None
  BY NoRowTyped, IdleTyped DEF Idle, NoRow
<1>2. TypeOK
  <2>1. now \in [Source -> Version \union {None}] /\ budget \in 0..Budget
    BY DEF Init
  <2> QED
    BY <1>1, <2>1 DEF Init, TypeOK
<1>3. ReplicaCoherent /\ Replicated /\ UniqueUuid
  BY <1>1 DEF Init, ReplicaCoherent, Replicated, UniqueUuid, Registered
<1>4. SessionsInHand /\ OneWriter
  BY <1>1 DEF Init, SessionsInHand, InHand, OneWriter, Writing, At
<1> QED
  BY <1>2, <1>3, <1>4 DEF CatalogInv

\* Every step preserves the invariant.
LEMMA NextInv == CatalogInv /\ [Next]_vars => CatalogInv'
<1> SUFFICES ASSUME CatalogInv, [Next]_vars PROVE CatalogInv'
  OBVIOUS
<1>1. CASE Environment
  BY <1>1, EnvironmentSteps
<1>2. ASSUME NEW s \in Session, Start(s)
      PROVE  CatalogInv'
  BY <1>2, AddLocal, RmSteps, SyncSteps DEF Start
<1>3. ASSUME NEW s \in Session, Step(s)
      PROVE  CatalogInv'
  <2>1. CASE AddStep(s)
    BY <2>1, AddLocal, AddCommit DEF AddStep
  <2>2. CASE Return(s)
    BY <2>2, FailStep DEF Return, Fail
  <2> QED
    BY <1>3, <2>1, <2>2, SyncSteps, VerifySteps, RmSteps DEF Step
<1>4. ASSUME NEW s \in Session, Busy(s)
      PROVE  CatalogInv'
  BY <1>4, FailStep DEF Busy
<1>5. CASE UNCHANGED vars
  BY <1>5 DEF vars, CatalogInv, TypeOK, ReplicaCoherent, Replicated, RowsOf, UniqueUuid, Registered,
              SessionsInHand, InHand, OneWriter, Writing, At
<1> QED
  BY <1>1, <1>2, <1>3, <1>4, <1>5 DEF Next

\* However many sessions add, sync, verify and remove, CatalogInv holds.
THEOREM CatalogInvariant == Spec => []CatalogInv
BY InitInv, NextInv, PTL DEF Spec

\* In particular the variables have their types,
THEOREM TypeCorrect == Spec => []TypeOK
<1>1. CatalogInv => TypeOK
  BY DEF CatalogInv
<1> QED
  BY <1>1, CatalogInvariant, PTL

\* and stored file rows always belong to the index their registry row names.
THEOREM ReplicaSafety == Spec => [](ReplicaCoherent /\ UniqueUuid)
<1>1. CatalogInv => ReplicaCoherent /\ UniqueUuid
  BY DEF CatalogInv
<1> QED
  BY <1>1, CatalogInvariant, PTL

-----------------------------------------------------------------------------
(***************************************************************************)
(* What the sessions promise together: a path that is rebuilt in place is  *)
(* registered once, every step is one of Registry or shows nothing there,  *)
(* and what sync and verify tell is so.                                    *)
(*                                                                         *)
(* A step is of one session or of none.  What the others hold is only lost *)
(* by it where they can tell: SQLite tells them that their snapshot is old *)
(* (`current`), and `alone` is the claim that nothing happened to them.    *)
(***************************************************************************)
By(s) == Start(s) \/ Step(s) \/ Busy(s)

Outdoors ==
  \/ \E p \in Path : Delete(p) \/ WriterComes(p) \/ WriterGoes(p)
  \/ \E p \in Path, u \in Uuid : Build(p, u)
  \/ \E p, q \in Path : Move(p, q) \/ Copy(p, q)
  \/ \E src \in Source, v \in Version \union {None} : ChangeSource(src, v)
  \/ DaysPass

\* The rows name the indexes and the paths they named.
SameKeys ==
  \A i \in Id : archives'[i].uuid = archives[i].uuid /\ archives'[i].path = archives[i].path

\* A write of session t to the master, with the lock in its hands.
StepWrites(t) ==
  \E next \in SessionState, touched \in BOOLEAN :
    /\ Committed(t, next, touched) /\ UNCHANGED world
    /\ next.pc \notin MidAdd
    /\ ~touched => archives' = archives
    /\ \A s \in Session \ {t} : ~Writing(s)
    /\ \A i \in Id :
         \/ archives'[i].uuid = archives[i].uuid /\ archives'[i].path = archives[i].path
         \/ archives'[i] = NoRow
         \/ /\ At(t, "commit") /\ i = sess[t].target
            /\ archives'[i].uuid = sess[t].uuid /\ archives'[i].path = sess[t].path

LEMMA NobodyCommits ==
  ASSUME NEW t \in Session, ~WriteLocked(t)
  PROVE  \A s \in Session \ {t} : ~Writing(s)
BY DEF WriteLocked

LEMMA MarkedKeys ==
  ASSUME TypeOK, NEW i \in Id, NEW st
  PROVE  LET marked == [archives[i] EXCEPT !.status = st]
             fresh == [archives[i] EXCEPT !.status = st, !.aged = FALSE]
         IN /\ marked.uuid = archives[i].uuid /\ marked.path = archives[i].path
            /\ fresh.uuid = archives[i].uuid /\ fresh.path = archives[i].path
<1> DEFINE r == archives[i]
<1>1. r \in Row
  BY DEF TypeOK
<1>2. CASE r = NoRow
  <2> HIDE DEF r
  <2> QED
    BY <1>2 DEF NoRow, r
<1>3. CASE r \in [uuid : Uuid, path : Path, status : Status, aged : BOOLEAN]
  <2> HIDE DEF r
  <2> QED
    BY <1>3 DEF r
<1> QED
  BY <1>1, <1>2, <1>3 DEF Row

LEMMA UpdateWrites ==
  ASSUME CatalogInv, NEW t \in Session, NEW i \in 0..MaxId, NEW row,
         NEW next \in SessionState, UpdateRow(t, i, row, next),
         next.pc \notin MidAdd,
         i \in Id => row.uuid = archives[i].uuid /\ row.path = archives[i].path
  PROVE  StepWrites(t)
<1>1. /\ Committed(t, next, Registered(i)) /\ UNCHANGED world
      /\ Registered(i) \in BOOLEAN /\ (~Registered(i) => archives' = archives)
  BY DEF UpdateRow, Registered
<1>2. \A s \in Session \ {t} : ~Writing(s)
  BY NobodyCommits DEF UpdateRow
<1>3. \A j \in Id : archives'[j].uuid = archives[j].uuid /\ archives'[j].path = archives[j].path
  <2>1. archives' = archives \/ archives' = [archives EXCEPT ![i] = row]
    BY DEF UpdateRow
  <2>2. archives \in [Id -> Row]
    BY DEF CatalogInv, TypeOK
  <2> QED
    BY <2>1, <2>2
<1> QED
  BY <1>1, <1>2, <1>3 DEF StepWrites

LEMMA CommitWrites ==
  ASSUME CatalogInv, NEW t \in Session, Commit(t)
  PROVE  StepWrites(t)
<1> DEFINE row == [uuid |-> sess[t].uuid, path |-> sess[t].path,
                   status |-> StatusOf(sess[t].uuid), aged |-> FALSE]
<1>1. /\ archives' = [archives EXCEPT ![sess[t].target] = row]
      /\ Committed(t, Resume(t), TRUE) /\ UNCHANGED world /\ At(t, "commit")
  BY DEF Commit
<1>2. archives \in [Id -> Row] /\ row.uuid = sess[t].uuid /\ row.path = sess[t].path
  BY DEF CatalogInv, TypeOK
<1>3. \A s \in Session \ {t} : ~Writing(s)
  BY <1>1 DEF CatalogInv, OneWriter, Writing, At
<1>4. Resume(t) \in SessionState /\ Resume(t).pc \notin MidAdd
  BY ResumeTyped DEF CatalogInv
<1> HIDE DEF row
<1>5. \A i \in Id : archives'[i] = IF i = sess[t].target THEN row ELSE archives[i]
  BY <1>1, <1>2
<1> QED
  BY <1>1, <1>2, <1>3, <1>4, <1>5 DEF StepWrites

\* A step of a session writes nothing to the master, or is one of these writes.
IsWrite(t) ==
  SyncMark(t) \/ SyncRefresh(t) \/ VerifyMark(t) \/ Commit(t) \/ RmFiles(t) \/ RmRow(t)

LEMMA StepShape ==
  ASSUME CatalogInv, NEW t \in Session, By(t)
  PROVE  (\E next : Local(t, next)) \/ (IsWrite(t) /\ StepWrites(t))
<1>1. sess[t] \in SessionState /\ TypeOK /\ InHand(sess[t])
  BY DEF CatalogInv, TypeOK, SessionsInHand
<1>2. CASE Start(t)
  BY <1>2 DEF Start, StartAdd, StartRm, StartWalk
<1>3. CASE Busy(t)
  BY <1>3 DEF Busy, Fail
<1>4. CASE \/ OpenIndex(t) \/ OpenRefused(t) \/ Lookup(t) \/ Upsert(t)
           \/ UpsertRefused(t) \/ FinishJournal(t) \/ FinishStamp(t) \/ Rollback(t)
  BY <1>4 DEF OpenIndex, OpenRefused, Lookup, Upsert, UpsertRefused, FinishJournal, FinishStamp,
              Rollback, Fail
<1>5. CASE SyncVisit(t) \/ SyncIdentify(t) \/ PruneCheck(t) \/ EndWalk(t) \/ Return(t)
  BY <1>5 DEF SyncVisit, SyncIdentify, PruneCheck, EndWalk, Return
<1>6. CASE VerifyVisit(t) \/ VerifyCompare(t) \/ VerifyHash(t) \/ VerifyFails(t)
  BY <1>6 DEF VerifyVisit, VerifyCompare, VerifyHash, VerifyFails, Fail
<1>7. CASE RmFind(t) \/ RmRefused(t)
  BY <1>7 DEF RmFind, RmRefused, Fail
<1>8. sess[t].cur \in 0..MaxId /\ Resume(t) \in SessionState
      /\ Resume(t).pc \notin MidAdd
  BY <1>1, ResumeTyped DEF SessionState
<1>9. CASE SyncMark(t)
  <2>1. PICK pc \in {"age", "next"} :
          UpdateRow(t, sess[t].cur, [archives[sess[t].cur] EXCEPT !.status = "db-missing"],
                    [sess[t] EXCEPT !.pc = pc])
    BY <1>9 DEF SyncMark, AfterMissing
  <2>2. [sess[t] EXCEPT !.pc = pc] \in SessionState /\ [sess[t] EXCEPT !.pc = pc].pc = pc
    BY <1>1 DEF SessionState, PC
  <2> QED
    BY <1>1, <1>8, <1>9, <2>1, <2>2, MarkedKeys, UpdateWrites DEF IsWrite
<1>10. CASE SyncRefresh(t)
  BY <1>1, <1>8, <1>10, MarkedKeys, UpdateWrites DEF IsWrite, SyncRefresh
<1>11. CASE VerifyMark(t)
  BY <1>1, <1>8, <1>11, MarkedKeys, UpdateWrites DEF IsWrite, VerifyMark
<1>12. CASE Commit(t)
  BY <1>12, CommitWrites DEF IsWrite
<1>13. CASE RmFiles(t)
  <2> DEFINE next == [sess[t] EXCEPT !.pc = "dropRow"]
  <2>1. next \in SessionState /\ next.pc = "dropRow"
    BY <1>1 DEF SessionState, PC
  <2>2. \A s \in Session \ {t} : ~Writing(s)
    BY <1>13, NobodyCommits DEF RmFiles
  <2>3. /\ Committed(t, next, replica[sess[t].target] # None)
        /\ UNCHANGED world /\ archives' = archives
    BY <1>13 DEF RmFiles
  <2> QED
    BY <1>13, <2>1, <2>2, <2>3 DEF StepWrites, IsWrite
<1>14. CASE RmRow(t)
  <2>1. \A s \in Session \ {t} : ~Writing(s)
    BY <1>14, NobodyCommits DEF RmRow
  <2>2. /\ Committed(t, Resume(t), Registered(sess[t].target)) /\ UNCHANGED world
        /\ archives' = [archives EXCEPT ![sess[t].target] = NoRow]
        /\ sess[t].target \in Id
    BY <1>1, <1>14 DEF RmRow, InHand, At
  <2>3. ~Registered(sess[t].target) => archives[sess[t].target] = NoRow
    BY <1>1, <2>2, RowNamed DEF TypeOK, Registered
  <2>4. archives \in [Id -> Row]
    BY <1>1 DEF TypeOK
  <2>5. ~Registered(sess[t].target) => archives' = archives
    BY <2>2, <2>3, <2>4
  <2>6. \A i \in Id : archives'[i] = archives[i] \/ archives'[i] = NoRow
    BY <2>2, <2>4
  <2> QED
    BY <1>8, <1>14, <2>1, <2>2, <2>5, <2>6 DEF StepWrites, Registered, IsWrite
<1> QED
  BY <1>2, <1>3, <1>4, <1>5, <1>6, <1>7, <1>9, <1>10, <1>11, <1>12, <1>13, <1>14
     DEF By, Step, AddStep, SyncStep, VerifyStep, RmStep, IsWrite

-----------------------------------------------------------------------------
\* What a session keeps while another one, or nobody, takes a step.
Kept(s) ==
  /\ sess'[s].pc = sess[s].pc /\ sess'[s].cmd = sess[s].cmd /\ sess'[s].list = sess[s].list
  /\ sess'[s].cur = sess[s].cur /\ sess'[s].path = sess[s].path /\ sess'[s].uuid = sess[s].uuid
  /\ sess'[s].target = sess[s].target /\ sess'[s].verdict = sess[s].verdict
  /\ sess'[s].current => sess[s].current
  /\ sess'[s].alone => sess[s].alone
  /\ Writing(s) \/ (~At(s, "idle") /\ sess'[s].current) => SameKeys
  /\ ~At(s, "idle") /\ sess'[s].alone => UNCHANGED <<archives, disk, locked, seen, now>>

LEMMA UntouchedKept ==
  ASSUME NEW s \in Session, sess'[s] = sess[s], SameKeys,
         ~At(s, "idle") /\ sess[s].alone => UNCHANGED <<archives, disk, locked, seen, now>>
  PROVE  Kept(s)
BY DEF Kept

LEMMA SessionsStepKept ==
  ASSUME CatalogInv, NEW s \in Session, NEW t \in Session \ {s}, By(t)
  PROVE  Kept(s)
<1>1. sess \in [Session -> SessionState]
  BY DEF CatalogInv, TypeOK
<1>2. ASSUME NEW next, Local(t, next)
      PROVE  Kept(s)
  <2>1. /\ sess'[s] = sess[s] /\ UNCHANGED <<archives, disk, locked, seen, now>>
    BY <1>1, <1>2 DEF Local, master, world
  <2>2. SameKeys
    BY <2>1 DEF SameKeys
  <2> QED
    BY <2>1, <2>2, UntouchedKept
<1>3. CASE StepWrites(t)
  <2>1. PICK next \in SessionState, touched \in BOOLEAN :
          /\ Committed(t, next, touched) /\ UNCHANGED <<disk, locked, seen, now>>
          /\ ~touched => archives' = archives
          /\ ~Writing(s)
    BY <1>3 DEF StepWrites, world
  <2>2. CASE ~touched
    <3>1. sess'[s] = sess[s] /\ archives' = archives
      BY <2>1, <2>2 DEF Committed
    <3>2. SameKeys
      BY <3>1 DEF SameKeys
    <3> QED
      BY <2>1, <3>1, <3>2, UntouchedKept
  <2>3. CASE At(s, "idle")
    <3>1. sess'[s] = sess[s]
      BY <2>1, <2>3 DEF Committed
    <3> QED
      BY <2>3, <3>1 DEF Kept, Writing, At
  <2>4. CASE touched /\ ~At(s, "idle")
    <3> DEFINE r == sess[s]
    <3>1. r \in SessionState /\ sess'[s] = [r EXCEPT !.current = FALSE, !.alone = FALSE]
      BY <1>1, <2>1, <2>4 DEF Committed
    <3> HIDE DEF r
    <3>2. /\ sess'[s].pc = r.pc /\ sess'[s].cmd = r.cmd /\ sess'[s].list = r.list
          /\ sess'[s].cur = r.cur /\ sess'[s].path = r.path /\ sess'[s].uuid = r.uuid
          /\ sess'[s].target = r.target /\ sess'[s].verdict = r.verdict
          /\ ~sess'[s].current /\ ~sess'[s].alone
      BY <3>1 DEF SessionState
    <3> QED
      BY <2>1, <3>2 DEF Kept, r
  <2> QED
    BY <2>2, <2>3, <2>4
<1> QED
  BY <1>2, <1>3, StepShape

\* The environment takes `alone` from every session that runs.
LEMMA DisturbedKept ==
  ASSUME CatalogInv, NEW s \in Session, SameKeys,
         \/ At(s, "idle") /\ sess'[s] = sess[s]
         \/ ~At(s, "idle") /\ \E b \in BOOLEAN : sess'[s] = Disturbed(sess[s], b)
  PROVE  Kept(s)
<1>1. CASE At(s, "idle") /\ sess'[s] = sess[s]
  BY <1>1 DEF Kept
<1>2. ASSUME NEW b \in BOOLEAN, sess'[s] = Disturbed(sess[s], b)
      PROVE  Kept(s)
  <2> DEFINE r == sess[s]
  <2>1. r \in SessionState
    BY DEF CatalogInv, TypeOK
  <2> HIDE DEF r
  <2>2. LET d == Disturbed(r, b)
        IN /\ d.pc = r.pc /\ d.cmd = r.cmd /\ d.list = r.list
           /\ d.cur = r.cur /\ d.path = r.path /\ d.uuid = r.uuid
           /\ d.target = r.target /\ d.verdict = r.verdict
           /\ d.current = r.current /\ ~d.alone
    BY <2>1 DEF SessionState, Disturbed
  <2> QED
    BY <1>2, <2>2 DEF Kept, r
<1> QED
  BY <1>1, <1>2

LEMMA OutsideSeen ==
  ASSUME CatalogInv, NEW s \in Session, NEW P, Outside(P)
  PROVE  Kept(s)
<1>1. SameKeys
  BY DEF SameKeys, Outside, master
<1>2. CASE At(s, "idle")
  BY <1>1, <1>2, DisturbedKept DEF Outside
<1>3. CASE ~At(s, "idle")
  <2> DEFINE b == sess[s].intact /\ sess[s].path \notin P
  <2>1. b \in BOOLEAN
    OBVIOUS
  <2> HIDE DEF b
  <2>2. sess'[s] = Disturbed(sess[s], b)
    BY <1>3 DEF Outside, Disturbed, b
  <2> QED
    BY <1>1, <1>3, <2>1, <2>2, DisturbedKept
<1> QED
  BY <1>2, <1>3

LEMMA AgedKeys ==
  ASSUME CatalogInv, DaysPass
  PROVE  SameKeys
<1> SUFFICES ASSUME NEW i \in Id
             PROVE  archives'[i].uuid = archives[i].uuid /\ archives'[i].path = archives[i].path
  BY DEF SameKeys
<1> DEFINE r == archives[i]
<1>1. r \in Row
  BY DEF CatalogInv, TypeOK
<1>2. CASE Registered(i)
  <2>1. r \in [uuid : Uuid, path : Path, status : Status, aged : BOOLEAN]
    BY <1>1, <1>2 DEF Registered, Row, NoRow
  <2>2. archives'[i] = [r EXCEPT !.aged = TRUE]
    BY <1>2 DEF DaysPass
  <2> HIDE DEF r
  <2> QED
    BY <2>1, <2>2 DEF r
<1>3. CASE ~Registered(i)
  <2>1. archives'[i] = NoRow /\ archives[i] = NoRow
    BY <1>1, <1>3, RowNamed DEF DaysPass, Registered
  <2> QED
    BY <2>1
<1> QED
  BY <1>2, <1>3

LEMMA OutdoorsKept ==
  ASSUME CatalogInv, NEW s \in Session, Outdoors
  PROVE  Kept(s)
<1>1. CASE DaysPass
  <2>1. CASE At(s, "idle")
    BY <1>1, <2>1, AgedKeys, DisturbedKept DEF DaysPass
  <2>2. CASE ~At(s, "idle")
    <3>1. sess'[s] = [sess[s] EXCEPT !.alone = FALSE]
      BY <1>1, <2>2 DEF DaysPass
    <3>2. sess[s] \in SessionState /\ sess[s].intact \in BOOLEAN
      BY DEF CatalogInv, TypeOK, SessionState
    <3>3. sess'[s] = Disturbed(sess[s], sess[s].intact)
      BY <3>1, <3>2 DEF Disturbed, SessionState
    <3> QED
      BY <1>1, <2>2, <3>2, <3>3, AgedKeys, DisturbedKept
  <2> QED
    BY <2>1, <2>2
<1>2. CASE ~DaysPass
  <2>1. \E P \in SUBSET Path : Outside(P)
    BY <1>2 DEF Outdoors, Delete, WriterComes, WriterGoes, Build, Move, Copy, Relocate, ChangeSource
  <2> QED
    BY <2>1, OutsideSeen
<1> QED
  BY <1>1, <1>2

LEMMA CrashKept ==
  ASSUME CatalogInv, NEW s \in Session, NEW t \in Session \ {s}, Crash(t)
  PROVE  Kept(s)
<1>1. sess'[s] = sess[s] /\ SameKeys /\ UNCHANGED <<archives, disk, locked, seen, now>>
  BY DEF Crash, CatalogInv, TypeOK, SameKeys, master
<1> QED
  BY <1>1, UntouchedKept

\* For each session, every step is its own, kills it, or keeps what it has.
LEMMA StepOfAnother ==
  ASSUME CatalogInv, [Next]_vars, NEW s \in Session
  PROVE  By(s) \/ Crash(s) \/ Kept(s)
<1>1. CASE UNCHANGED vars
  <2>1. sess'[s] = sess[s] /\ SameKeys /\ UNCHANGED <<archives, disk, locked, seen, now>>
    BY <1>1 DEF vars, SameKeys
  <2> QED
    BY <2>1, UntouchedKept
<1>2. CASE Outdoors
  BY <1>2, OutdoorsKept
<1>3. ASSUME NEW t \in Session, By(t) \/ Crash(t)
      PROVE  By(s) \/ Crash(s) \/ Kept(s)
  BY <1>3, SessionsStepKept, CrashKept
<1>4. Next => Outdoors \/ \E t \in Session : By(t) \/ Crash(t)
  BY DEF Next, Environment, Outdoors, By
<1> QED
  BY <1>1, <1>2, <1>3, <1>4

-----------------------------------------------------------------------------
(***************************************************************************)
(* One row per path.                                                       *)
(***************************************************************************)
\* An index and a path belong together: on the disk, in a row, or in the hands of
\* a session that registers it.
InHandOf(s, u, p) ==
  /\ sess[s].pc \in MidAdd
  /\ sess[s].uuid = u /\ sess[s].path = p

Placed(u, p) ==
  \/ disk[p] = u
  \/ \E i \in Id : archives[i].uuid = u /\ archives[i].path = p
  \/ \E s \in Session : InHandOf(s, u, p)

\* An index is built once, at one path, and stays there until it is moved.
OnePlace ==
  \A u \in Uuid, p \in Path : Placed(u, p) =>
    seen[u] # None /\ (moved \/ \A q \in Path : Placed(u, q) => p = q)

\* What the lookup found is still so while the snapshot is the latest, and while
\* the session has the write lock.
InSnapshot(s) ==
  /\ At(s, "upsert") /\ sess[s].current =>
       IF sess[s].target = 0 THEN Matches(s) = {} ELSE sess[s].target \in Matches(s)
  /\ Writing(s) /\ Registered(sess[s].target) => sess[s].target \in Matches(s)
  /\ Writing(s) \/ (At(s, "upsert") /\ sess[s].current) =>
       moved \/ Matches(s) \subseteq {sess[s].target}

Snapshots == \A s \in Session : InSnapshot(s)

\* The inductive invariant of the registry.
RegistryInv == CatalogInv /\ OnePlace /\ Snapshots /\ OneRowPerRebuiltPath

LEMMA PlacesKept ==
  ASSUME OnePlace, moved \in BOOLEAN, moved' = moved, seen' = seen,
         \A u \in Uuid, p \in Path : Placed(u, p)' => Placed(u, p)
  PROVE  OnePlace'
BY DEF OnePlace

\* The two observations of finish_index move the session on, and that is all.
Finishes(t) == FinishJournal(t) \/ FinishStamp(t)
LEMMA FinishMoves ==
  ASSUME CatalogInv, NEW t \in Session, Finishes(t)
  PROVE  /\ Writing(t) /\ ~At(t, "commit") /\ sess'[t].pc \in {"stamp", "commit"}
         /\ sess'[t].path = sess[t].path /\ sess'[t].uuid = sess[t].uuid
         /\ sess'[t].target = sess[t].target /\ sess'[t].list = sess[t].list
         /\ sess'[t].cur = sess[t].cur /\ sess'[t].cmd = sess[t].cmd
         /\ sess'[t].alone = sess[t].alone
         /\ UNCHANGED <<archives, replica, disk, locked, seen, now, moved>>
<1>1. sess[t] \in SessionState /\ sess \in [Session -> SessionState]
  BY DEF CatalogInv, TypeOK
<1>2. PICK pc \in {"stamp", "commit"} : Local(t, [sess[t] EXCEPT !.pc = pc])
  BY DEF Finishes, FinishJournal, FinishStamp
<1>3. sess'[t] = [sess[t] EXCEPT !.pc = pc]
  BY <1>1, <1>2 DEF Local
<1>4. Writing(t) /\ ~At(t, "commit")
  BY DEF Finishes, FinishJournal, FinishStamp, At, Writing
<1>5. UNCHANGED <<archives, replica, disk, locked, seen, now, moved>>
  BY <1>2 DEF Local, master, world
<1> QED
  BY <1>1, <1>3, <1>4, <1>5 DEF SessionState

\* Only these steps bring a session into the middle of a registration, or keep it there.
Registers(t) == OpenIndex(t) \/ Lookup(t) \/ Upsert(t) \/ Finishes(t)
LEMMA QuietBy ==
  ASSUME CatalogInv, NEW t \in Session, NEW next, Local(t, next), By(t), ~Registers(t)
  PROVE  sess'[t].pc \notin MidAdd
<1> SUFFICES ASSUME sess'[t].pc \in MidAdd PROVE FALSE
  OBVIOUS
<1>1. sess[t] \in SessionState /\ sess'[t] = next
  BY DEF CatalogInv, TypeOK, Local
<1>5. ASSUME sess'[t].pc \notin MidAdd
      PROVE  FALSE
  BY <1>5
<1>6. Idle.pc = "idle" /\ Resume(t).pc \in {"done", "next"}
  BY ResumeTyped DEF Idle, CatalogInv
<1>7. \A n : Local(t, n) => sess'[t] = n
  BY DEF Local, CatalogInv, TypeOK
<1>8. CASE Start(t)
  <2>1. sess'[t].pc \in {"open", "find", "next"}
    BY <1>7, <1>8, ZenonT(40) DEF Start, StartAdd, StartRm, StartWalk, Idle
  <2> QED
    BY <1>5, <2>1
<1>9. CASE \/ Busy(t) \/ OpenRefused(t) \/ UpsertRefused(t) \/ Rollback(t) \/ VerifyFails(t)
           \/ RmRefused(t) \/ Return(t)
  <2>1. sess'[t] = Idle
    BY <1>7, <1>9, RollbackFails DEF Busy, OpenRefused, UpsertRefused, VerifyFails, RmRefused, Return,
                                     Fail
  <2> QED
    BY <1>5, <1>6, <2>1
<1>10. CASE SyncVisit(t)
  <2>1. PICK i \in Id :
          Local(t, [sess[t] EXCEPT
               !.cur = i,
               !.pc = IF disk[sess[t].list[i].path] # None THEN "identify"
                      ELSE IF sess[t].list[i].status # "db-missing" THEN "missing"
                      ELSE AfterMissing(t)])
    BY <1>10 DEF SyncVisit
  <2>2. sess'[t].pc \in {"identify", "missing", "age", "next"}
    BY <1>1, <1>7, <2>1, ZenonT(40) DEF SessionState, AfterMissing
  <2> QED
    BY <1>5, <2>2
<1>11. CASE SyncIdentify(t)
  <2>1. \/ sess'[t] = [sess[t] EXCEPT !.pc = "unreadable"]
        \/ \E q : sess'[t] = [sess[t] EXCEPT !.pc = "open", !.path = q]
        \/ \E v : sess'[t] = [sess[t] EXCEPT !.pc = "refresh", !.uuid = v]
    BY <1>7, <1>11 DEF SyncIdentify
  <2>2. sess'[t].pc \in {"unreadable", "open", "refresh"}
    BY <1>1, <2>1 DEF SessionState
  <2> QED
    BY <1>5, <2>2
<1>12. CASE PruneCheck(t) \/ RmFind(t)
  <2>1. \/ sess'[t] = Resume(t)
        \/ \E pc \in {"find", "dropFiles"} : \E i : sess'[t] = [sess[t] EXCEPT !.pc = pc, !.target = i]
    BY <1>7, <1>12 DEF PruneCheck, RmFind
  <2>2. sess'[t].pc \in {"done", "next", "find", "dropFiles"}
    BY <1>1, <1>6, <2>1 DEF SessionState
  <2> QED
    BY <1>5, <2>2
<1>13. CASE EndWalk(t)
  <2>1. sess'[t].pc = "done"
    BY <1>7, <1>13 DEF EndWalk, Idle
  <2> QED
    BY <1>5, <2>1
<1>14. ASSUME NEW stale, Local(t, Judge(t, stale))
       PROVE  FALSE
  <2>1. \/ sess'[t] = Resume(t)
        \/ \E st : sess'[t] = [sess[t] EXCEPT !.pc = "judged", !.verdict = st]
    BY <1>7, <1>14 DEF Judge
  <2>2. sess'[t].pc \in {"done", "next", "judged"}
    BY <1>1, <1>6, <2>1 DEF SessionState
  <2> QED
    BY <1>5, <2>2
<1>15. CASE VerifyVisit(t)
  <2>1. PICK i \in Id, pc \in {"next", "judged", "compare"}, st \in {"ok", "archive-missing"} :
          Local(t, [sess[t] EXCEPT !.cur = i, !.pc = pc, !.verdict = st])
    BY <1>15 DEF VerifyVisit
  <2>2. sess'[t].pc = pc
    BY <1>1, <1>7, <2>1 DEF SessionState
  <2> QED
    BY <1>5, <2>2
<1>16. CASE VerifyCompare(t)
  <2>1. CASE sess'[t] = [sess[t] EXCEPT !.pc = "hash"]
    <3>1. sess'[t].pc = "hash"
      BY <1>1, <2>1 DEF SessionState
    <3> QED
      BY <1>5, <3>1
  <2> QED
    BY <1>7, <1>14, <1>16, <2>1 DEF VerifyCompare
<1>17. CASE VerifyHash(t)
  BY <1>14, <1>17 DEF VerifyHash
<1>18. CASE SyncMark(t) \/ SyncRefresh(t) \/ VerifyMark(t) \/ Commit(t) \/ RmFiles(t) \/ RmRow(t)
  <2>1. PICK n, touched : Committed(t, n, touched) /\ n.pc \notin MidAdd
    <3>1. CASE SyncMark(t)
      <4>0. \E pc \in {"age", "next"} : \E touched :
              Committed(t, [sess[t] EXCEPT !.pc = pc], touched)
        BY <3>1 DEF SyncMark, UpdateRow, AfterMissing
      <4>1. PICK pc, touched :
              /\ pc \in {"age", "next"}
              /\ Committed(t, [sess[t] EXCEPT !.pc = pc], touched)
        BY <4>0
      <4>2. [sess[t] EXCEPT !.pc = pc].pc = pc
        BY <1>1 DEF SessionState
      <4> QED
        BY <4>1, <4>2
    <3>2. CASE SyncRefresh(t) \/ VerifyMark(t) \/ Commit(t) \/ RmRow(t)
      BY <1>6, <3>2 DEF SyncRefresh, VerifyMark, Commit, RmRow, UpdateRow
    <3>3. CASE RmFiles(t)
      <4>1. [sess[t] EXCEPT !.pc = "dropRow"].pc = "dropRow"
        BY <1>1 DEF SessionState
      <4> QED
        BY <3>3, <4>1 DEF RmFiles
    <3> QED
      BY <1>18, <3>1, <3>2, <3>3
  <2>2. sess'[t] = n
    BY <2>1 DEF Committed
  <2> QED
    BY <1>5, <2>1, <2>2
<1> QED
  BY <1>8, <1>9, <1>10, <1>11, <1>12, <1>13, <1>15, <1>16, <1>17, <1>18
     DEF By, Step, AddStep, SyncStep, VerifyStep, RmStep, Registers, Finishes

\* What a session has in its hands after a step of its own was at its path.
LEMMA HandsPlaced ==
  ASSUME CatalogInv, NEW t \in Session, NEW next, Local(t, next), By(t),
         NEW u \in Uuid, NEW p \in Path, InHandOf(t, u, p)'
  PROVE  Placed(u, p)
<1>1. sess[t] \in SessionState /\ sess'[t] = next
  BY DEF CatalogInv, TypeOK, Local
<1>2. /\ sess'[t].pc \in MidAdd
      /\ sess'[t].uuid = u /\ sess'[t].path = p
  BY DEF InHandOf
<1>3. CASE OpenIndex(t)
  <2>1. sess'[t] = [sess[t] EXCEPT !.pc = "lookup", !.uuid = disk[sess[t].path], !.intact = TRUE]
    BY <1>3 DEF OpenIndex, Local, CatalogInv, TypeOK
  <2>2. sess'[t].uuid = disk[sess[t].path] /\ sess'[t].path = sess[t].path
    BY <1>1, <2>1 DEF SessionState
  <2> QED
    BY <1>2, <2>2 DEF Placed
<1>4. CASE Lookup(t) \/ Upsert(t)
  <2>1. CASE Lookup(t)
    <3>1. PICK i \in 0..MaxId :
            Local(t, [sess[t] EXCEPT !.pc = "upsert", !.target = i, !.current = TRUE])
      BY <2>1 DEF Lookup
    <3>2. sess'[t] = [sess[t] EXCEPT !.pc = "upsert", !.target = i, !.current = TRUE]
      BY <3>1 DEF Local, CatalogInv, TypeOK
    <3> QED
      BY <1>1, <1>2, <2>1, <3>2 DEF SessionState, Placed, InHandOf, Lookup, At
  <2>2. CASE Upsert(t)
    <3>1. PICK i \in Id : Local(t, [sess[t] EXCEPT !.pc = "finish", !.target = i])
      BY <2>2 DEF Upsert
    <3>2. sess'[t] = [sess[t] EXCEPT !.pc = "finish", !.target = i]
      BY <3>1 DEF Local, CatalogInv, TypeOK
    <3> QED
      BY <1>1, <1>2, <2>2, <3>2 DEF SessionState, Placed, InHandOf, Upsert, At
  <2> QED
    BY <1>4, <2>1, <2>2
<1>5. CASE Finishes(t)
  BY <1>2, <1>5, FinishMoves DEF Placed, InHandOf, Writing
<1> QED
  BY <1>2, <1>3, <1>4, <1>5, QuietBy DEF Registers

LEMMA PlacesOutdoors ==
  ASSUME CatalogInv, OnePlace, Outdoors, SameKeys,
         \A s \in Session, u \in Uuid, p \in Path : InHandOf(s, u, p)' => InHandOf(s, u, p)
  PROVE  OnePlace'
<1>1. disk \in [Path -> Uuid \union {None}] /\ seen \in [Uuid -> Version \union {None}]
      /\ moved \in BOOLEAN /\ None \notin Uuid
  BY DEF CatalogInv, TypeOK
<1>2. \A u \in Uuid, p \in Path : Placed(u, p)' => Placed(u, p) \/ disk'[p] = u
  BY DEF Placed, SameKeys
<1>3. CASE DaysPass \/ \E p \in Path : Delete(p) \/ WriterComes(p) \/ WriterGoes(p)
  <2>1. moved' = moved /\ seen' = seen /\ \A q \in Path : disk'[q] = disk[q] \/ disk'[q] = None
    BY <1>1, <1>3 DEF DaysPass, Delete, WriterComes, WriterGoes
  <2>2. \A u \in Uuid, p \in Path : Placed(u, p)' => Placed(u, p)
    BY <1>1, <1>2, <2>1 DEF Placed
  <2> QED
    BY <1>1, <2>1, <2>2, PlacesKept
<1>4. CASE \E src \in Source, v \in Version \union {None} : ChangeSource(src, v)
  <2>1. moved' = moved /\ seen' = seen /\ disk' = disk
    BY <1>4 DEF ChangeSource
  <2>2. \A u \in Uuid, p \in Path : Placed(u, p)' => Placed(u, p)
    BY <1>2, <2>1 DEF Placed
  <2> QED
    BY <1>1, <2>1, <2>2, PlacesKept
<1>5. ASSUME NEW p \in Path, NEW u \in Uuid, Build(p, u)
      PROVE  OnePlace'
  <2>1. /\ seen[u] = None /\ now[SourceOf[u]] # None /\ moved' = moved
        /\ disk' = [disk EXCEPT ![p] = u] /\ seen' = [seen EXCEPT ![u] = now[SourceOf[u]]]
    BY <1>5 DEF Build
  <2>2. \A q \in Path : ~Placed(u, q)
    BY <2>1 DEF OnePlace
  <2>3. \A v \in Uuid, q \in Path : Placed(v, q)' => Placed(v, q) \/ (v = u /\ q = p)
    BY <1>1, <1>2, <2>1 DEF Placed
  <2>4. \A v \in Uuid : (v = u => seen'[v] # None) /\ (seen[v] # None => seen'[v] # None)
    BY <1>1, <2>1
  <2> QED
    BY <2>1, <2>2, <2>3, <2>4 DEF OnePlace
<1>6. ASSUME NEW p \in Path, NEW q \in Path, NEW keep \in BOOLEAN, Relocate(p, q, keep)
      PROVE  OnePlace'
  <2>1. moved' = TRUE /\ seen' = seen
    BY <1>6 DEF Relocate
  <2>2. \A r \in Path : disk'[r] \in {disk[r], disk[p], None}
    BY <1>1, <1>6 DEF Relocate
  <2>3. \A u \in Uuid, r \in Path : Placed(u, r)' => Placed(u, r) \/ Placed(u, p)
    BY <1>1, <1>2, <2>2 DEF Placed
  <2> QED
    BY <2>1, <2>3 DEF OnePlace
<1> QED
  BY <1>3, <1>4, <1>5, <1>6 DEF Outdoors, Move, Copy

\* No step separates what belongs together.
LEMMA PlacesStep ==
  ASSUME CatalogInv, OnePlace, [Next]_vars
  PROVE  OnePlace'
<1>1. /\ moved \in BOOLEAN /\ sess \in [Session -> SessionState] /\ None \notin Uuid
  BY DEF CatalogInv, TypeOK
<1>2. ASSUME NEW s \in Session, Kept(s), NEW u \in Uuid, NEW p \in Path, InHandOf(s, u, p)'
      PROVE  InHandOf(s, u, p)
  BY <1>2 DEF Kept, InHandOf
<1>3. ASSUME NEW t \in Session, By(t)
      PROVE  OnePlace'
  <2>1. ASSUME NEW next, Local(t, next)
        PROVE  OnePlace'
    <3>1. moved' = moved /\ seen' = seen /\ UNCHANGED <<archives, disk>>
      BY <2>1 DEF Local, master, world
    <3>2. ASSUME NEW u \in Uuid, NEW p \in Path, NEW s \in Session, InHandOf(s, u, p)'
          PROVE  Placed(u, p)
      <4>1. CASE s = t
        BY <1>3, <2>1, <3>2, <4>1, HandsPlaced
      <4>2. CASE s # t
        BY <1>1, <1>2, <1>3, <3>2, <4>2, SessionsStepKept DEF Placed
      <4> QED
        BY <4>1, <4>2
    <3>3. \A u \in Uuid, p \in Path : Placed(u, p)' => Placed(u, p)
      BY <3>1, <3>2 DEF Placed
    <3> QED
      BY <1>1, <3>1, <3>3, PlacesKept
  <2>2. CASE StepWrites(t)
    <3>1. PICK next \in SessionState, touched \in BOOLEAN :
            /\ Committed(t, next, touched) /\ UNCHANGED world
            /\ next.pc \notin MidAdd
            /\ \A i \in Id :
                 \/ archives'[i].uuid = archives[i].uuid /\ archives'[i].path = archives[i].path
                 \/ archives'[i] = NoRow
                 \/ /\ At(t, "commit") /\ i = sess[t].target
                    /\ archives'[i].uuid = sess[t].uuid /\ archives'[i].path = sess[t].path
      BY <2>2 DEF StepWrites
    <3>2. moved' = moved /\ seen' = seen /\ disk' = disk /\ sess'[t] = next
      BY <3>1 DEF world, Committed
    <3>3. ASSUME NEW u \in Uuid, NEW p \in Path, NEW s \in Session, InHandOf(s, u, p)'
          PROVE  Placed(u, p)
      <4>1. s # t
        BY <3>1, <3>2, <3>3 DEF InHandOf
      <4> QED
        BY <1>2, <1>3, <3>3, <4>1, SessionsStepKept DEF Placed
    <3>4. ASSUME NEW u \in Uuid, NEW p \in Path, NEW i \in Id,
                 archives'[i].uuid = u, archives'[i].path = p
          PROVE  Placed(u, p)
      <4>1. archives'[i] # NoRow
        BY <1>1, <3>4 DEF NoRow
      <4> QED
        BY <3>1, <3>4, <4>1 DEF Placed, InHandOf, At
    <3>5. \A u \in Uuid, p \in Path : Placed(u, p)' => Placed(u, p)
      <4>1. \A u \in Uuid, p \in Path : disk'[p] = u => Placed(u, p)
        BY <3>2 DEF Placed
      <4> QED
        BY <3>3, <3>4, <4>1 DEF Placed
    <3> QED
      BY <1>1, <3>2, <3>5, PlacesKept
  <2> QED
    BY <1>3, <2>1, <2>2, StepShape
<1>4. CASE Outdoors
  <2>1. SameKeys
    BY <1>4, AgedKeys DEF Outdoors, Delete, WriterComes, WriterGoes, Build, Move, Copy, Relocate,
                          ChangeSource, Outside, master, SameKeys
  <2>2. \A s \in Session, u \in Uuid, p \in Path : InHandOf(s, u, p)' => InHandOf(s, u, p)
    BY <1>2, <1>4, OutdoorsKept
  <2> QED
    BY <1>4, <2>1, <2>2, PlacesOutdoors
<1>5. ASSUME NEW t \in Session, Crash(t)
      PROVE  OnePlace'
  <2>1. moved' = moved /\ seen' = seen /\ UNCHANGED <<archives, disk>>
        /\ sess' = [sess EXCEPT ![t] = Idle] /\ Idle.pc = "idle"
    BY <1>5 DEF Crash, master, Idle
  <2>2. \A s \in Session, u \in Uuid, p \in Path : InHandOf(s, u, p)' => InHandOf(s, u, p)
    BY <1>1, <2>1 DEF InHandOf
  <2>3. \A u \in Uuid, p \in Path : Placed(u, p)' => Placed(u, p)
    BY <2>1, <2>2 DEF Placed
  <2> QED
    BY <1>1, <2>1, <2>3, PlacesKept
<1>6. CASE UNCHANGED vars
  <2>1. moved' = moved /\ seen' = seen /\ \A u \in Uuid, p \in Path : Placed(u, p)' => Placed(u, p)
    BY <1>6 DEF vars, Placed, InHandOf
  <2> QED
    BY <1>1, <2>1, PlacesKept
<1>7. Next => Outdoors \/ \E t \in Session : By(t) \/ Crash(t)
  BY DEF Next, Environment, Outdoors, By
<1> QED
  BY <1>3, <1>4, <1>5, <1>6, <1>7

\* Rows get other keys only by a write of one session.
LEMMA KeysStep ==
  ASSUME CatalogInv, [Next]_vars
  PROVE  /\ SameKeys \/ \E t \in Session : StepWrites(t)
         /\ moved => moved'
<1>1. ASSUME NEW t \in Session, By(t)
      PROVE  (SameKeys \/ StepWrites(t)) /\ moved' = moved
  BY <1>1, StepShape DEF Local, StepWrites, SameKeys, master, world
<1>2. CASE Outdoors
  <2>1. CASE DaysPass
    BY <2>1, AgedKeys DEF DaysPass
  <2>2. CASE ~DaysPass
    <3>1. /\ \E P \in SUBSET Path : Outside(P)
          /\ moved' = moved \/ moved' = TRUE
      BY <1>2, <2>2 DEF Outdoors, Delete, WriterComes, WriterGoes, Build, Move, Copy, Relocate,
                        ChangeSource
    <3>2. archives' = archives
      BY <3>1 DEF Outside, master
    <3> QED
      BY <3>1, <3>2 DEF SameKeys
  <2> QED
    BY <2>1, <2>2
<1>3. CASE UNCHANGED vars \/ \E t \in Session : Crash(t)
  BY <1>3 DEF vars, Crash, master, SameKeys
<1>4. Next => Outdoors \/ \E t \in Session : By(t) \/ Crash(t)
  BY DEF Next, Environment, Outdoors, By
<1> QED
  BY <1>1, <1>2, <1>3, <1>4

LEMMA SameMatches ==
  ASSUME NEW s \in Session, SameKeys, sess'[s].uuid = sess[s].uuid, sess'[s].path = sess[s].path
  PROVE  Matches(s)' = Matches(s) /\ \A i \in Id : Registered(i)' <=> Registered(i)
BY DEF SameKeys, Matches, Registered

LEMMA SnapshotKept ==
  ASSUME CatalogInv, NEW s \in Session, Kept(s), InSnapshot(s), moved => moved'
  PROVE  InSnapshot(s)'
<1>1. sess'[s].pc = sess[s].pc /\ sess'[s].target = sess[s].target
      /\ sess'[s].uuid = sess[s].uuid /\ sess'[s].path = sess[s].path
      /\ (sess'[s].current => sess[s].current)
  BY DEF Kept
<1>2. CASE Writing(s) \/ (At(s, "upsert") /\ sess'[s].current)
  <2>1. SameKeys
    BY <1>2 DEF Kept, At
  <2>2. Writing(s) => sess[s].target \in Id
    BY DEF CatalogInv, SessionsInHand, InHand, Writing
  <2> QED
    BY <1>1, <2>1, <2>2, SameMatches DEF InSnapshot, Writing, At
<1>3. CASE ~Writing(s) /\ ~(At(s, "upsert") /\ sess'[s].current)
  BY <1>1, <1>3 DEF InSnapshot, Writing, At
<1> QED
  BY <1>2, <1>3

\* The rows that a registration matches are the one row of its path.
LEMMA OneMatch ==
  ASSUME RegistryInv, NEW s \in Session, ~moved,
         sess[s].pc \in MidAdd
  PROVE  \A i, j \in Matches(s) : i = j
<1>1. sess[s] \in SessionState /\ InHand(sess[s]) /\ archives \in [Id -> Row]
  BY DEF RegistryInv, CatalogInv, TypeOK, SessionsInHand
<1>2. sess[s].uuid \in Uuid /\ sess[s].path \in Path
  BY <1>1 DEF SessionState, InHand
<1>3. Placed(sess[s].uuid, sess[s].path)
  BY DEF Placed, InHandOf
<1>4. ASSUME NEW i \in Matches(s)
      PROVE  i \in Id /\ Registered(i) /\ archives[i].path = sess[s].path
  <2>1. /\ i \in Id /\ Registered(i) /\ archives[i].path \in Path \union {None}
        /\ archives[i] # NoRow => archives[i].path \in Path
    BY <1>1, RowNamed DEF Matches
  <2>2. archives[i].path \in Path
    BY <2>1 DEF Registered, NoRow
  <2>3. CASE archives[i].uuid = sess[s].uuid
    BY <1>2, <1>3, <2>1, <2>2, <2>3 DEF RegistryInv, OnePlace, Placed
  <2> QED
    BY <2>1, <2>3 DEF Matches
<1> QED
  BY <1>4 DEF RegistryInv, OneRowPerRebuiltPath

LEMMA OwnSnapshot ==
  ASSUME RegistryInv, NEW t \in Session, By(t)
  PROVE  InSnapshot(t)'
<1>1. CatalogInv /\ sess[t] \in SessionState /\ sess \in [Session -> SessionState]
  BY DEF RegistryInv, CatalogInv, TypeOK
<1>2. CASE sess'[t].pc \notin MidAdd
  BY <1>2 DEF InSnapshot, Writing, At
<1>3. CASE StepWrites(t)
  BY <1>2, <1>3 DEF StepWrites, Committed
<1>4. CASE OpenIndex(t)
  <2>1. sess'[t] = [sess[t] EXCEPT !.pc = "lookup", !.uuid = disk[sess[t].path], !.intact = TRUE]
    BY <1>1, <1>4 DEF OpenIndex, Local
  <2>2. sess'[t].pc = "lookup"
    BY <1>1, <2>1 DEF SessionState
  <2> QED
    BY <2>2 DEF InSnapshot, Writing, At
<1>5. CASE Lookup(t)
  <2>1. PICK i \in 0..MaxId :
          /\ IF Matches(t) = {} THEN i = 0 ELSE IsFirst(i, Matches(t))
          /\ Local(t, [sess[t] EXCEPT !.pc = "upsert", !.target = i, !.current = TRUE])
    BY <1>5 DEF Lookup
  <2>2. sess'[t] = [sess[t] EXCEPT !.pc = "upsert", !.target = i, !.current = TRUE]
    BY <1>1, <2>1 DEF Local
  <2>3. /\ sess'[t].pc = "upsert" /\ sess'[t].target = i
        /\ sess'[t].uuid = sess[t].uuid /\ sess'[t].path = sess[t].path
    BY <1>1, <2>2 DEF SessionState
  <2>4. SameKeys /\ moved' = moved
    BY <2>1 DEF Local, SameKeys, master, world
  <2>5. Matches(t)' = Matches(t)
    BY <2>3, <2>4, SameMatches
  <2>6. moved \/ \A m, n \in Matches(t) : m = n
    BY <1>5, OneMatch DEF Lookup, At
  <2>7. IF i = 0 THEN Matches(t) = {} ELSE i \in Matches(t)
    BY <2>1 DEF IsFirst, Matches
  <2> QED
    BY <2>3, <2>4, <2>5, <2>6, <2>7 DEF InSnapshot, Writing, At
<1>6. CASE Upsert(t)
  <2>1. PICK i \in Id :
          /\ IF sess[t].target = 0 THEN IsNewRowid(i) ELSE i = sess[t].target
          /\ Local(t, [sess[t] EXCEPT !.pc = "finish", !.target = i])
    BY <1>6 DEF Upsert
  <2>2. sess'[t] = [sess[t] EXCEPT !.pc = "finish", !.target = i]
    BY <1>1, <2>1 DEF Local
  <2>3. /\ sess'[t].pc = "finish" /\ sess'[t].target = i
        /\ sess'[t].uuid = sess[t].uuid /\ sess'[t].path = sess[t].path
    BY <1>1, <2>2 DEF SessionState
  <2>4. SameKeys /\ moved' = moved
    BY <2>1 DEF Local, SameKeys, master, world
  <2>5. Matches(t)' = Matches(t) /\ (Registered(i)' <=> Registered(i))
    BY <2>3, <2>4, SameMatches
  <2>6. /\ IF sess[t].target = 0 THEN Matches(t) = {} ELSE sess[t].target \in Matches(t)
        /\ moved \/ Matches(t) \subseteq {sess[t].target}
    BY <1>6 DEF Upsert, At, SnapshotIsLatest, RegistryInv, Snapshots, InSnapshot
  <2>7. sess[t].target = 0 => ~Registered(i)
    BY <2>1 DEF IsNewRowid
  <2>8. /\ Registered(i) => i \in Matches(t)
        /\ moved \/ Matches(t) \subseteq {i}
    BY <2>1, <2>6, <2>7
  <2> QED
    BY <2>3, <2>4, <2>5, <2>8 DEF InSnapshot, Writing, At
<1>7. ASSUME NEW next, Local(t, next), ~Registers(t)
      PROVE  InSnapshot(t)'
  BY <1>1, <1>2, <1>7, QuietBy
<1>8. CASE Finishes(t)
  <2>1. SameKeys
    BY <1>1, <1>8, FinishMoves DEF SameKeys
  <2>2. /\ Matches(t)' = Matches(t)
        /\ sess[t].target \in Id => (Registered(sess[t].target)' <=> Registered(sess[t].target))
    BY <1>1, <1>8, <2>1, FinishMoves, SameMatches DEF Registered, SameKeys
  <2>3. sess[t].target \in Id /\ InSnapshot(t)
    BY <1>1, <1>8, FinishMoves DEF RegistryInv, CatalogInv, SessionsInHand, InHand, Writing, Snapshots
  <2>4. /\ Writing(t) /\ ~At(t, "upsert")' /\ sess'[t].target = sess[t].target
        /\ moved' = moved
    BY <1>1, <1>8, FinishMoves DEF At
  <2> QED
    BY <2>2, <2>3, <2>4 DEF InSnapshot, Registered
<1> QED
  BY <1>1, <1>3, <1>4, <1>5, <1>6, <1>7, <1>8, StepShape DEF Registers

\* Every session's snapshot stays what SQLite says of it.
LEMMA SnapshotsStep ==
  ASSUME RegistryInv, [Next]_vars
  PROVE  Snapshots'
<1> SUFFICES ASSUME NEW s \in Session PROVE InSnapshot(s)'
  BY DEF Snapshots
<1>1. CatalogInv /\ InSnapshot(s) /\ (moved => moved')
  BY KeysStep DEF RegistryInv, Snapshots
<1>2. CASE Crash(s)
  <2>1. sess'[s].pc = "idle"
    BY <1>1, <1>2 DEF Crash, Idle, CatalogInv, TypeOK
  <2> QED
    BY <2>1 DEF InSnapshot, Writing, At
<1> QED
  BY <1>1, <1>2, OwnSnapshot, SnapshotKept, StepOfAnother

LEMMA OneRowStep ==
  ASSUME RegistryInv, [Next]_vars
  PROVE  OneRowPerRebuiltPath'
<1>1. CatalogInv /\ TypeOK
  BY DEF RegistryInv, CatalogInv
<1>2. CASE moved'
  BY <1>2 DEF OneRowPerRebuiltPath
<1>3. CASE SameKeys /\ ~moved'
  BY <1>1, <1>3, KeysStep DEF SameKeys, RegistryInv, OneRowPerRebuiltPath, Registered
<1>4. ASSUME NEW t \in Session, StepWrites(t), ~moved'
      PROVE  OneRowPerRebuiltPath'
  <2>1. ~moved
    BY <1>1, <1>4, KeysStep
  <2> DEFINE Same(i) == archives'[i].uuid = archives[i].uuid /\ archives'[i].path = archives[i].path
             Now(i) == /\ At(t, "commit") /\ i = sess[t].target
                       /\ archives'[i].path = sess[t].path
  <2>2. \A i \in Id : Registered(i)' => Same(i) \/ Now(i)
    BY <1>4 DEF StepWrites, Registered, NoRow
  <2>3. Writing(t) => Matches(t) \subseteq {sess[t].target}
    BY <2>1 DEF RegistryInv, Snapshots, InSnapshot
  <2>4. ASSUME NEW i \in Id, NEW j \in Id, Now(i), Same(j), Registered(j)',
               archives'[i].path = archives'[j].path
        PROVE  i = j
    <3>1. Registered(j) /\ archives[j].path = sess[t].path
      BY <2>4 DEF Registered
    <3>2. j \in Matches(t)
      BY <3>1 DEF Matches
    <3> QED
      BY <2>3, <2>4, <3>2 DEF Writing, At
  <2>5. \A i, j \in Id : Same(i) /\ Same(j) /\ Registered(i)' /\ archives'[i].path = archives'[j].path
                          => i = j
    BY <2>1 DEF RegistryInv, OneRowPerRebuiltPath, Registered
  <2>6. ASSUME NEW i \in Id, NEW j \in Id, Registered(i)', archives'[i].path = archives'[j].path
        PROVE  Registered(j)'
    <3>1. archives' \in [Id -> Row]
      BY <1>1, NextInv DEF CatalogInv, TypeOK
    <3>2. archives'[i] # NoRow /\ (archives'[i] # NoRow => archives'[i].path \in Path)
      BY <2>6, <3>1, RowNamed DEF Registered, NoRow
    <3>3. archives'[j] # NoRow
      BY <2>6, <3>2 DEF NoRow
    <3> QED
      BY <3>1, <3>3, RowNamed DEF Registered
  <2> HIDE DEF Same, Now
  <2>7. \A i, j \in Id : Now(i) /\ Now(j) => i = j
    BY DEF Now
  <2>8. \A i, j \in Id : Registered(i)' /\ archives'[i].path = archives'[j].path => i = j
    BY <2>2, <2>4, <2>5, <2>6, <2>7
  <2> QED
    BY <2>8 DEF OneRowPerRebuiltPath, Registered
<1> QED
  BY <1>1, <1>2, <1>3, <1>4, KeysStep

LEMMA RegistryInit == Init => RegistryInv
<1> SUFFICES ASSUME Init PROVE RegistryInv
  OBVIOUS
<1>1. \A i \in Id : archives[i] = NoRow
  BY DEF Init
<1>2. NoRow.uuid = None /\ NoRow.path = None /\ Idle.pc = "idle"
  BY DEF NoRow, Idle
<1>3. \A s \in Session : sess[s].pc = "idle"
  BY <1>2 DEF Init
<1>4. OnePlace
  BY <1>1, <1>2, <1>3 DEF Init, OnePlace, Placed, InHandOf
<1>5. Snapshots
  BY <1>3 DEF Snapshots, InSnapshot, Writing, At
<1>6. OneRowPerRebuiltPath
  BY <1>1, <1>2 DEF OneRowPerRebuiltPath, Registered
<1> QED
  BY <1>4, <1>5, <1>6, InitInv DEF RegistryInv

LEMMA RegistryStep == RegistryInv /\ [Next]_vars => RegistryInv'
BY NextInv, PlacesStep, SnapshotsStep, OneRowStep DEF RegistryInv

\* No two rows, files and sessions ever disagree on where an index belongs, and
\* what a session looked up is still so when it writes.
THEOREM RegistryInvariant == Spec => []RegistryInv
BY RegistryInit, RegistryStep, PTL DEF Spec

\* As long as index files are only built, rebuilt in place and deleted, a path
\* is registered once, for any number of sessions (Master::add, sync, rm).
THEOREM RebuiltPathHasOneRow == Spec => []OneRowPerRebuiltPath
<1>1. RegistryInv => OneRowPerRebuiltPath
  BY DEF RegistryInv
<1> QED
  BY <1>1, RegistryInvariant, PTL

-----------------------------------------------------------------------------
(***************************************************************************)
(* The refinement of Registry.                                             *)
(***************************************************************************)
EntryOf(i) == [uuid |-> archives[i].uuid, path |-> archives[i].path,
               status |-> archives[i].status, rows |-> replica[i]]
RestOf(k) == IF Registered(k) THEN Entries \ {EntryOf(k)} ELSE Entries
SameEntry(i) ==
  /\ archives'[i].uuid = archives[i].uuid /\ archives'[i].path = archives[i].path
  /\ archives'[i].status = archives[i].status /\ replica'[i] = replica[i]

\* What a step of Registry sees is the row of one archive_id.
LEMMA OneEntry ==
  ASSUME UniqueUuid, NEW k \in Id, \A i \in Id \ {k} : SameEntry(i)
  PROVE  Entries' = RestOf(k) \union (IF Registered(k)' THEN {EntryOf(k)'} ELSE {})
<1>1. \A e : e \in Entries <=> \E i \in Id : Registered(i) /\ e = EntryOf(i)
  BY DEF Entries, EntryOf
<1>2. \A e : e \in Entries' <=> \E i \in Id : Registered(i)' /\ e = EntryOf(i)'
  BY DEF Entries, EntryOf
<1>3. \A i \in Id \ {k} : (Registered(i)' <=> Registered(i)) /\ EntryOf(i)' = EntryOf(i)
  BY DEF SameEntry, Registered, EntryOf
<1>4. ASSUME NEW i \in Id, NEW j \in Id, Registered(i), Registered(j), EntryOf(i) = EntryOf(j)
      PROVE  i = j
  <2>1. EntryOf(i).uuid = archives[i].uuid /\ EntryOf(j).uuid = archives[j].uuid
    BY DEF EntryOf
  <2> QED
    BY <1>4, <2>1 DEF UniqueUuid
<1>5. \A e : e \in RestOf(k) <=> \E i \in Id \ {k} : Registered(i) /\ e = EntryOf(i)
  BY <1>1, <1>4 DEF RestOf
<1>6. \A e : e \in Entries' <=> e \in RestOf(k) \/ (Registered(k)' /\ e = EntryOf(k)')
  BY <1>2, <1>3, <1>5
<1> QED
  BY <1>6

LEMMA SameEntries ==
  ASSUME \A i \in Id : SameEntry(i)
  PROVE  Entries' = Entries
<1>1. \A i \in Id : (Registered(i)' <=> Registered(i)) /\ EntryOf(i)' = EntryOf(i)
  BY DEF SameEntry, Registered, EntryOf
<1>2. \A e : e \in Entries <=> \E i \in Id : Registered(i) /\ e = EntryOf(i)
  BY DEF Entries, EntryOf
<1>3. \A e : e \in Entries' <=> \E i \in Id : Registered(i)' /\ e = EntryOf(i)'
  BY DEF Entries, EntryOf
<1>4. \A e : e \in Entries' <=> e \in Entries
  BY <1>1, <1>2, <1>3
<1> QED
  BY <1>4

LEMMA UnchangedStutters ==
  ASSUME UNCHANGED <<archives, replica, disk>>, Proven' = Proven
  PROVE  UNCHANGED Abstract!vars
<1>1. Entries' = Entries
  BY SameEntries DEF SameEntry
<1> QED
  BY <1>1 DEF Abstract!vars

\* What is proven changes only where a session comes to its COMMIT, or leaves it.
ProvenBy(s) == [uuid |-> sess[s].uuid, path |-> sess[s].path]
LEMMA ProvenMembers ==
  \A c : c \in Proven <=> \E s \in Session : At(s, "commit") /\ c = ProvenBy(s)
BY DEF Proven, ProvenBy

LEMMA ProvenMembersNext ==
  \A c : c \in Proven' <=> \E s \in Session : At(s, "commit")' /\ c = ProvenBy(s)'
BY DEF Proven, ProvenBy

LEMMA ProvenStays ==
  ASSUME \A s \in Session :
           /\ At(s, "commit")' <=> At(s, "commit")
           /\ At(s, "commit") => ProvenBy(s)' = ProvenBy(s)
  PROVE  Proven' = Proven
<1>1. \A c : c \in Proven' <=> c \in Proven
  BY ProvenMembers, ProvenMembersNext
<1> QED
  BY <1>1

\* Nothing is proven while no session is at its COMMIT.
LEMMA NothingProven == (\A s \in Session : ~At(s, "commit")) => Proven = {}
BY DEF Proven
LEMMA NothingProvenNext == (\A s \in Session : ~At(s, "commit")') => Proven' = {}
BY DEF Proven

\* A step that writes nothing to the master leaves what is proven alone, unless it
\* proves it.
LEMMA LocalProven ==
  ASSUME TypeOK, NEW t \in Session, NEW next, Local(t, next),
         ~At(t, "commit"), sess'[t].pc # "commit"
  PROVE  Proven' = Proven
<1>1. \A s \in Session \ {t} : sess'[s] = sess[s]
  BY DEF Local, TypeOK
<1>2. ~At(t, "commit")'
  BY DEF At
<1> QED
  BY <1>1, <1>2, ProvenStays DEF At, ProvenBy

\* Only COMMIT is taken at "commit".
LEMMA CommitOnly ==
  ASSUME NEW t \in Session, By(t), ~Commit(t)
  PROVE  ~At(t, "commit")
BY DEF By, Start, StartAdd, StartRm, StartWalk, Busy, Step, AddStep, SyncStep, VerifyStep, RmStep,
       OpenIndex, OpenRefused, Lookup, Upsert, UpsertRefused, FinishJournal, FinishStamp, Rollback,
       SyncVisit, SyncIdentify, SyncMark, SyncRefresh, PruneCheck, VerifyVisit, VerifyCompare,
       VerifyHash, VerifyFails, VerifyMark, RmFind, RmRefused, RmFiles, RmRow, EndWalk, Return,
       IsNext, At

\* A write to the master is made, and leaves the master, with nothing else proven.
LEMMA WriteProven ==
  ASSUME TypeOK, NEW t \in Session, StepWrites(t)
  PROVE  /\ Proven' = {}
         /\ ~At(t, "commit") => Proven = {}
         /\ At(t, "commit") => Proven = {ProvenBy(t)}
<1>1. PICK next \in SessionState, touched \in BOOLEAN :
        /\ Committed(t, next, touched) /\ next.pc \notin MidAdd
        /\ \A s \in Session \ {t} : ~Writing(s)
  BY DEF StepWrites
<1>2. \A s \in Session : ~At(s, "commit")'
  BY <1>1, CommittedTyped DEF Writing, At
<1>3. \A s \in Session \ {t} : ~At(s, "commit")
  BY <1>1 DEF Writing, At
<1>4. ASSUME At(t, "commit")
      PROVE  Proven = {ProvenBy(t)}
  <2>1. \A c : c \in Proven <=> c = ProvenBy(t)
    BY <1>3, <1>4, ProvenMembers
  <2> QED
    BY <2>1
<1> QED
  BY <1>2, <1>3, <1>4, NothingProven, NothingProvenNext

LEMMA CommitRegisters ==
  ASSUME RegistryInv, NEW t \in Session, Commit(t)
  PROVE  \E c \in Proven : Abstract!Register(c)
<1>0. PICK k, u, p : k = sess[t].target /\ u = sess[t].uuid /\ p = sess[t].path
  OBVIOUS
<1> DEFINE row == [uuid |-> u, path |-> p, status |-> StatusOf(u), aged |-> FALSE]
<1>1. /\ CatalogInv /\ sess[t] \in SessionState /\ InHand(sess[t])
      /\ archives \in [Id -> Row] /\ replica \in [Id -> Uuid \union {None}]
  BY DEF RegistryInv, CatalogInv, TypeOK, SessionsInHand
<1>2. /\ At(t, "commit") /\ disk' = disk
      /\ archives' = [archives EXCEPT ![k] = row] /\ replica' = [replica EXCEPT ![k] = RowsOf(u)]
  BY <1>0 DEF Commit, RowsRead, world
<1>3. /\ k \in Id /\ u \in Uuid /\ p \in Path
      /\ \A j \in Id \ {k} : archives[j].uuid # u
  BY <1>0, <1>1, <1>2 DEF InHand, SessionState, At
<1>4. row.uuid = u /\ row.path = p /\ row.status = StatusOf(u)
  OBVIOUS
<1>5. Registered(k) => archives[k].uuid = u \/ archives[k].path = p
  BY <1>0, <1>2 DEF RegistryInv, Snapshots, InSnapshot, Matches, Writing, At
<1> DEFINE new == [uuid |-> u, path |-> p, status |-> StatusOf(u), rows |-> RowsOf(u)]
<1> HIDE DEF row, new
<1>6. /\ \A i \in Id \ {k} : SameEntry(i)
      /\ archives'[k] = row /\ replica'[k] = RowsOf(u)
  BY <1>1, <1>2, <1>3 DEF SameEntry
<1>7. Registered(k)' /\ EntryOf(k)' = new
  BY <1>3, <1>4, <1>6 DEF Registered, EntryOf, new
<1>8. Entries' = RestOf(k) \union {new}
  BY <1>1, <1>3, <1>6, <1>7, OneEntry DEF CatalogInv
<1>9. \A e \in Entries : \E i \in Id : Registered(i) /\ e = EntryOf(i)
  BY DEF Entries, EntryOf
<1>10. \A i : EntryOf(i).uuid = archives[i].uuid /\ EntryOf(i).path = archives[i].path
  BY DEF EntryOf
<1>11. RestOf(k) \in {Entries} \union {Entries \ {e} : e \in Entries}
  <2>1. Registered(k) => EntryOf(k) \in Entries
    BY <1>3 DEF Entries, EntryOf
  <2> QED
    BY <2>1 DEF RestOf
<1>12. \A e \in Entries \ RestOf(k) : e.uuid = u \/ e.path = p
  BY <1>5, <1>10 DEF RestOf
<1>13. \A e \in RestOf(k) : e.uuid # u
  <2>1. \A e \in RestOf(k) : \E i \in Id \ {k} : e = EntryOf(i)
    BY <1>9 DEF RestOf
  <2> QED
    BY <1>3, <1>10, <2>1
<1>14. StepWrites(t)
  BY <1>1, CommitWrites
<1>15. Proven' = {} /\ Proven = {ProvenBy(t)} /\ ProvenBy(t).uuid = u /\ ProvenBy(t).path = p
  BY <1>0, <1>1, <1>2, <1>14, WriteProven DEF CatalogInv, ProvenBy
<1>16. Abstract!Register(ProvenBy(t))
  <2>1. \E kept \in {Entries} \union {Entries \ {e} : e \in Entries} :
           /\ \A e \in Entries \ kept : e.uuid = u \/ e.path = p
           /\ \A e \in kept : e.uuid # u
           /\ Entries' = kept \union {new}
    BY <1>8, <1>11, <1>12, <1>13
  <2> QED
    BY <1>2, <1>15, <2>1 DEF Abstract!Register, new
<1> QED
  BY <1>15, <1>16

\* An UPDATE of a row's status is a Mark, or finds no row.
LEMMA UpdateMarks ==
  ASSUME RegistryInv, NEW t \in Session, NEW k \in 0..MaxId, NEW row, NEW next,
         UpdateRow(t, k, row, next), NEW st \in Status,
         k \in Id => /\ row.uuid = archives[k].uuid /\ row.path = archives[k].path
                     /\ Registered(k) => row.status = st,
         Proven = {}, Proven' = {}
  PROVE  [Abstract!Next]_(Abstract!vars)
<1>1. /\ archives \in [Id -> Row] /\ UniqueUuid
      /\ replica' = replica /\ disk' = disk
      /\ archives' = IF Registered(k) THEN [archives EXCEPT ![k] = row] ELSE archives
  BY DEF RegistryInv, CatalogInv, TypeOK, UpdateRow, world
<1>2. CASE k \notin Id \/ ~Registered(k)
  <2>1. archives' = archives
    BY <1>1, <1>2
  <2> QED
    BY <1>1, <2>1, UnchangedStutters
<1>3. CASE k \in Id /\ Registered(k)
  <2>1. (\A i \in Id \ {k} : SameEntry(i)) /\ archives'[k] = row
    BY <1>1, <1>3 DEF SameEntry
  <2>2. Registered(k)' /\ EntryOf(k)' = [EntryOf(k) EXCEPT !.status = st]
    BY <1>1, <1>3, <2>1 DEF Registered, EntryOf
  <2>3. Entries' = (Entries \ {EntryOf(k)}) \union {[EntryOf(k) EXCEPT !.status = st]}
    BY <1>1, <1>3, <2>1, <2>2, OneEntry DEF RestOf
  <2>4. EntryOf(k) \in Entries
    BY <1>3 DEF Entries, EntryOf
  <2>5. Abstract!Mark(EntryOf(k), st)
    BY <1>1, <2>3 DEF Abstract!Mark
  <2> QED
    BY <2>4, <2>5 DEF Abstract!Next
<1> QED
  BY <1>2, <1>3

LEMMA RmMaps ==
  ASSUME RegistryInv, NEW t \in Session, RmFiles(t) \/ RmRow(t), Proven = {}, Proven' = {}
  PROVE  [Abstract!Next]_(Abstract!vars)
<1>0. PICK k : k = sess[t].target
  OBVIOUS
<1>1. /\ archives \in [Id -> Row] /\ replica \in [Id -> Uuid \union {None}] /\ UniqueUuid
      /\ ReplicaCoherent /\ disk' = disk
  BY DEF RegistryInv, CatalogInv, TypeOK, RmFiles, RmRow, world
<1>2. k \in Id
  BY <1>0 DEF RegistryInv, CatalogInv, SessionsInHand, InHand, RmFiles, RmRow, At
<1>3. CASE ~Registered(k)
  <2>1. archives[k] = NoRow /\ replica[k] = None
    BY <1>1, <1>2, <1>3, RowNamed DEF Registered, ReplicaCoherent
  <2>2. archives' = archives /\ replica' = replica
    BY <1>0, <1>1, <1>2, <2>1 DEF RmFiles, RmRow
  <2> QED
    BY <1>1, <2>2, UnchangedStutters
<1>4. CASE Registered(k) /\ RmFiles(t)
  <2>1. archives' = archives /\ replica' = [replica EXCEPT ![k] = None]
    BY <1>0, <1>4 DEF RmFiles
  <2>2. \A i \in Id \ {k} : SameEntry(i)
    BY <1>1, <1>2, <2>1 DEF SameEntry
  <2>3. Registered(k)' /\ EntryOf(k)' = [EntryOf(k) EXCEPT !.rows = None]
    BY <1>1, <1>2, <1>4, <2>1 DEF Registered, EntryOf
  <2>4. Entries' = (Entries \ {EntryOf(k)}) \union {[EntryOf(k) EXCEPT !.rows = None]}
    BY <1>1, <1>2, <1>4, <2>2, <2>3, OneEntry DEF RestOf
  <2>5. EntryOf(k) \in Entries
    BY <1>2, <1>4 DEF Entries, EntryOf
  <2>6. Abstract!Empty(EntryOf(k))
    BY <1>1, <2>4 DEF Abstract!Empty
  <2> QED
    BY <2>5, <2>6 DEF Abstract!Next
<1>5. CASE Registered(k) /\ RmRow(t)
  <2>1. /\ archives' = [archives EXCEPT ![k] = NoRow]
        /\ replica' = [replica EXCEPT ![k] = None]
    BY <1>0, <1>5 DEF RmRow
  <2>2. \A i \in Id \ {k} : SameEntry(i)
    BY <1>1, <1>2, <2>1 DEF SameEntry
  <2>3. ~Registered(k)'
    BY <1>1, <1>2, <2>1 DEF Registered, NoRow
  <2>4. Entries' = Entries \ {EntryOf(k)}
    BY <1>1, <1>2, <1>5, <2>2, <2>3, OneEntry DEF RestOf
  <2>5. EntryOf(k) \in Entries
    BY <1>2, <1>5 DEF Entries, EntryOf
  <2>6. Abstract!Remove(EntryOf(k))
    BY <1>1, <2>4 DEF Abstract!Remove
  <2> QED
    BY <2>5, <2>6 DEF Abstract!Next
<1> QED
  BY <1>3, <1>4, <1>5

LEMMA MarksMap ==
  ASSUME RegistryInv, NEW t \in Session, SyncMark(t) \/ SyncRefresh(t) \/ VerifyMark(t),
         Proven = {}, Proven' = {}
  PROVE  [Abstract!Next]_(Abstract!vars)
<1>1. CatalogInv /\ TypeOK /\ sess[t] \in SessionState /\ archives \in [Id -> Row]
  BY DEF RegistryInv, CatalogInv, TypeOK
<1>2. sess[t].cur \in 0..MaxId /\ sess[t].verdict \in Status
  BY <1>1 DEF SessionState
<1>3. ASSUME NEW i \in Id, Registered(i), NEW st \in Status
      PROVE  /\ [archives[i] EXCEPT !.status = st].status = st
             /\ [archives[i] EXCEPT !.status = st, !.aged = FALSE].status = st
  <2> DEFINE r == archives[i]
  <2>1. r \in [uuid : Uuid, path : Path, status : Status, aged : BOOLEAN]
    BY <1>1, <1>3 DEF Row, NoRow, Registered
  <2> HIDE DEF r
  <2>2. [r EXCEPT !.status = st].status = st /\ [r EXCEPT !.status = st, !.aged = FALSE].status = st
    BY <2>1
  <2> QED
    BY <2>2 DEF r
<1>4. ASSUME NEW st \in Status, NEW next, NEW row, UpdateRow(t, sess[t].cur, row, next),
             \/ row = [archives[sess[t].cur] EXCEPT !.status = st]
             \/ row = [archives[sess[t].cur] EXCEPT !.status = st, !.aged = FALSE]
      PROVE  [Abstract!Next]_(Abstract!vars)
  <2>1. PICK k : k = sess[t].cur
    OBVIOUS
  <2>2. k \in Id => row.uuid = archives[k].uuid /\ row.path = archives[k].path
    <3>1. k \in Id =>
            /\ [archives[k] EXCEPT !.status = st].uuid = archives[k].uuid
            /\ [archives[k] EXCEPT !.status = st].path = archives[k].path
            /\ [archives[k] EXCEPT !.status = st, !.aged = FALSE].uuid = archives[k].uuid
            /\ [archives[k] EXCEPT !.status = st, !.aged = FALSE].path = archives[k].path
      BY <1>1, MarkedKeys
    <3> QED
      BY <1>4, <2>1, <3>1
  <2>3. k \in Id /\ Registered(k) => row.status = st
    BY <1>3, <1>4, <2>1, ZenonT(40)
  <2>4. k \in 0..MaxId /\ UpdateRow(t, k, row, next)
    BY <1>2, <1>4, <2>1
  <2> QED
    BY <2>2, <2>3, <2>4, UpdateMarks
<1>5. CASE SyncMark(t)
  BY <1>4, <1>5 DEF SyncMark, Status
<1>6. CASE SyncRefresh(t)
  BY <1>4, <1>6, StatusTyped DEF SyncRefresh
<1>7. CASE VerifyMark(t)
  BY <1>2, <1>4, <1>7 DEF VerifyMark
<1> QED
  BY <1>5, <1>6, <1>7

\* A step that writes nothing to the master shows nothing, unless it proves.
LEMMA LocalStutters ==
  ASSUME TypeOK, NEW t \in Session, NEW next, Local(t, next),
         ~At(t, "commit"), sess'[t].pc # "commit"
  PROVE  [Abstract!Next]_(Abstract!vars)
<1>1. UNCHANGED <<archives, replica, disk>>
  BY DEF Local, master, world
<1> QED
  BY <1>1, LocalProven, UnchangedStutters

\* The last observation of finish_index proves: the file is at its path then.
LEMMA StampProves ==
  ASSUME RegistryInv, NEW t \in Session, FinishStamp(t)
  PROVE  \E u \in Uuid, p \in Path : Abstract!Prove(u, p)
<1>1. CatalogInv /\ sess \in [Session -> SessionState] /\ sess[t] \in SessionState /\ InHand(sess[t])
  BY DEF RegistryInv, CatalogInv, TypeOK, SessionsInHand
<1>2. At(t, "stamp") /\ sess[t].intact /\ Local(t, [sess[t] EXCEPT !.pc = "commit"])
  BY DEF FinishStamp, SameFile
<1>3. PICK u, p : u = sess[t].uuid /\ p = sess[t].path
  OBVIOUS
<1>4. u \in Uuid /\ p \in Path /\ disk[p] = u
  BY <1>1, <1>2, <1>3 DEF InHand, SessionState, At
<1>5. /\ sess'[t].pc = "commit" /\ sess'[t].uuid = u /\ sess'[t].path = p
      /\ \A s \in Session \ {t} : sess'[s] = sess[s]
  BY <1>1, <1>2, <1>3 DEF Local, SessionState
<1>6. \A s \in Session \ {t} : ~At(s, "commit") /\ ~At(s, "commit")'
  BY <1>1, <1>2, <1>5 DEF CatalogInv, OneWriter, Writing, At
<1>7. Proven = {}
  BY <1>2, <1>6, NothingProven DEF At
<1>8. Proven' = {[uuid |-> u, path |-> p]}
  <2>1. \A c : c \in Proven' <=> c = [uuid |-> u, path |-> p]
    BY <1>5, <1>6, ProvenMembersNext DEF At, ProvenBy
  <2> QED
    BY <2>1
<1>9. UNCHANGED <<archives, replica, disk>>
  BY <1>2 DEF Local, master, world
<1>10. Entries' = Entries
  BY <1>9, SameEntries DEF SameEntry
<1> QED
  BY <1>4, <1>7, <1>8, <1>9, <1>10 DEF Abstract!Prove

LEMMA SessionMaps ==
  ASSUME RegistryInv, NEW t \in Session, By(t)
  PROVE  [Abstract!Next]_(Abstract!vars)
<1>1. CatalogInv /\ TypeOK
  BY DEF RegistryInv, CatalogInv
<1>2. CASE Commit(t)
  BY <1>2, CommitRegisters DEF Abstract!Next
<1>3. CASE FinishStamp(t)
  BY <1>3, StampProves DEF Abstract!Next
<1>4. ASSUME ~Commit(t), ~FinishStamp(t), NEW next, Local(t, next)
      PROVE  [Abstract!Next]_(Abstract!vars)
  <2>1. ~At(t, "commit")
    BY <1>4, CommitOnly
  <2>2. sess'[t].pc # "commit"
    <3>1. \A n : Local(t, n) => sess'[t] = n
      BY <1>1 DEF Local, TypeOK
    <3>2. sess[t] \in SessionState
      BY <1>1 DEF TypeOK
    <3>3. CASE OpenIndex(t)
      BY <3>1, <3>2, <3>3 DEF OpenIndex, SessionState
    <3>4. CASE Lookup(t)
      BY <3>1, <3>2, <3>4 DEF Lookup, SessionState
    <3>5. CASE Upsert(t)
      BY <3>1, <3>2, <3>5 DEF Upsert, SessionState
    <3>6. CASE FinishJournal(t)
      BY <3>1, <3>2, <3>6 DEF FinishJournal, SessionState
    <3> QED
      BY <1>1, <1>4, <3>3, <3>4, <3>5, <3>6, QuietBy DEF Registers, Finishes
  <2> QED
    BY <1>1, <1>4, <2>1, <2>2, LocalStutters
<1>5. ASSUME ~Commit(t), IsWrite(t), StepWrites(t)
      PROVE  [Abstract!Next]_(Abstract!vars)
  <2>1. Proven = {} /\ Proven' = {}
    BY <1>1, <1>5, CommitOnly, WriteProven
  <2> QED
    BY <1>5, <2>1, MarksMap, RmMaps DEF IsWrite
<1> QED
  BY <1>1, <1>2, <1>3, <1>4, <1>5, StepShape

LEMMA EnvironmentMaps ==
  ASSUME RegistryInv, RegistryInv', Environment
  PROVE  [Abstract!Next]_(Abstract!vars)
<1>0. ASSUME Outdoors
      PROVE  Proven' = Proven
  <2>1. \A s \in Session : Kept(s)
    BY <1>0, OutdoorsKept DEF RegistryInv
  <2>2. \A s \in Session :
          /\ At(s, "commit")' <=> At(s, "commit")
          /\ At(s, "commit") => ProvenBy(s)' = ProvenBy(s)
    BY <2>1 DEF Kept, At, ProvenBy
  <2> QED
    BY <2>2, ProvenStays, Zenon
<1>1. disk' \in [Path -> Uuid \union {None}] /\ archives \in [Id -> Row]
  BY DEF RegistryInv, CatalogInv, TypeOK
<1>2. CASE DaysPass
  <2>1. SameKeys /\ replica' = replica /\ disk' = disk
    BY <1>2, AgedKeys DEF RegistryInv, DaysPass
  <2>2. ASSUME NEW i \in Id
        PROVE  archives'[i].status = archives[i].status
    <3> DEFINE r == archives[i]
    <3>1. r \in Row
      BY <1>1
    <3>2. CASE Registered(i)
      <4>1. r \in [uuid : Uuid, path : Path, status : Status, aged : BOOLEAN]
        BY <3>1, <3>2 DEF Registered, Row, NoRow
      <4>2. archives'[i] = [r EXCEPT !.aged = TRUE]
        BY <1>2, <3>2 DEF DaysPass
      <4> HIDE DEF r
      <4> QED
        BY <4>1, <4>2 DEF r
    <3>3. CASE ~Registered(i)
      BY <1>2, <3>1, <3>3, RowNamed DEF DaysPass, Registered
    <3> QED
      BY <3>2, <3>3
  <2>3. Entries' = Entries
    BY <2>1, <2>2, SameEntries DEF SameEntry, SameKeys
  <2> QED
    BY <1>0, <1>2, <2>1, <2>3 DEF Abstract!vars, Outdoors
<1>3. CASE UNCHANGED <<archives, replica>> /\ Outdoors
  <2>1. Entries' = Entries
    BY <1>3, SameEntries DEF SameEntry
  <2> QED
    BY <1>0, <1>1, <1>3, <2>1 DEF Abstract!Next, Abstract!FilesChange
<1>4. CASE Outdoors /\ ~DaysPass
  <2>1. \E P \in SUBSET Path : Outside(P)
    BY <1>4 DEF Outdoors, Delete, WriterComes, WriterGoes, Build, Move, Copy, Relocate, ChangeSource
  <2> QED
    BY <1>3, <1>4, <2>1 DEF Outside, master
<1>5. ASSUME NEW s \in Session, Crash(s)
      PROVE  [Abstract!Next]_(Abstract!vars)
  <2>1. /\ UNCHANGED <<archives, replica, disk>> /\ sess \in [Session -> SessionState]
        /\ sess' = [sess EXCEPT ![s] = Idle]
    BY <1>5 DEF Crash, master, RegistryInv, CatalogInv, TypeOK
  <2>2. Entries' = Entries
    BY <2>1, SameEntries DEF SameEntry
  <2>3. /\ ~At(s, "commit")' /\ \A r \in Session \ {s} : sess'[r] = sess[r]
    BY <2>1 DEF At, Idle
  <2>4. CASE ~At(s, "commit")
    <3>1. Proven' = Proven
      BY <2>3, <2>4, ProvenStays DEF At, ProvenBy
    <3> QED
      BY <2>1, <3>1, UnchangedStutters
  <2>5. CASE At(s, "commit")
    <3>1. \A r \in Session \ {s} : ~At(r, "commit")
      BY <2>5 DEF RegistryInv, CatalogInv, OneWriter, Writing, At
    <3>2. Proven' = {}
      BY <2>3, <3>1, NothingProvenNext DEF At
    <3> QED
      BY <2>1, <2>2, <3>2 DEF Abstract!Next, Abstract!Withdraw
  <2> QED
    BY <2>4, <2>5
<1>6. Environment => Outdoors \/ \E s \in Session : Crash(s)
  BY DEF Environment, Outdoors
<1> QED
  BY <1>2, <1>4, <1>5, <1>6 DEF Outdoors

\* No interleaving, conflict, refusal or crash of any number of sessions shows in
\* the registry: each step is one of Registry, or changes nothing there
\* (Master::add, sync, verify, rm).
THEOREM SessionsImplementRegistry == Spec => ImplementsRegistry
<1>1. Init => Abstract!Init
  <2> SUFFICES ASSUME Init PROVE Abstract!Init
    OBVIOUS
  <2>1. \A i \in Id : ~Registered(i)
    BY DEF Init, Registered, NoRow
  <2>2. Entries = {}
    BY <2>1 DEF Entries
  <2>3. \A s \in Session : ~At(s, "commit")
    BY DEF Init, At, Idle
  <2> QED
    BY <2>2, <2>3, NothingProven DEF Init, Abstract!Init
<1>2. RegistryInv /\ RegistryInv' /\ [Next]_vars => [Abstract!Next]_(Abstract!vars)
  <2> SUFFICES ASSUME RegistryInv, RegistryInv', [Next]_vars PROVE [Abstract!Next]_(Abstract!vars)
    OBVIOUS
  <2>1. CASE UNCHANGED vars
    <3>1. Proven' = Proven
      BY <2>1, ProvenStays DEF vars, At, ProvenBy
    <3> QED
      BY <2>1, <3>1, UnchangedStutters DEF vars
  <2>2. CASE Next
    BY <2>2, EnvironmentMaps, SessionMaps DEF Next, By
  <2> QED
    BY <2>1, <2>2
<1> QED
  BY <1>1, <1>2, RegistryInvariant, PTL DEF Spec, ImplementsRegistry, Abstract!Spec

-----------------------------------------------------------------------------
(***************************************************************************)
(* What sync and verify tell.                                              *)
(***************************************************************************)
\* What a sync leaves behind: a row that tells of the index at its path, or one
\* whose index, or whose path, was given to another row.
Told(i) ==
  IF Readable(archives[i].path)
  THEN archives[i].uuid = disk[archives[i].path] /\ archives[i].status = StatusOf(archives[i].uuid)
  ELSE archives[i].status = "db-missing"
TakenOver(i) ==
  /\ Readable(archives[i].path)
  /\ \/ IsCopied(i)
     \/ \E k \in Id \ {i} : /\ archives[k].path = archives[i].path
                            /\ archives[k].uuid = disk[archives[i].path]
Right(i) == Registered(i) => Told(i) \/ TakenOver(i)

SyncPC == {"next", "identify", "missing", "unreadable", "age", "refresh", "open", "lookup",
           "upsert", "finish", "stamp", "commit", "find", "dropFiles", "dropRow", "done"}
AddPC == {"open"} \union MidAdd
RmPC == {"find", "dropFiles", "dropRow"}
AtRow == {"identify", "missing", "unreadable", "refresh"} \union AddPC

\* A sync that nobody disturbed: the rows ahead are as listed, those behind are
\* right, and of the row it is at the disk is as it was found.
Walked(s) ==
  LET r == sess[s]
      row == r.list[r.cur]
  IN /\ r.pc \in SyncPC
     /\ r.pc = "done" => \A i \in Id : Right(i)
     /\ r.pc # "done" =>
          /\ \A i \in Id : i > r.cur => archives[i] = r.list[i]
          /\ \A i \in Id : i < r.cur => Right(i)
     /\ r.pc \in {"next", "age"} \union RmPC /\ r.cur \in Id => Right(r.cur)
     /\ r.pc \in AtRow => r.cur \in Id /\ archives[r.cur] = row /\ row.uuid # None
     /\ r.pc = "missing" => disk[row.path] = None
     /\ r.pc = "unreadable" => ~Readable(row.path)
     /\ r.pc = "refresh" => Readable(row.path) /\ disk[row.path] = row.uuid /\ r.uuid = row.uuid
     /\ r.pc \in AddPC => r.path = row.path /\ Readable(row.path)
     /\ r.pc \in AddPC \ {"open"} => r.uuid = disk[row.path]
     /\ r.pc \in {"upsert"} \union WriterPC => r.target \in Matches(s) /\ r.target <= r.cur
     /\ r.pc \in {"age"} \union RmPC =>
          /\ r.cur \in Id /\ disk[row.path] = None
          /\ Registered(r.cur) => archives[r.cur].path = row.path
     /\ r.pc \notin AddPC \union {"done"} => r.path = None
     /\ r.pc \in RmPC => r.target = r.cur

\* The mark st of an index u is what verify would find.
Checked(u, st, cmd) ==
  st \notin {"db-missing", "v2-limited"} /\ HasStat(u) =>
    /\ (st = "archive-missing") <=> (now[SourceOf[u]] = None)
    /\ now[SourceOf[u]] # None =>
         /\ st = "stale-index" => now[SourceOf[u]] # seen[u]
         /\ StatOf[now[SourceOf[u]]] # StatOf[seen[u]] => st = "stale-index"
         /\ cmd = "deep" /\ HasHash(u) /\ st # "stale-index" => now[SourceOf[u]] = seen[u]
Marked(i, cmd) == Registered(i) => Checked(archives[i].uuid, archives[i].status, cmd)

\* A verify that nobody disturbed: the same for the marks it leaves.
Verified(s) ==
  LET r == sess[s]
      row == r.list[r.cur]
  IN /\ r.pc \in {"next", "compare", "hash", "judged", "done"}
     /\ r.pc = "done" => \A i \in Id : Marked(i, r.cmd)
     /\ r.pc # "done" =>
          /\ \A i \in Id : i > r.cur => archives[i] = r.list[i]
          /\ \A i \in Id : i < r.cur => Marked(i, r.cmd)
     /\ r.pc = "next" /\ r.cur \in Id => Marked(r.cur, r.cmd)
     /\ r.pc \in {"compare", "hash", "judged"} =>
          r.cur \in Id /\ archives[r.cur] = row /\ row.uuid # None
     /\ r.pc \in {"compare", "hash"} => now[SourceOf[row.uuid]] # None
     /\ r.pc = "hash" => StatOf[now[SourceOf[row.uuid]]] = StatOf[seen[row.uuid]]
     /\ r.pc = "judged" => Checked(row.uuid, r.verdict, r.cmd)

SessionTold(s) ==
  sess[s].alone =>
    /\ ~At(s, "idle") /\ Running(s, {"sync", "prune"}) => Walked(s)
    /\ ~At(s, "idle") /\ Running(s, {"verify", "deep"}) => Verified(s)

\* The inductive invariant of the walks.
SessionsTold == \A s \in Session : SessionTold(s)

\* While nothing changes, what was right stays right.
LEMMA SameView ==
  ASSUME UNCHANGED <<archives, disk, locked, seen, now>>
  PROVE  /\ \A i : (Right(i)' <=> Right(i)) /\ (Registered(i)' <=> Registered(i))
         /\ \A p : Readable(p)' <=> Readable(p)
         /\ \A i, c : Marked(i, c)' <=> Marked(i, c)
         /\ \A u, st, c : Checked(u, st, c)' <=> Checked(u, st, c)
<1>1. /\ \A i : Registered(i)' <=> Registered(i)
      /\ \A p : Readable(p)' <=> Readable(p)
  BY DEF Registered, Readable
<1>2. \A i : (Told(i)' <=> Told(i)) /\ (TakenOver(i)' <=> TakenOver(i))
  BY <1>1 DEF Told, TakenOver, IsCopied
<1>3. \A u, st, c : Checked(u, st, c)' <=> Checked(u, st, c)
  BY DEF Checked
<1> QED
  BY <1>1, <1>2, <1>3 DEF Right, Marked

\* A session that only waits keeps what it may tell.
LEMMA ToldKept ==
  ASSUME CatalogInv, NEW s \in Session, Kept(s), SessionTold(s)
  PROVE  SessionTold(s)'
<1> SUFFICES ASSUME sess'[s].alone, sess'[s].pc # "idle"
             PROVE  /\ sess'[s].cmd \in {"sync", "prune"} => Walked(s)'
                    /\ sess'[s].cmd \in {"verify", "deep"} => Verified(s)'
  BY DEF SessionTold, At, Running
<1>1. /\ sess'[s].pc = sess[s].pc /\ sess'[s].cmd = sess[s].cmd /\ sess'[s].list = sess[s].list
      /\ sess'[s].cur = sess[s].cur /\ sess'[s].path = sess[s].path /\ sess'[s].uuid = sess[s].uuid
      /\ sess'[s].target = sess[s].target /\ sess'[s].verdict = sess[s].verdict
      /\ sess[s].alone /\ UNCHANGED <<archives, disk, locked, seen, now>>
  BY DEF Kept, At
<1>2. Matches(s)' = Matches(s)
  BY <1>1 DEF Matches, Registered
<1>3. ASSUME Walked(s) PROVE Walked(s)'
  BY <1>1, <1>2, <1>3, SameView, SMTT(30) DEF Walked
<1>4. ASSUME Verified(s) PROVE Verified(s)'
  BY <1>1, <1>4, SameView, ZenonT(40) DEF Verified
<1> QED
  BY <1>1, <1>3, <1>4 DEF SessionTold, At, Running

LEMMA WalkedNext ==
  ASSUME NEW s \in Session, sess'[s].pc = "next", sess'[s].path = None,
         sess'[s].cur \in 0..MaxId,
         \A i \in Id : i > sess'[s].cur => archives'[i] = sess'[s].list[i],
         \A i \in Id : i <= sess'[s].cur => Right(i)'
  PROVE  Walked(s)'
BY DEF Walked, SyncPC, AddPC, RmPC, AtRow

LEMMA IdleWith ==
  ASSUME NEW pc, NEW cmd, NEW list, NEW cur, NEW alone
  PROVE  LET r == [Idle EXCEPT !.pc = pc, !.cmd = cmd, !.list = list, !.cur = cur,
                               !.alone = alone]
         IN /\ r.pc = pc /\ r.cmd = cmd /\ r.list = list /\ r.cur = cur /\ r.alone = alone
            /\ r.path = None
BY DEF Idle

LEMMA ResumeNext ==
  ASSUME NEW s \in Session, Running(s, {"sync", "prune", "verify", "deep"})
  PROVE  /\ Resume(s).pc = "next" /\ Resume(s).cmd = sess[s].cmd /\ Resume(s).path = None
         /\ Resume(s).list = sess[s].list /\ Resume(s).cur = sess[s].cur
         /\ Resume(s).alone = sess[s].alone
<1>1. Resume(s) = [Idle EXCEPT !.pc = "next", !.cmd = sess[s].cmd, !.list = sess[s].list,
                               !.cur = sess[s].cur, !.alone = sess[s].alone]
  BY DEF Resume, Running
<1> QED
  BY <1>1, IdleWith

\* A row that names no index promises nothing; one that is listed is what it was.
LEMMA WalkedRows ==
  ASSUME TypeOK, NEW s \in Session,
         \A i \in Id : i > sess[s].cur => archives[i] = sess[s].list[i]
  PROVE  /\ \A i \in Id : IsFirst(i, Listed(s)) =>
              /\ i > sess[s].cur /\ archives[i] = sess[s].list[i] /\ Registered(i)
              /\ \A j \in Id : j < i /\ j > sess[s].cur => ~Registered(j)
         /\ Listed(s) = {} => \A j \in Id : j > sess[s].cur => ~Registered(j)
BY DEF IsFirst, Listed, Registered

LEMMA WalkedAdd ==
  ASSUME RegistryInv, NEW s \in Session, Walked(s), Running(s, {"sync", "prune"}),
         Registers(s)
  PROVE  Walked(s)'
<1> DEFINE r == sess[s]
<1>0. PICK row : row = r.list[r.cur]
  OBVIOUS
<1>1. r \in SessionState /\ sess \in [Session -> SessionState] /\ archives \in [Id -> Row]
  BY DEF RegistryInv, CatalogInv, TypeOK
<1>2. UNCHANGED <<archives, disk, locked, seen, now>>
  BY DEF Registers, Finishes, FinishJournal, FinishStamp, OpenIndex, Lookup, Upsert, Local, master,
         world
<1>3. /\ r.pc \in AddPC /\ r.path = row.path /\ Readable(row.path)
      /\ r.cur \in Id /\ archives[r.cur] = row /\ row.uuid # None
      /\ \A i \in Id : i > r.cur => archives[i] = r.list[i]
      /\ \A i \in Id : i < r.cur => Right(i)
      /\ r.pc \in MidAdd => r.uuid = disk[row.path]
      /\ r.pc \in {"upsert"} \union WriterPC => r.target \in Matches(s) /\ r.target <= r.cur
  BY <1>0 DEF Walked, Registers, Finishes, FinishJournal, FinishStamp, OpenIndex, Lookup, Upsert, At,
              AddPC, AtRow
<1>4. ASSUME sess'[s].pc \in AddPC \ {"open"}, sess'[s].list = r.list, sess'[s].cur = r.cur,
             sess'[s].path = r.path, sess'[s].uuid = disk[row.path],
             sess'[s].pc \in {"upsert"} \union WriterPC =>
               sess'[s].target \in Matches(s)' /\ sess'[s].target <= r.cur
      PROVE  Walked(s)'
  <2>1. /\ \A i \in Id : i > sess'[s].cur => archives'[i] = sess'[s].list[i]
        /\ \A i \in Id : i < sess'[s].cur => Right(i)'
    BY <1>2, <1>3, <1>4, SameView
  <2>2. /\ sess'[s].cur \in Id /\ archives'[sess'[s].cur] = sess'[s].list[sess'[s].cur]
        /\ sess'[s].list[sess'[s].cur] = row /\ row.uuid # None /\ Readable(row.path)'
        /\ sess'[s].path = row.path /\ disk'[row.path] = sess'[s].uuid
    BY <1>0, <1>2, <1>3, <1>4, SameView
  <2>3. sess'[s].pc \in MidAdd
    BY <1>4 DEF AddPC
  <2> QED
    BY <1>4, <2>1, <2>2, <2>3 DEF Walked, SyncPC, AddPC, RmPC, AtRow
<1>5. CASE OpenIndex(s)
  <2>1. sess'[s] = [r EXCEPT !.pc = "lookup", !.uuid = disk[r.path], !.intact = TRUE]
    BY <1>1, <1>5 DEF OpenIndex, Local
  <2>2. /\ sess'[s].pc = "lookup" /\ sess'[s].list = r.list /\ sess'[s].cur = r.cur
        /\ sess'[s].path = r.path /\ sess'[s].uuid = disk[r.path]
    BY <1>1, <2>1 DEF SessionState
  <2> QED
    BY <1>3, <1>4, <2>2 DEF AddPC
<1>6. CASE Lookup(s)
  <2>1. PICK i \in 0..MaxId :
          /\ IF Matches(s) = {} THEN i = 0 ELSE IsFirst(i, Matches(s))
          /\ Local(s, [r EXCEPT !.pc = "upsert", !.target = i, !.current = TRUE])
    BY <1>6 DEF Lookup
  <2>2. sess'[s] = [r EXCEPT !.pc = "upsert", !.target = i, !.current = TRUE]
    BY <1>1, <2>1 DEF Local
  <2>3. /\ sess'[s].pc = "upsert" /\ sess'[s].list = r.list /\ sess'[s].cur = r.cur
        /\ sess'[s].path = r.path /\ sess'[s].uuid = r.uuid /\ sess'[s].target = i
    BY <1>1, <2>2 DEF SessionState
  <2>4. Matches(s)' = Matches(s)
    BY <1>2, <2>3 DEF Matches, Registered
  <2>5. r.cur \in Matches(s)
    BY <1>3 DEF Matches, Registered
  <2>6. i \in Matches(s) /\ i <= r.cur
    BY <2>1, <2>5 DEF IsFirst
  <2> QED
    BY <1>3, <1>4, <1>6, <2>3, <2>4, <2>6 DEF AddPC, Lookup, At
<1>7. CASE Upsert(s)
  <2>1. PICK i \in Id :
          /\ IF r.target = 0 THEN IsNewRowid(i) ELSE i = r.target
          /\ Local(s, [r EXCEPT !.pc = "finish", !.target = i])
    BY <1>7 DEF Upsert
  <2>2. sess'[s] = [r EXCEPT !.pc = "finish", !.target = i]
    BY <1>1, <2>1 DEF Local
  <2>3. /\ sess'[s].pc = "finish" /\ sess'[s].list = r.list /\ sess'[s].cur = r.cur
        /\ sess'[s].path = r.path /\ sess'[s].uuid = r.uuid /\ sess'[s].target = i
    BY <1>1, <2>2 DEF SessionState
  <2>4. Matches(s)' = Matches(s)
    BY <1>2, <2>3 DEF Matches, Registered
  <2>5. r.target \in Matches(s) /\ r.target <= r.cur
    BY <1>3, <1>7 DEF Upsert, At
  <2>6. r.target # 0
    BY <2>5 DEF Matches
  <2> QED
    BY <1>3, <1>4, <1>7, <2>1, <2>3, <2>4, <2>5, <2>6 DEF AddPC, Upsert, At
<1>8. CASE Finishes(s)
  <2>1. Matches(s)' = Matches(s)
    BY <1>2, <1>8, FinishMoves DEF Matches, Registered, RegistryInv
  <2> QED
    BY <1>3, <1>4, <1>8, <2>1, FinishMoves DEF AddPC, Writing, RegistryInv
<1> QED
  BY <1>5, <1>6, <1>7, <1>8 DEF Registers

\* What is right stays so while the rows keep their keys and the disk is the same.
LEMMA RightMarked ==
  ASSUME SameKeys, UNCHANGED <<disk, locked>>, NEW i \in Id, Right(i),
         archives'[i].status = archives[i].status
  PROVE  Right(i)'
<1>1. \A p : Readable(p)' <=> Readable(p)
  BY DEF Readable
<1>2. Registered(i)' <=> Registered(i)
  BY DEF Registered, SameKeys
<1>3. Told(i) => Told(i)'
  BY <1>1 DEF Told, SameKeys
<1>4. TakenOver(i) => TakenOver(i)'
  BY <1>1 DEF TakenOver, IsCopied, SameKeys
<1> QED
  BY <1>2, <1>3, <1>4 DEF Right

\* The row that sync registered is right, and so is every row that it took the
\* path or the index of.
LEMMA WalkedCommit ==
  ASSUME RegistryInv, NEW s \in Session, Walked(s), Running(s, {"sync", "prune"}), Commit(s)
  PROVE  Walked(s)'
<1>0. PICK r, k, u, p : r = sess[s] /\ k = r.target /\ u = r.uuid /\ p = r.path
  OBVIOUS
<1> DEFINE row == r.list[r.cur]
           new == [uuid |-> u, path |-> p, status |-> StatusOf(u), aged |-> FALSE]
<1>1. r \in SessionState /\ sess \in [Session -> SessionState] /\ archives \in [Id -> Row]
      /\ InHand(r)
  BY <1>0 DEF RegistryInv, CatalogInv, TypeOK, SessionsInHand
<1>2. /\ r.pc = "commit" /\ sess'[s] = Resume(s) /\ UNCHANGED <<disk, locked>>
      /\ archives' = [archives EXCEPT ![k] = new]
  BY <1>0 DEF Commit, At, world, Committed
<1>3. /\ p = row.path /\ Readable(p) /\ u = disk[p]
      /\ r.cur \in Id /\ archives[r.cur] = row /\ row.uuid # None
      /\ \A i \in Id : i > r.cur => archives[i] = r.list[i]
      /\ \A i \in Id : i < r.cur => Right(i)
      /\ k \in Matches(s) /\ k <= r.cur
  BY <1>0, <1>2 DEF Walked, AddPC, AtRow
<1>4. k \in Id /\ (archives[k].uuid = u \/ archives[k].path = p)
  BY <1>0, <1>3 DEF Matches
<1>5. new.uuid = u /\ new.path = p /\ new.status = StatusOf(u)
  OBVIOUS
<1>6. archives[r.cur].path = p
  BY <1>3
<1> HIDE DEF new, row
<1>7. archives'[k] = new /\ \A i \in Id \ {k} : archives'[i] = archives[i]
  BY <1>1, <1>2, <1>4
<1>8. \A q : Readable(q)' <=> Readable(q)
  BY <1>2 DEF Readable
<1>9. Right(k)'
  BY <1>2, <1>3, <1>5, <1>7, <1>8 DEF Right, Told
<1>10. ASSUME NEW i \in Id \ {k}, archives[i].path = p
       PROVE  Right(i)'
  BY <1>2, <1>3, <1>4, <1>5, <1>7, <1>8, <1>10 DEF Right, TakenOver
<1>11. ASSUME NEW i \in Id \ {k}, archives[i].path # p, Right(i)
       PROVE  Right(i)'
  <2>1. Told(i) => Told(i)'
    BY <1>2, <1>7, <1>8 DEF Told
  <2>2. IsCopied(i) => IsCopied(i)'
    BY <1>2, <1>7 DEF IsCopied
  <2>3. ASSUME NEW j \in Id \ {i}, archives[j].path = archives[i].path,
               archives[j].uuid = disk[archives[i].path], Readable(archives[i].path)
        PROVE  TakenOver(i)'
    <3>1. CASE j = k
      <4>1. p \in Path /\ disk[p] = disk[archives[i].path]
        BY <1>0, <1>1, <1>2, <1>3, <1>4, <1>11, <2>3, <3>1 DEF InHand, SessionState
      <4>2. IsCopied(i)'
        BY <1>2, <1>7, <1>11, <4>1 DEF IsCopied
      <4> QED
        BY <1>7, <1>8, <2>3, <4>2 DEF TakenOver
    <3>2. CASE j # k
      BY <1>2, <1>7, <1>8, <2>3, <3>2 DEF TakenOver
    <3> QED
      BY <3>1, <3>2
  <2>4. TakenOver(i) => TakenOver(i)'
    BY <1>7, <1>8, <2>2, <2>3 DEF TakenOver
  <2>5. Registered(i)' <=> Registered(i)
    BY <1>7 DEF Registered
  <2> QED
    BY <1>11, <2>1, <2>4, <2>5 DEF Right
<1>12. /\ sess'[s].pc = "next" /\ sess'[s].path = None
       /\ sess'[s].list = r.list /\ sess'[s].cur = r.cur /\ r.cur \in 0..MaxId
  BY <1>0, <1>2, <1>3, ResumeNext DEF Running
<1>13. \A i \in Id : i <= r.cur => Right(i)'
  BY <1>3, <1>6, <1>9, <1>10, <1>11
<1>14. \A i \in Id : i > r.cur => archives'[i] = r.list[i]
  BY <1>3, <1>4, <1>7
<1> QED
  BY <1>12, <1>13, <1>14, WalkedNext

LEMMA WalkedVisit ==
  ASSUME RegistryInv, NEW s \in Session, Walked(s), Running(s, {"sync", "prune"}),
         SyncVisit(s) \/ EndWalk(s)
  PROVE  Walked(s)'
<1> DEFINE r == sess[s]
<1>1. r \in SessionState /\ sess \in [Session -> SessionState] /\ archives \in [Id -> Row]
      /\ r.cur \in 0..MaxId /\ TypeOK
  BY DEF RegistryInv, CatalogInv, TypeOK, SessionState
<1>2. UNCHANGED <<archives, disk, locked, seen, now>>
  BY DEF SyncVisit, EndWalk, Local, master, world
<1>3. /\ r.pc = "next" /\ r.path = None
      /\ \A i \in Id : i > r.cur => archives[i] = r.list[i]
      /\ \A i \in Id : i <= r.cur => Right(i)
  <2>1. r.pc = "next"
    BY DEF SyncVisit, EndWalk, IsNext, At
  <2>2. /\ \A i \in Id : i > r.cur => archives[i] = r.list[i]
        /\ \A i \in Id : i < r.cur => Right(i)
        /\ r.cur \in Id => Right(r.cur)
        /\ r.path = None
    BY <2>1 DEF Walked, AddPC
  <2> QED
    BY <1>1, <2>1, <2>2
<1>4. /\ \A i \in Id : IsFirst(i, Listed(s)) =>
              /\ i > r.cur /\ archives[i] = r.list[i] /\ Registered(i)
              /\ \A j \in Id : j < i /\ j > r.cur => ~Registered(j)
      /\ Listed(s) = {} => \A j \in Id : j > r.cur => ~Registered(j)
  BY <1>1, <1>3, WalkedRows
<1>5. \A j \in Id : ~Registered(j) => Right(j)
  BY DEF Right
<1>6. CASE EndWalk(s)
  <2>1. sess'[s].pc = "done"
    BY <1>1, <1>6 DEF EndWalk, Local, Idle
  <2>2. \A j \in Id : Right(j)
    BY <1>1, <1>3, <1>4, <1>5, <1>6 DEF EndWalk
  <2>3. \A j \in Id : Right(j)'
    BY <1>2, <2>2, SameView
  <2> QED
    BY <2>1, <2>3 DEF Walked, SyncPC, AddPC, RmPC, AtRow
<1>7. CASE SyncVisit(s)
  <2>1. PICK i \in Id :
          /\ IsNext(s, i)
          /\ Local(s, [r EXCEPT
               !.cur = i,
               !.pc = IF disk[r.list[i].path] # None THEN "identify"
                      ELSE IF r.list[i].status # "db-missing" THEN "missing"
                      ELSE AfterMissing(s)])
    BY <1>7 DEF SyncVisit
  <2>2. PICK pc, row : /\ row = archives[i]
                       /\ pc = IF disk[row.path] # None THEN "identify"
                               ELSE IF row.status # "db-missing" THEN "missing"
                               ELSE AfterMissing(s)
    OBVIOUS
  <2>3. /\ i > r.cur /\ archives[i] = r.list[i] /\ Registered(i) /\ row = r.list[i]
        /\ \A j \in Id : j < i => Right(j)
    BY <1>1, <1>3, <1>4, <1>5, <2>1, <2>2 DEF IsNext
  <2>4. sess'[s] = [r EXCEPT !.cur = i, !.pc = pc]
    BY <1>1, <2>1, <2>2, <2>3 DEF Local
  <2>5. /\ sess'[s].pc = pc /\ sess'[s].cur = i /\ sess'[s].list = r.list /\ sess'[s].path = None
    BY <1>1, <1>3, <2>4 DEF SessionState
  <2>6. /\ \A j \in Id : j < i => Right(j)'
        /\ \A j \in Id : j > i => archives'[j] = r.list[j]
        /\ row.uuid # None /\ archives'[i] = row /\ (Right(i) => Right(i)')
        /\ Registered(i)'
    BY <1>1, <1>2, <1>3, <2>2, <2>3, SameView DEF Registered
  <2>7. CASE pc \in {"identify", "missing"}
    BY <1>2, <2>2, <2>3, <2>5, <2>6, <2>7, SMTT(30) DEF Walked, SyncPC, AddPC, RmPC, AtRow, AfterMissing
  <2>8. CASE pc \notin {"identify", "missing"}
    <3>1. /\ pc \in {"age", "next"} /\ disk[row.path] = None /\ row.status = "db-missing"
      BY <2>2, <2>8 DEF AfterMissing
    <3>2. Right(i)
      BY <2>2, <3>1 DEF Right, Told, Readable
    <3>3. CASE pc = "next"
      BY <2>5, <2>6, <3>2, <3>3, WalkedNext
    <3>4. CASE pc = "age"
      <4>1. Right(sess[s].cur)'
        BY <2>5, <2>6, <3>2
      <4> QED
        BY <1>2, <2>2, <2>3, <2>5, <2>6, <3>1, <3>4, <4>1, ZenonT(40) DEF Walked, SyncPC, AddPC, RmPC, AtRow
    <3> QED
      BY <3>1, <3>3, <3>4
  <2> QED
    BY <2>7, <2>8
<1> QED
  BY <1>6, <1>7

LEMMA WalkedIdentify ==
  ASSUME RegistryInv, NEW s \in Session, Walked(s), Running(s, {"sync", "prune"}),
         SyncIdentify(s)
  PROVE  Walked(s)'
<1>0. PICK r, row : r = sess[s] /\ row = r.list[r.cur]
  OBVIOUS
<1>1. r \in SessionState /\ sess \in [Session -> SessionState]
  BY <1>0 DEF RegistryInv, CatalogInv, TypeOK
<1>2. UNCHANGED <<archives, disk, locked, seen, now>>
  BY DEF SyncIdentify, Local, master, world
<1>3. /\ r.cur \in Id /\ archives[r.cur] = row /\ row.uuid # None /\ r.path = None
      /\ \A i \in Id : i > r.cur => archives'[i] = r.list[i]
      /\ \A i \in Id : i < r.cur => Right(i)'
  BY <1>0, <1>2, SameView DEF Walked, SyncIdentify, At, AddPC, AtRow
<1>4. sess'[s] = IF ~Readable(row.path) THEN [r EXCEPT !.pc = "unreadable"]
                 ELSE IF disk[row.path] # row.uuid \/ row.status = "db-missing"
                 THEN [r EXCEPT !.pc = "open", !.path = row.path]
                 ELSE [r EXCEPT !.pc = "refresh", !.uuid = disk[row.path]]
  BY <1>0, <1>1 DEF SyncIdentify, Local
<1>5. /\ sess'[s].list = r.list /\ sess'[s].cur = r.cur
      /\ \/ ~Readable(row.path) /\ sess'[s].pc = "unreadable" /\ sess'[s].path = None
         \/ Readable(row.path) /\ sess'[s].pc = "open" /\ sess'[s].path = row.path
         \/ /\ Readable(row.path) /\ sess'[s].pc = "refresh" /\ sess'[s].path = None
            /\ disk[row.path] = row.uuid /\ sess'[s].uuid = row.uuid
  BY <1>1, <1>3, <1>4 DEF SessionState
<1>6. /\ sess'[s].list[sess'[s].cur] = row /\ archives'[sess'[s].cur] = row
      /\ disk' = disk /\ (\A p : Readable(p)' <=> Readable(p))
  BY <1>0, <1>2, <1>3, <1>5, SameView
<1>7. CASE sess'[s].pc = "unreadable"
  BY <1>3, <1>5, <1>6, <1>7 DEF Walked, SyncPC, AddPC, RmPC, AtRow
<1>8. CASE sess'[s].pc = "open"
  BY <1>3, <1>5, <1>6, <1>8 DEF Walked, SyncPC, AddPC, RmPC, AtRow
<1>9. CASE sess'[s].pc = "refresh"
  BY <1>3, <1>5, <1>6, <1>9 DEF Walked, SyncPC, AddPC, RmPC, AtRow
<1> QED
  BY <1>5, <1>7, <1>8, <1>9

\* The row sync is at is marked, and the rows behind it stay right.
LEMMA WalkedUpdate ==
  ASSUME RegistryInv, NEW s \in Session, Walked(s), Running(s, {"sync", "prune"}),
         SyncMark(s) \/ SyncRefresh(s)
  PROVE  Walked(s)'
<1>0. PICK r, k, row : r = sess[s] /\ k = r.cur /\ row = r.list[k]
  OBVIOUS
<1>1. /\ r \in SessionState /\ sess \in [Session -> SessionState] /\ archives \in [Id -> Row]
      /\ CatalogInv /\ TypeOK
  BY <1>0 DEF RegistryInv, CatalogInv, TypeOK
<1>2. /\ k \in Id /\ archives[k] = row /\ row.uuid # None /\ r.path = None
      /\ \A i \in Id : i > k => archives[i] = r.list[i]
      /\ \A i \in Id : i < k => Right(i)
      /\ SyncMark(s) => ~Readable(row.path)
      /\ At(s, "missing") => disk[row.path] = None
      /\ SyncRefresh(s) => Readable(row.path) /\ disk[row.path] = row.uuid /\ r.uuid = row.uuid
  BY <1>0 DEF Walked, SyncMark, SyncRefresh, At, AddPC, AtRow, Readable
<1>3. Registered(k)
  BY <1>2 DEF Registered
<1>4. PICK new :
        /\ archives' = [archives EXCEPT ![k] = new] /\ UNCHANGED <<disk, locked>>
        /\ new.uuid = row.uuid /\ new.path = row.path
        /\ IF SyncMark(s) THEN new.status = "db-missing" ELSE new.status = StatusOf(row.uuid)
  <2>1. ASSUME NEW v \in Status
        PROVE  /\ [archives[k] EXCEPT !.status = v].uuid = row.uuid
               /\ [archives[k] EXCEPT !.status = v].path = row.path
               /\ [archives[k] EXCEPT !.status = v].status = v
               /\ [archives[k] EXCEPT !.status = v, !.aged = FALSE].uuid = row.uuid
               /\ [archives[k] EXCEPT !.status = v, !.aged = FALSE].path = row.path
               /\ [archives[k] EXCEPT !.status = v, !.aged = FALSE].status = v
    <3>1. row \in [uuid : Uuid, path : Path, status : Status, aged : BOOLEAN]
      BY <1>1, <1>2 DEF Row, NoRow
    <3> QED
      BY <1>2, <3>1
  <2>2. CASE SyncMark(s)
    <3>1. /\ archives' = [archives EXCEPT ![k] = [archives[k] EXCEPT !.status = "db-missing"]]
          /\ UNCHANGED <<disk, locked>>
      BY <1>0, <1>3, <2>2 DEF SyncMark, UpdateRow, world
    <3>2. "db-missing" \in Status
      BY DEF Status
    <3> QED
      BY <2>1, <2>2, <3>1, <3>2
  <2>3. CASE SyncRefresh(s) /\ ~SyncMark(s)
    <3>1. /\ archives' = [archives EXCEPT ![k] = [archives[k] EXCEPT !.status = StatusOf(r.uuid),
                                                                      !.aged = FALSE]]
          /\ UNCHANGED <<disk, locked>>
      BY <1>0, <1>3, <2>3 DEF SyncRefresh, UpdateRow, world
    <3>2. StatusOf(r.uuid) \in Status /\ r.uuid = row.uuid
      BY <1>2, <2>3, StatusTyped
    <3> QED
      BY <2>1, <2>3, <3>1, <3>2
  <2> QED
    BY <2>2, <2>3
<1>5. /\ archives'[k] = new /\ \A i \in Id \ {k} : archives'[i] = archives[i]
      /\ SameKeys /\ (\A p : Readable(p)' <=> Readable(p))
  BY <1>1, <1>2, <1>4 DEF SameKeys, Readable
<1>6. \A i \in Id : i < k => Right(i)'
  BY <1>2, <1>4, <1>5, RightMarked
<1>7. Right(k)'
  BY <1>2, <1>4, <1>5 DEF Right, Told
<1>8. \A i \in Id : i > k => archives'[i] = r.list[i]
  BY <1>2, <1>5
<1>9. CASE sess'[s] = Resume(s)
  <2>1. /\ sess'[s].pc = "next" /\ sess'[s].path = None
        /\ sess'[s].list = r.list /\ sess'[s].cur = k
    BY <1>0, <1>9, ResumeNext DEF Running
  <2> QED
    BY <1>2, <1>6, <1>7, <1>8, <2>1, WalkedNext
<1>10. CASE SyncMark(s)
  <2>1. PICK pc : /\ pc = IF At(s, "missing") THEN AfterMissing(s) ELSE "next"
                  /\ sess'[s] = [r EXCEPT !.pc = pc]
    BY <1>0, <1>10 DEF SyncMark, UpdateRow, Committed
  <2>2. /\ sess'[s].pc = pc /\ sess'[s].path = None /\ sess'[s].list = r.list /\ sess'[s].cur = k
    BY <1>0, <1>1, <1>2, <2>1 DEF SessionState
  <2>3. CASE pc = "next"
    BY <1>2, <1>6, <1>7, <1>8, <2>2, <2>3, WalkedNext
  <2>4. CASE pc # "next"
    <3>1. pc = "age" /\ disk'[row.path] = None
      BY <1>2, <1>4, <2>1, <2>4 DEF AfterMissing
    <3>2. Right(sess[s].cur)' /\ archives'[sess'[s].cur].path = row.path
      BY <1>4, <1>5, <1>7, <2>2
    <3> QED
      BY <1>0, <1>2, <1>6, <1>8, <2>2, <3>1, <3>2, ZenonT(40) DEF Walked, SyncPC, AddPC, RmPC, AtRow
  <2> QED
    BY <2>3, <2>4
<1>11. SyncRefresh(s) => sess'[s] = Resume(s)
  BY DEF SyncRefresh, UpdateRow, Committed
<1> QED
  BY <1>9, <1>10, <1>11

LEMMA WalkedPrune ==
  ASSUME RegistryInv, NEW s \in Session, Walked(s), Running(s, {"sync", "prune"}),
         PruneCheck(s) \/ RmFind(s) \/ RmFiles(s) \/ RmRow(s)
  PROVE  Walked(s)'
<1>0. PICK r, k, row : r = sess[s] /\ k = r.cur /\ row = r.list[k]
  OBVIOUS
<1>1. /\ r \in SessionState /\ sess \in [Session -> SessionState] /\ archives \in [Id -> Row]
  BY <1>0 DEF RegistryInv, CatalogInv, TypeOK
<1>2. /\ k \in Id /\ disk[row.path] = None /\ r.path = None
      /\ Registered(k) => archives[k].path = row.path
      /\ \A i \in Id : i > k => archives[i] = r.list[i]
      /\ \A i \in Id : i < k => Right(i)
      /\ Right(k)
      /\ ~PruneCheck(s) => r.target = k
  <2>1. /\ r.pc \in {"age"} \union RmPC /\ r.pc \notin AddPC \union {"done"}
        /\ r.pc \in {"next", "age"} \union RmPC /\ (~PruneCheck(s) => r.pc \in RmPC)
    BY <1>0 DEF PruneCheck, RmFind, RmFiles, RmRow, At, RmPC, AddPC
  <2>2. k \in Id /\ (Right(r.cur) => Right(k))
    BY <1>0, <2>1 DEF Walked
  <2> QED
    BY <1>0, <2>1, <2>2 DEF Walked
<1>3. ASSUME UNCHANGED <<archives, disk, locked, seen, now>>, sess'[s].list = r.list,
             sess'[s].cur = k, sess'[s].path = None,
             \/ sess'[s].pc = "next"
             \/ sess'[s].pc \in RmPC /\ sess'[s].target = k
      PROVE  Walked(s)'
  <2>1. /\ \A i \in Id : i > k => archives'[i] = r.list[i]
        /\ \A i \in Id : i <= k => Right(i)'
        /\ Registered(k)' <=> Registered(k)
    BY <1>2, <1>3, SameView
  <2>2. CASE sess'[s].pc = "next"
    BY <1>2, <1>3, <2>1, <2>2, WalkedNext
  <2>3. CASE sess'[s].pc \in RmPC /\ sess'[s].target = k
    <3>1. Right(sess[s].cur)' /\ sess'[s].list[sess'[s].cur] = row
      BY <1>0, <1>2, <1>3, <2>1
    <3>2. Registered(sess[s].cur)' => archives'[sess'[s].cur].path = row.path
      BY <1>2, <1>3, <2>1 DEF Registered
    <3> QED
      BY <1>2, <1>3, <2>1, <2>3, <3>1, <3>2, SMTT(30) DEF Walked, SyncPC, AddPC, RmPC, AtRow
  <2> QED
    BY <1>3, <2>2, <2>3
<1>4. CASE PruneCheck(s)
  <2>1. UNCHANGED <<archives, disk, locked, seen, now>>
    BY <1>4 DEF PruneCheck, Local, master, world
  <2>2. sess'[s] = Resume(s) \/ sess'[s] = [r EXCEPT !.pc = "find", !.target = k]
    BY <1>0, <1>1, <1>4 DEF PruneCheck, Local
  <2>3. CASE sess'[s] = Resume(s)
    BY <1>0, <1>3, <2>1, <2>3, ResumeNext DEF Running
  <2>4. CASE sess'[s] = [r EXCEPT !.pc = "find", !.target = k]
    <3>1. /\ sess'[s].pc = "find" /\ sess'[s].target = k
          /\ sess'[s].list = r.list /\ sess'[s].cur = k /\ sess'[s].path = None
      BY <1>0, <1>1, <1>2, <2>4 DEF SessionState
    <3> QED
      BY <1>3, <2>1, <3>1 DEF RmPC
  <2> QED
    BY <2>2, <2>3, <2>4
<1>5. CASE RmFind(s)
  <2>1. PICK i \in Id : KeyMatches(s) = {i} /\ Local(s, [r EXCEPT !.pc = "dropFiles", !.target = i])
    BY <1>0, <1>5 DEF RmFind
  <2>2. UNCHANGED <<archives, disk, locked, seen, now>>
    BY <2>1 DEF Local, master, world
  <2>3. i = k
    <3>1. Registered(i) /\ (i = k \/ archives[i].path = None)
      BY <1>0, <1>2, <1>5, <2>1 DEF KeyMatches, PruneCheck, RmFind, At
    <3>2. archives[i] # NoRow => archives[i].path \in Path
      BY <1>1, RowNamed
    <3> QED
      BY <3>1, <3>2 DEF Registered, NoRow
  <2>4. sess'[s] = [r EXCEPT !.pc = "dropFiles", !.target = i]
    BY <1>1, <2>1 DEF Local
  <2>5. /\ sess'[s].pc = "dropFiles" /\ sess'[s].target = k
        /\ sess'[s].list = r.list /\ sess'[s].cur = k /\ sess'[s].path = None
    BY <1>0, <1>1, <1>2, <2>3, <2>4 DEF SessionState
  <2> QED
    BY <1>3, <2>2, <2>5 DEF RmPC
<1>6. CASE RmFiles(s)
  <2>1. UNCHANGED <<archives, disk, locked, seen, now>> /\ At(s, "dropFiles")
        /\ sess'[s] = [r EXCEPT !.pc = "dropRow"]
    BY <1>0, <1>6 DEF RmFiles, world, Committed
  <2>2. /\ sess'[s].pc = "dropRow" /\ sess'[s].target = r.target
        /\ sess'[s].list = r.list /\ sess'[s].cur = k /\ sess'[s].path = None
    BY <1>0, <1>1, <1>2, <2>1 DEF SessionState
  <2>3. r.target = k
    BY <1>0, <1>2, <2>1 DEF PruneCheck, At
  <2> QED
    BY <1>3, <2>1, <2>2, <2>3 DEF RmPC
<1>7. CASE RmRow(s)
  <2>1. /\ archives' = [archives EXCEPT ![r.target] = NoRow] /\ UNCHANGED <<disk, locked>>
        /\ At(s, "dropRow") /\ sess'[s] = Resume(s)
    BY <1>0, <1>7 DEF RmRow, world, Committed
  <2>2. r.target = k
    BY <1>0, <1>2, <2>1 DEF PruneCheck, At
  <2>3. archives'[k] = NoRow /\ \A i \in Id \ {k} : archives'[i] = archives[i]
    BY <1>1, <1>2, <2>1, <2>2
  <2>4. \A p : Readable(p)' <=> Readable(p)
    BY <2>1 DEF Readable
  <2>5. Right(k)'
    BY <2>3 DEF Right, Registered, NoRow
  <2>6. ASSUME NEW i \in Id, i < k, Right(i)
        PROVE  Right(i)'
    <3>1. i # k /\ archives'[i] = archives[i] /\ (Registered(i)' <=> Registered(i))
      BY <1>2, <2>3, <2>6 DEF Registered
    <3>2. Told(i) => Told(i)'
      BY <2>1, <2>4, <3>1 DEF Told
    <3>3. IsCopied(i) => IsCopied(i)'
      BY <2>1, <3>1 DEF IsCopied
    <3>4. ASSUME NEW j \in Id \ {i}, Readable(archives[i].path),
                 archives[j].path = archives[i].path, archives[j].uuid = disk[archives[i].path]
          PROVE  archives'[j] = archives[j]
      <4>1. j # k
        BY <1>2, <3>4 DEF Readable, Registered
      <4> QED
        BY <2>3, <4>1
    <3>5. TakenOver(i) => TakenOver(i)'
      <4>1. CASE Readable(archives[i].path) /\ IsCopied(i)
        BY <2>4, <3>1, <3>3, <4>1 DEF TakenOver
      <4>2. ASSUME NEW j \in Id \ {i}, Readable(archives[i].path),
                   archives[j].path = archives[i].path, archives[j].uuid = disk[archives[i].path]
            PROVE  TakenOver(i)'
        BY <2>1, <2>4, <3>1, <3>4, <4>2 DEF TakenOver
      <4> QED
        BY <4>1, <4>2 DEF TakenOver
    <3> QED
      BY <2>6, <3>1, <3>2, <3>5 DEF Right
  <2>7. /\ sess'[s].pc = "next" /\ sess'[s].path = None
        /\ sess'[s].list = r.list /\ sess'[s].cur = k
    BY <1>0, <2>1, ResumeNext DEF Running
  <2>8. /\ \A i \in Id : i > k => archives'[i] = r.list[i]
        /\ \A i \in Id : i <= k => Right(i)'
    BY <1>2, <2>3, <2>5, <2>6
  <2> QED
    BY <1>2, <2>7, <2>8, WalkedNext
<1> QED
  BY <1>4, <1>5, <1>6, <1>7

\* A running command stays the same command, and is alone only if it was.
LEMMA SameCommand ==
  ASSUME CatalogInv, NEW s \in Session, Step(s)
  PROVE  \/ sess'[s].pc = "idle"
         \/ sess'[s].cmd = sess[s].cmd /\ sess'[s].alone = sess[s].alone
<1> DEFINE Same(n) == n.cmd = sess[s].cmd /\ n.alone = sess[s].alone
<1>1. sess[s] \in SessionState /\ sess \in [Session -> SessionState]
  BY DEF CatalogInv, TypeOK
<1>2. \A n : Local(s, n) => sess'[s] = n
  BY <1>1 DEF Local
<1>4. Idle.pc = "idle" /\ Same(Resume(s))
        /\ Same([Idle EXCEPT !.pc = "done", !.cmd = sess[s].cmd, !.alone = sess[s].alone])
  BY DEF Idle, Resume
<1>5. SUFFICES sess'[s] = Idle \/ Same(sess'[s])
  BY <1>4
<1>6. ASSUME \E a, b :
               \/ sess'[s] = [sess[s] EXCEPT !.pc = a]
               \/ sess'[s] = [sess[s] EXCEPT !.pc = a, !.target = b]
               \/ sess'[s] = [sess[s] EXCEPT !.pc = a, !.verdict = b]
      PROVE  Same(sess'[s])
  BY <1>1, <1>6 DEF SessionState
<1> HIDE DEF Same
<1>7. CASE OpenIndex(s) \/ Lookup(s) \/ Upsert(s)
  <2>1. OpenIndex(s) =>
          sess'[s] = [sess[s] EXCEPT !.pc = "lookup", !.uuid = disk[sess[s].path], !.intact = TRUE]
    BY <1>1 DEF OpenIndex, Local
  <2>2. Lookup(s) =>
          \E i : sess'[s] = [sess[s] EXCEPT !.pc = "upsert", !.target = i, !.current = TRUE]
    BY <1>1 DEF Lookup, Local
  <2>3. Upsert(s) => \E i : sess'[s] = [sess[s] EXCEPT !.pc = "finish", !.target = i]
    BY <1>1 DEF Upsert, Local
  <2> QED
    BY <1>1, <1>7, <2>1, <2>2, <2>3 DEF SessionState, Same
<1>8. CASE \/ OpenRefused(s) \/ UpsertRefused(s) \/ Rollback(s) \/ VerifyFails(s) \/ RmRefused(s)
           \/ Return(s)
  BY <1>2, <1>8 DEF OpenRefused, UpsertRefused, Rollback, VerifyFails, RmRefused, Return, Fail
<1>9. CASE SyncVisit(s) \/ SyncIdentify(s)
  <2>1. SyncVisit(s) =>
          \E i : sess'[s] = [sess[s] EXCEPT
                   !.cur = i,
                   !.pc = IF disk[sess[s].list[i].path] # None THEN "identify"
                          ELSE IF sess[s].list[i].status # "db-missing" THEN "missing"
                          ELSE AfterMissing(s)]
    BY <1>1 DEF SyncVisit, Local
  <2>2. SyncIdentify(s) =>
          \/ sess'[s] = [sess[s] EXCEPT !.pc = "unreadable"]
          \/ \E q : sess'[s] = [sess[s] EXCEPT !.pc = "open", !.path = q]
          \/ \E v : sess'[s] = [sess[s] EXCEPT !.pc = "refresh", !.uuid = v]
    BY <1>1 DEF SyncIdentify, Local
  <2> QED
    BY <1>1, <1>9, <2>1, <2>2 DEF SessionState, Same
<1>10. CASE \/ SyncMark(s) \/ SyncRefresh(s) \/ VerifyMark(s) \/ Commit(s) \/ RmFiles(s)
            \/ RmRow(s)
  <2>1. SyncMark(s) => \E pc : sess'[s] = [sess[s] EXCEPT !.pc = pc]
    BY DEF SyncMark, UpdateRow, Committed
  <2>2. RmFiles(s) => sess'[s] = [sess[s] EXCEPT !.pc = "dropRow"]
    BY DEF RmFiles, Committed
  <2>3. SyncRefresh(s) \/ VerifyMark(s) \/ Commit(s) \/ RmRow(s) => sess'[s] = Resume(s)
    BY DEF SyncRefresh, VerifyMark, Commit, RmRow, UpdateRow, Committed
  <2> QED
    BY <1>4, <1>6, <1>10, <2>1, <2>2, <2>3
<1>11. CASE PruneCheck(s) \/ RmFind(s) \/ EndWalk(s)
  <2>1. PruneCheck(s) \/ RmFind(s) =>
          \/ sess'[s] = Resume(s)
          \/ \E pc, i : sess'[s] = [sess[s] EXCEPT !.pc = pc, !.target = i]
    BY <1>1, ZenonT(40) DEF PruneCheck, RmFind, Local
  <2>2. EndWalk(s) =>
          sess'[s] = [Idle EXCEPT !.pc = "done", !.cmd = sess[s].cmd, !.alone = sess[s].alone]
    BY <1>1 DEF EndWalk, Local
  <2> QED
    BY <1>4, <1>6, <1>11, <2>1, <2>2
<1>12. ASSUME NEW stale, Local(s, Judge(s, stale))
       PROVE  Same(sess'[s])
  <2>1. \/ sess'[s] = Resume(s)
        \/ \E st : sess'[s] = [sess[s] EXCEPT !.pc = "judged", !.verdict = st]
    BY <1>2, <1>12 DEF Judge
  <2> QED
    BY <1>4, <1>6, <2>1
<1>13. CASE VerifyVisit(s)
  <2>1. PICK i \in Id, pc \in {"next", "judged", "compare"}, st \in {"ok", "archive-missing"} :
          Local(s, [sess[s] EXCEPT !.cur = i, !.pc = pc, !.verdict = st])
    BY <1>13 DEF VerifyVisit
  <2>2. sess'[s] = [sess[s] EXCEPT !.cur = i, !.pc = pc, !.verdict = st]
    BY <1>1, <2>1 DEF Local
  <2> QED
    BY <1>1, <2>2 DEF SessionState, Same
<1>14. CASE VerifyCompare(s)
  <2>1. CASE Local(s, [sess[s] EXCEPT !.pc = "hash"])
    <3>1. sess'[s] = [sess[s] EXCEPT !.pc = "hash"]
      BY <1>1, <2>1 DEF Local
    <3> QED
      BY <1>6, <3>1
  <2>2. CASE Local(s, Judge(s, StatDiffers(s, sess[s].cur)))
    BY <1>12, <2>2
  <2> QED
    BY <1>14, <2>1, <2>2 DEF VerifyCompare
<1>15. CASE VerifyHash(s)
  BY <1>12, <1>15 DEF VerifyHash
<1>16. CASE Finishes(s)
  BY <1>16, FinishMoves DEF Same
<1> QED
  BY <1>7, <1>8, <1>9, <1>10, <1>11, <1>13, <1>14, <1>15, <1>16
     DEF Step, AddStep, SyncStep, VerifyStep, RmStep, Finishes

LEMMA WalkedStep ==
  ASSUME RegistryInv, NEW s \in Session, Walked(s), Running(s, {"sync", "prune"}), Step(s),
         sess'[s].pc # "idle"
  PROVE  Walked(s)'
<1>1. \A n : Local(s, n) => sess'[s] = n
  BY DEF Local, RegistryInv, CatalogInv, TypeOK
<1>2. ~(\/ OpenRefused(s) \/ UpsertRefused(s) \/ Rollback(s) \/ VerifyFails(s) \/ RmRefused(s)
        \/ Return(s))
  BY <1>1 DEF OpenRefused, UpsertRefused, Rollback, VerifyFails, RmRefused, Return, Fail, Idle
<1>3. ~VerifyVisit(s) /\ ~VerifyCompare(s) /\ ~VerifyHash(s) /\ ~VerifyMark(s)
  BY DEF VerifyVisit, VerifyCompare, VerifyHash, VerifyMark, Walked, SyncPC, At, Running
<1> QED
  BY <1>2, <1>3, WalkedAdd, WalkedCommit, WalkedVisit, WalkedIdentify, WalkedUpdate, WalkedPrune
     DEF Step, AddStep, SyncStep, VerifyStep, RmStep, Registers, Finishes

LEMMA VerifiedNext ==
  ASSUME NEW s \in Session, sess'[s].pc = "next", sess'[s].cur \in 0..MaxId,
         \A i \in Id : i > sess'[s].cur => archives'[i] = sess'[s].list[i],
         \A i \in Id : i <= sess'[s].cur => Marked(i, sess[s].cmd)'
  PROVE  Verified(s)'
BY DEF Verified

LEMMA VerifiedVisit ==
  ASSUME RegistryInv, NEW s \in Session, Verified(s), Running(s, {"verify", "deep"}),
         VerifyVisit(s) \/ EndWalk(s)
  PROVE  Verified(s)'
<1>0. PICK r, cmd : r = sess[s] /\ cmd = r.cmd
  OBVIOUS
<1>1. r \in SessionState /\ sess \in [Session -> SessionState] /\ archives \in [Id -> Row]
      /\ r.cur \in 0..MaxId /\ TypeOK
  BY <1>0 DEF RegistryInv, CatalogInv, TypeOK, SessionState
<1>2. UNCHANGED <<archives, disk, locked, seen, now>>
  BY DEF VerifyVisit, EndWalk, Local, master, world
<1>3. /\ r.pc = "next"
      /\ \A i \in Id : i > r.cur => archives[i] = r.list[i]
      /\ \A i \in Id : i <= r.cur => Marked(i, cmd)
  <2>1. r.pc = "next"
    BY <1>0 DEF VerifyVisit, EndWalk, IsNext, At
  <2>2. /\ \A i \in Id : i > r.cur => archives[i] = r.list[i]
        /\ \A i \in Id : i < r.cur => Marked(i, cmd)
        /\ r.cur \in Id => Marked(r.cur, cmd)
    BY <1>0, <2>1 DEF Verified
  <2> QED
    BY <1>1, <2>1, <2>2
<1>4. /\ \A i \in Id : IsFirst(i, Listed(s)) =>
              /\ i > r.cur /\ archives[i] = r.list[i] /\ Registered(i)
              /\ \A j \in Id : j < i /\ j > r.cur => ~Registered(j)
      /\ Listed(s) = {} => \A j \in Id : j > r.cur => ~Registered(j)
  BY <1>0, <1>1, <1>3, WalkedRows
<1>5. \A j \in Id : ~Registered(j) => Marked(j, cmd)
  BY DEF Marked
<1>6. CASE EndWalk(s)
  <2>1. sess'[s].pc = "done" /\ sess'[s].cmd = cmd
    BY <1>0, <1>1, <1>6 DEF EndWalk, Local, Idle
  <2>2. \A j \in Id : Marked(j, cmd)
    BY <1>1, <1>3, <1>4, <1>5, <1>6 DEF EndWalk
  <2>3. \A j \in Id : Marked(j, cmd)'
    BY <1>2, <2>2, SameView
  <2>4. \A j \in Id : Marked(j, sess[s].cmd)'
    BY <2>1, <2>3
  <2> QED
    BY <2>1, <2>4 DEF Verified
<1>7. CASE VerifyVisit(s)
  <2>1. PICK i \in Id :
          /\ IsNext(s, i)
          /\ LET row == r.list[i]
                 src == SourceOf[row.uuid]
                 at(pc, v) == [r EXCEPT !.cur = i, !.pc = pc, !.verdict = v]
             IN Local(s,
                  IF row.status \in {"db-missing", "v2-limited"} THEN at("next", "ok")
                  ELSE IF now[src] = None THEN at("judged", "archive-missing")
                  ELSE IF src \in DirSource THEN at("next", "ok")
                  ELSE at("compare", "ok"))
    BY <1>0, <1>7 DEF VerifyVisit
  <2>2. PICK row : row = archives[i]
    OBVIOUS
  <2>3. /\ i > r.cur /\ archives[i] = r.list[i] /\ Registered(i) /\ row = r.list[i]
        /\ row.uuid # None /\ \A j \in Id : j < i => Marked(j, cmd)
    BY <1>0, <1>1, <1>3, <1>4, <1>5, <2>1, <2>2 DEF IsNext, Registered
  <2> DEFINE done == row.status \in {"db-missing", "v2-limited"}
             gone == now[SourceOf[row.uuid]] = None
             dir == SourceOf[row.uuid] \in DirSource
             pc == IF done THEN "next" ELSE IF gone THEN "judged"
                   ELSE IF dir THEN "next" ELSE "compare"
             st == IF ~done /\ gone THEN "archive-missing" ELSE "ok"
  <2>4. sess'[s] = [r EXCEPT !.cur = i, !.pc = pc, !.verdict = st]
    <3>1. sess'[s] = IF done THEN [r EXCEPT !.cur = i, !.pc = "next", !.verdict = "ok"]
                     ELSE IF gone THEN [r EXCEPT !.cur = i, !.pc = "judged", !.verdict = "archive-missing"]
                     ELSE IF dir THEN [r EXCEPT !.cur = i, !.pc = "next", !.verdict = "ok"]
                     ELSE [r EXCEPT !.cur = i, !.pc = "compare", !.verdict = "ok"]
      BY <1>1, <2>1, <2>3 DEF Local
    <3> QED
      BY <3>1
  <2>5. /\ sess'[s].pc = pc /\ sess'[s].cur = i /\ sess'[s].list = r.list /\ sess'[s].cmd = cmd
        /\ sess'[s].verdict = st
    <3> HIDE DEF pc, st
    <3> QED
      BY <1>0, <1>1, <2>4 DEF SessionState
  <2>6. /\ \A j \in Id : j < i => Marked(j, sess[s].cmd)'
        /\ \A j \in Id : j > i => archives'[j] = r.list[j]
        /\ archives'[i] = row /\ (Marked(i, cmd) => Marked(i, sess[s].cmd)')
        /\ now' = now /\ seen' = seen /\ (\A u, v, c : Checked(u, v, c)' <=> Checked(u, v, c))
    <3>1. \A j : Marked(j, sess[s].cmd)' <=> Marked(j, cmd)
      BY <1>2, <2>5, SameView
    <3> QED
      BY <1>1, <1>2, <1>3, <2>2, <2>3, <3>1, SameView
  <2>7. CASE pc = "next"
    <3>1. Checked(row.uuid, row.status, cmd)
      BY <2>7 DEF Checked, HasStat
    <3>2. Marked(i, cmd)
      BY <2>2, <3>1 DEF Marked
    <3> HIDE DEF pc
    <3>3. \A j \in Id : j <= i => Marked(j, sess[s].cmd)'
      BY <2>6, <3>2
    <3> QED
      BY <2>5, <2>6, <2>7, <3>3, VerifiedNext
  <2>8. CASE pc = "compare"
    <3>1. ~gone
      BY <2>8
    <3> HIDE DEF pc, st
    <3> QED
      BY <2>3, <2>5, <2>6, <2>8, <3>1 DEF Verified
  <2>9. CASE pc = "judged"
    <3>1. Checked(row.uuid, st, cmd)
      BY <2>9 DEF Checked
    <3> HIDE DEF pc, st
    <3>2. Checked(sess[s].list[sess[s].cur].uuid, sess[s].verdict, sess[s].cmd)'
      BY <2>3, <2>5, <2>6, <3>1
    <3> QED
      BY <2>3, <2>5, <2>6, <2>9, <3>2 DEF Verified
  <2> QED
    BY <2>7, <2>8, <2>9
<1> QED
  BY <1>6, <1>7

\* The finding of verify is that of the source as it is.
Finding(s, stale) ==
  LET u == sess[s].list[sess[s].cur].uuid
      src == SourceOf[u]
  IN /\ stale => now[src] # seen[u]
     /\ ~stale /\ HasStat(u) => StatOf[now[src]] = StatOf[seen[u]]
     /\ ~stale /\ Running(s, {"deep"}) /\ HasHash(u) => now[src] = seen[u]

\* What verify concludes of a source whose stat or hash it has read is so.
LEMMA VerifiedJudge ==
  ASSUME RegistryInv, NEW s \in Session, Verified(s), Running(s, {"verify", "deep"}),
         sess[s].pc \in {"compare", "hash"}, NEW stale \in BOOLEAN, Local(s, Judge(s, stale)),
         Finding(s, stale)
  PROVE  Verified(s)'
<1>0. PICK r, row, cmd, k : r = sess[s] /\ k = r.cur /\ row = r.list[k] /\ cmd = r.cmd
  OBVIOUS
<1>1. r \in SessionState /\ sess \in [Session -> SessionState] /\ CatalogInv
  BY <1>0 DEF RegistryInv, CatalogInv, TypeOK
<1>2. UNCHANGED <<archives, disk, locked, seen, now>>
  BY DEF Local, master, world
<1>3. /\ k \in Id /\ archives[k] = row /\ row.uuid # None /\ now[SourceOf[row.uuid]] # None
      /\ \A i \in Id : i > k => archives[i] = r.list[i]
      /\ \A i \in Id : i < k => Marked(i, cmd)
  BY <1>0 DEF Verified
<1>4. ASSUME NEW st, stale => st = "stale-index",
             ~stale => st \notin {"stale-index", "archive-missing"}
      PROVE  Checked(row.uuid, st, cmd)
  BY <1>0, <1>3, <1>4 DEF Checked, Running, Finding
<1>5. sess'[s] = Judge(s, stale)
  BY <1>1 DEF Local
<1>6. CASE sess'[s] = Resume(s) /\ ~stale /\ row.status \notin {"stale-index", "archive-missing"}
  <2>1. sess'[s].pc = "next" /\ sess'[s].list = r.list /\ sess'[s].cur = k /\ sess'[s].cmd = cmd
    BY <1>0, <1>6, ResumeNext DEF Running
  <2>2. Marked(k, cmd)
    BY <1>3, <1>4, <1>6 DEF Marked
  <2>3. \A i \in Id : i <= k => Marked(i, sess[s].cmd)'
    <3>1. \A i : Marked(i, sess[s].cmd)' <=> Marked(i, cmd)
      BY <1>2, <2>1, SameView
    <3> QED
      BY <1>3, <2>2, <3>1
  <2>4. \A i \in Id : i > k => archives'[i] = r.list[i]
    BY <1>2, <1>3
  <2> QED
    BY <1>3, <2>1, <2>3, <2>4, VerifiedNext
<1>7. ASSUME NEW st, sess'[s] = [r EXCEPT !.pc = "judged", !.verdict = st],
             stale => st = "stale-index", ~stale => st \notin {"stale-index", "archive-missing"}
      PROVE  Verified(s)'
  <2>1. /\ sess'[s].pc = "judged" /\ sess'[s].list = r.list /\ sess'[s].cur = k
        /\ sess'[s].cmd = cmd /\ sess'[s].verdict = st
    BY <1>0, <1>1, <1>7 DEF SessionState
  <2>2. Checked(row.uuid, st, cmd)
    BY <1>4, <1>7
  <2>3. Checked(sess[s].list[sess[s].cur].uuid, sess[s].verdict, sess[s].cmd)'
    BY <1>0, <1>2, <2>1, <2>2, SameView
  <2>4. /\ \A i \in Id : i < k => Marked(i, sess[s].cmd)'
        /\ \A i \in Id : i > k => archives'[i] = r.list[i]
        /\ archives'[k] = row
    BY <1>2, <1>3, <2>1, SameView
  <2> QED
    BY <1>0, <1>3, <2>1, <2>3, <2>4, ZenonT(40) DEF Verified
<1>8. \A u : Completeness(u) \notin {"stale-index", "archive-missing"}
  BY DEF Completeness
<1>9. CASE stale
  <2>1. sess'[s] = [r EXCEPT !.pc = "judged", !.verdict = "stale-index"]
    BY <1>0, <1>5, <1>9 DEF Judge
  <2> QED
    BY <1>7, <1>9, <2>1
<1>10. CASE ~stale /\ row.status \in {"stale-index", "archive-missing"}
  <2>1. sess'[s] = [r EXCEPT !.pc = "judged", !.verdict = Completeness(row.uuid)]
    BY <1>0, <1>5, <1>10 DEF Judge
  <2> QED
    BY <1>7, <1>8, <1>10, <2>1
<1>11. CASE ~stale /\ row.status \notin {"stale-index", "archive-missing"}
  BY <1>0, <1>5, <1>6, <1>11 DEF Judge
<1> QED
  BY <1>9, <1>10, <1>11

LEMMA VerifiedRead ==
  ASSUME RegistryInv, NEW s \in Session, Verified(s), Running(s, {"verify", "deep"}),
         VerifyCompare(s) \/ VerifyHash(s)
  PROVE  Verified(s)'
<1>0. PICK r, row, cmd, k : r = sess[s] /\ k = r.cur /\ row = r.list[k] /\ cmd = r.cmd
  OBVIOUS
<1>1. r \in SessionState /\ sess \in [Session -> SessionState] /\ CatalogInv
  BY <1>0 DEF RegistryInv, CatalogInv, TypeOK
<1>2. UNCHANGED <<archives, disk, locked, seen, now>>
  BY DEF VerifyCompare, VerifyHash, Local, master, world
<1>3. /\ k \in Id /\ archives[k] = row /\ row.uuid # None /\ now[SourceOf[row.uuid]] # None
      /\ \A i \in Id : i > k => archives[i] = r.list[i]
      /\ \A i \in Id : i < k => Marked(i, cmd)
      /\ VerifyHash(s) => StatOf[now[SourceOf[row.uuid]]] = StatOf[seen[row.uuid]]
  BY <1>0 DEF Verified, VerifyCompare, VerifyHash, At
<1>4. CASE VerifyHash(s)
  <2>1. PICK stale \in BOOLEAN :
          /\ stale = (now[SourceOf[row.uuid]] # seen[row.uuid]) /\ Local(s, Judge(s, stale))
    BY <1>0, <1>4 DEF VerifyHash, SourceRecorded
  <2>2. sess[s].pc \in {"compare", "hash"}
    BY <1>4 DEF VerifyHash, At
  <2> QED
    BY <1>0, <1>3, <1>4, <2>1, <2>2, VerifiedJudge DEF Finding
<1>5. CASE VerifyCompare(s)
  <2>1. PICK stale \in BOOLEAN : stale = StatDiffers(s, k)
    BY DEF StatDiffers
  <2>2. stale <=> HasStat(row.uuid) /\ StatOf[now[SourceOf[row.uuid]]] # StatOf[seen[row.uuid]]
    BY <1>0, <1>3, <2>1 DEF StatDiffers, StatOfContent, SourceRecorded
  <2>3. /\ sess[s].pc = "compare"
        /\ Local(s, IF ~stale /\ Running(s, {"deep"}) /\ HasHash(row.uuid)
                    THEN [r EXCEPT !.pc = "hash"] ELSE Judge(s, stale))
    BY <1>0, <1>5, <2>1 DEF VerifyCompare, At
  <2>4. CASE ~stale /\ Running(s, {"deep"}) /\ HasHash(row.uuid)
    <3>1. sess'[s] = [r EXCEPT !.pc = "hash"]
      BY <1>1, <2>3, <2>4 DEF Local
    <3>2. /\ sess'[s].pc = "hash" /\ sess'[s].list = r.list /\ sess'[s].cur = k /\ sess'[s].cmd = cmd
      BY <1>0, <1>1, <3>1 DEF SessionState
    <3>3. /\ \A i \in Id : i < k => Marked(i, sess[s].cmd)'
          /\ \A i \in Id : i > k => archives'[i] = r.list[i]
          /\ archives'[k] = row /\ now' = now /\ seen' = seen
      BY <1>2, <1>3, <3>2, SameView
    <3>4. StatOf[now[SourceOf[row.uuid]]] = StatOf[seen[row.uuid]]
      BY <2>2, <2>4 DEF HasHash
    <3> QED
      BY <1>0, <1>3, <2>3, <3>2, <3>3, <3>4, ZenonT(40) DEF Verified
  <2>5. CASE ~(~stale /\ Running(s, {"deep"}) /\ HasHash(row.uuid))
    BY <1>0, <2>2, <2>3, <2>5, VerifiedJudge DEF Finding
  <2> QED
    BY <2>4, <2>5
<1> QED
  BY <1>4, <1>5

LEMMA VerifiedMark ==
  ASSUME RegistryInv, NEW s \in Session, Verified(s), Running(s, {"verify", "deep"}),
         VerifyMark(s)
  PROVE  Verified(s)'
<1>0. PICK r, row, cmd, k, st :
        r = sess[s] /\ k = r.cur /\ row = r.list[k] /\ cmd = r.cmd /\ st = r.verdict
  OBVIOUS
<1>1. r \in SessionState /\ archives \in [Id -> Row] /\ st \in Status
  BY <1>0 DEF RegistryInv, CatalogInv, TypeOK, SessionState
<1>2. /\ k \in Id /\ archives[k] = row /\ row.uuid # None /\ Checked(row.uuid, st, cmd)
      /\ \A i \in Id : i > k => archives[i] = r.list[i]
      /\ \A i \in Id : i < k => Marked(i, cmd)
  BY <1>0 DEF Verified, VerifyMark, At
<1>3. /\ archives' = [archives EXCEPT ![k] = [archives[k] EXCEPT !.status = st]]
      /\ sess'[s] = Resume(s) /\ UNCHANGED <<now, seen>>
  BY <1>0, <1>2 DEF VerifyMark, UpdateRow, Registered, Committed, world
<1>4. PICK new : /\ new = [row EXCEPT !.status = st] /\ new.uuid = row.uuid /\ new.status = st
  <2>1. row \in [uuid : Uuid, path : Path, status : Status, aged : BOOLEAN]
    BY <1>1, <1>2 DEF Row, NoRow
  <2>2. [row EXCEPT !.status = st].uuid = row.uuid /\ [row EXCEPT !.status = st].status = st
    BY <2>1
  <2> QED
    BY <2>2
<1>5. archives'[k] = new /\ \A i \in Id \ {k} : archives'[i] = archives[i]
  BY <1>1, <1>2, <1>3, <1>4
<1>6. sess'[s].pc = "next" /\ sess'[s].list = r.list /\ sess'[s].cur = k /\ sess'[s].cmd = cmd
  BY <1>0, <1>3, ResumeNext DEF Running
<1>7. \A u, v, c : Checked(u, v, c)' <=> Checked(u, v, c)
  BY <1>3 DEF Checked
<1>8. \A i \in Id : i <= k => Marked(i, sess[s].cmd)'
  <2>1. Marked(k, sess[s].cmd)'
    BY <1>2, <1>4, <1>5, <1>6, <1>7 DEF Marked
  <2>2. ASSUME NEW i \in Id, i < k
        PROVE  Marked(i, sess[s].cmd)'
    BY <1>2, <1>5, <1>6, <1>7, <2>2 DEF Marked, Registered
  <2> QED
    BY <1>2, <2>1, <2>2
<1>9. \A i \in Id : i > k => archives'[i] = r.list[i]
  BY <1>2, <1>5
<1> QED
  BY <1>2, <1>6, <1>8, <1>9, VerifiedNext

LEMMA VerifiedStep ==
  ASSUME RegistryInv, NEW s \in Session, Verified(s), Running(s, {"verify", "deep"}), Step(s),
         sess'[s].pc # "idle"
  PROVE  Verified(s)'
<1>1. \A n : Local(s, n) => sess'[s] = n
  BY DEF Local, RegistryInv, CatalogInv, TypeOK
<1>2. ~(\/ OpenRefused(s) \/ UpsertRefused(s) \/ Rollback(s) \/ VerifyFails(s) \/ RmRefused(s)
        \/ Return(s))
  BY <1>1 DEF OpenRefused, UpsertRefused, Rollback, VerifyFails, RmRefused, Return, Fail, Idle
<1>3. sess[s].pc \in {"next", "compare", "hash", "judged", "done"}
  BY DEF Verified
<1>4. ~(\/ OpenIndex(s) \/ Lookup(s) \/ Upsert(s) \/ FinishJournal(s) \/ FinishStamp(s)
        \/ Commit(s) \/ SyncVisit(s) \/ SyncIdentify(s))
  BY <1>3 DEF OpenIndex, Lookup, Upsert, FinishJournal, FinishStamp, Commit, SyncVisit, SyncIdentify,
              At, Running
<1>5. ~(SyncMark(s) \/ SyncRefresh(s) \/ PruneCheck(s) \/ RmFind(s) \/ RmFiles(s) \/ RmRow(s))
  BY <1>3 DEF SyncMark, SyncRefresh, PruneCheck, RmFind, RmFiles, RmRow, At
<1> QED
  BY <1>2, <1>4, <1>5, VerifiedVisit, VerifiedRead, VerifiedMark
     DEF Step, AddStep, SyncStep, VerifyStep, RmStep

\* A command that starts lists the rows as they are.
LEMMA ToldStart ==
  ASSUME RegistryInv, NEW s \in Session, Start(s)
  PROVE  SessionTold(s)'
<1>1. sess \in [Session -> SessionState]
  BY DEF RegistryInv, CatalogInv, TypeOK
<1>2. CASE \/ \E p \in Path : StartAdd(s, p) \/ StartRm(s, 0, p)
           \/ \E i \in Id : StartRm(s, i, None)
  <2>1. \/ \E p : sess'[s] = [Idle EXCEPT !.pc = "open", !.cmd = "add", !.path = p]
        \/ \E i, p : sess'[s] = [Idle EXCEPT !.pc = "find", !.cmd = "rm", !.target = i, !.path = p]
    BY <1>1, <1>2 DEF StartAdd, StartRm, Local
  <2>2. sess'[s].cmd \in {"add", "rm"}
    BY <2>1 DEF Idle
  <2> QED
    BY <2>2 DEF SessionTold, Running
<1>3. ASSUME NEW c \in AllCommands, StartWalk(s, c)
      PROVE  SessionTold(s)'
  <2>1. /\ sess'[s] = [Idle EXCEPT !.pc = "next", !.cmd = c, !.list = archives]
        /\ archives' = archives
    BY <1>1, <1>3 DEF StartWalk, Local, master
  <2>2. /\ sess'[s].pc = "next" /\ sess'[s].cur = 0 /\ sess'[s].path = None
        /\ sess'[s].list = archives
    BY <2>1 DEF Idle
  <2>3. /\ \A i \in Id : i > sess'[s].cur => archives'[i] = sess'[s].list[i]
        /\ \A i \in Id : ~(i <= sess'[s].cur)
    BY <2>1, <2>2
  <2>4. 0 \in 0..MaxId
    OBVIOUS
  <2>5. Walked(s)'
    BY <2>2, <2>3, <2>4, WalkedNext
  <2>6. Verified(s)'
    BY <2>2, <2>3, <2>4, VerifiedNext
  <2> QED
    BY <2>5, <2>6 DEF SessionTold
<1> QED
  BY <1>2, <1>3 DEF Start

LEMMA ToldOwn ==
  ASSUME RegistryInv, NEW s \in Session, By(s), SessionTold(s)
  PROVE  SessionTold(s)'
<1>1. CASE sess'[s].pc = "idle"
  BY <1>1 DEF SessionTold, At
<1>2. CASE Step(s) /\ sess'[s].pc # "idle"
  <2>1. sess'[s].cmd = sess[s].cmd /\ sess'[s].alone = sess[s].alone
    BY <1>2, SameCommand DEF RegistryInv
  <2>2. ~At(s, "idle")
    BY <1>2 DEF Step, AddStep, SyncStep, VerifyStep, RmStep, OpenIndex, OpenRefused, Lookup, Upsert,
                UpsertRefused, FinishJournal, FinishStamp, Commit, Rollback, SyncVisit, SyncIdentify, SyncMark, SyncRefresh,
                PruneCheck, VerifyVisit, VerifyCompare, VerifyHash, VerifyFails, VerifyMark,
                RmFind, RmRefused, RmFiles, RmRow, EndWalk, Return, IsNext, At
  <2>3. CASE sess[s].alone /\ Running(s, {"sync", "prune"})
    BY <1>2, <2>1, <2>2, <2>3, WalkedStep DEF SessionTold, Running
  <2>4. CASE sess[s].alone /\ Running(s, {"verify", "deep"})
    BY <1>2, <2>1, <2>2, <2>4, VerifiedStep DEF SessionTold, Running
  <2> QED
    BY <2>1, <2>3, <2>4 DEF SessionTold, Running
<1>3. CASE Busy(s)
  <2>1. sess'[s].pc = "idle"
    BY <1>3 DEF Busy, Fail, Local, Idle, RegistryInv, CatalogInv, TypeOK
  <2> QED
    BY <1>1, <2>1
<1> QED
  BY <1>1, <1>2, <1>3, ToldStart DEF By

\* The walks of sync and verify keep what they rely on.
THEOREM SessionsToldInvariant == Spec => [](RegistryInv /\ SessionsTold)
<1>1. Init => RegistryInv /\ SessionsTold
  <2>1. Init => \A s \in Session : sess[s].pc = "idle"
    <3>1. Idle.pc = "idle"
      BY DEF Idle
    <3> QED
      BY <3>1 DEF Init
  <2>2. Init => SessionsTold
    BY <2>1 DEF SessionsTold, SessionTold, At
  <2> QED
    BY <2>2, RegistryInit
<1>2. RegistryInv /\ SessionsTold /\ [Next]_vars => (RegistryInv /\ SessionsTold)'
  <2> SUFFICES ASSUME RegistryInv, SessionsTold, [Next]_vars PROVE RegistryInv' /\ SessionsTold'
    OBVIOUS
  <2>1. ASSUME NEW s \in Session
        PROVE  SessionTold(s)'
    <3>1. CatalogInv /\ SessionTold(s)
      BY DEF RegistryInv, SessionsTold
    <3>2. CASE Crash(s)
      <4>1. sess'[s].pc = "idle"
        BY <3>1, <3>2 DEF Crash, Idle, CatalogInv, TypeOK
      <4> QED
        BY <4>1 DEF SessionTold, At
    <3> QED
      BY <3>1, <3>2, ToldKept, ToldOwn, StepOfAnother
  <2> QED
    BY <2>1, RegistryStep DEF SessionsTold
<1> QED
  BY <1>1, <1>2, PTL DEF Spec

\* What a sync that returned Ok and was not disturbed tells is so, for every row
\* of every registry, whatever was killed or refused before it (Master::sync).
THEOREM SyncIsTrue == Spec => []SyncTells
<1>1. RegistryInv /\ SessionsTold => SyncTells
  <2> SUFFICES ASSUME RegistryInv, SessionsTold, NEW s \in Session, NEW i \in Id,
                      Undisturbed(s, {"sync", "prune"}), Registered(i)
               PROVE  IF Readable(archives[i].path)
                      THEN PathIsShared(i) \/ IsCopied(i) \/
                           /\ archives[i].uuid = disk[archives[i].path]
                           /\ archives[i].status = StatusOf(archives[i].uuid)
                           /\ i \in emptied \/ replica[i] = RowsOf(archives[i].uuid)
                      ELSE archives[i].status = "db-missing"
    BY DEF SyncTells
  <2>1. Right(i)
    BY DEF Undisturbed, SessionsTold, SessionTold, At, Walked
  <2>2. i \in emptied \/ replica[i] = RowsOf(archives[i].uuid)
    BY DEF RegistryInv, CatalogInv, Replicated
  <2>3. CASE Told(i)
    BY <2>2, <2>3 DEF Told
  <2>4. CASE TakenOver(i)
    BY <2>4 DEF TakenOver, PathIsShared
  <2> QED
    BY <2>1, <2>3, <2>4 DEF Right
<1> QED
  BY <1>1, SessionsToldInvariant, PTL

\* What a verify that returned Ok and was not disturbed tells is so, with and
\* without --deep (Master::verify).
THEOREM VerifyIsTrue == Spec => []VerifyTells
<1>1. RegistryInv /\ SessionsTold => VerifyTells
  <2> SUFFICES ASSUME RegistryInv, SessionsTold, NEW s \in Session, NEW i \in Id,
                      Undisturbed(s, {"verify", "deep"}), Registered(i),
                      archives[i].status \notin {"db-missing", "v2-limited"},
                      HasStat(archives[i].uuid)
               PROVE  LET st == archives[i].status
                          u == archives[i].uuid
                      IN /\ (st = "archive-missing") <=> (now[SourceOf[u]] = None)
                         /\ now[SourceOf[u]] # None =>
                              /\ st = "stale-index" => now[SourceOf[u]] # seen[u]
                              /\ StatOf[now[SourceOf[u]]] # StatOf[seen[u]] => st = "stale-index"
                              /\ Running(s, {"deep"}) /\ HasHash(u) /\ st # "stale-index" =>
                                   now[SourceOf[u]] = seen[u]
    BY DEF VerifyTells
  <2>1. Marked(i, sess[s].cmd)
    BY DEF Undisturbed, SessionsTold, SessionTold, At, Verified
  <2> QED
    BY <2>1 DEF Marked, Checked, Running
<1> QED
  BY <1>1, SessionsToldInvariant, PTL

-----------------------------------------------------------------------------
(***************************************************************************)
(* Opening the catalog.                                                    *)
(***************************************************************************)
InFiles == {"see path_raw", "add path_raw", "see content_mode", "add content_mode", "open"}
InPath == {"see content_mode", "add content_mode", "open"}
InMaster == {"journal", "archives", "files"} \union InFiles

OpeningTypes ==
  /\ catalog \in CatalogFile
  /\ atFirst \in Catalogs
  /\ opener \in [Opener -> [step : OpenerSteps, appid : AppIds, new : BOOLEAN]]

\* What is not a master is read and refused.
Spared ==
  atFirst.maker \in {"indexer", "someone"} =>
    /\ catalog = atFirst
    /\ \A s \in Opener :
         /\ opener[s].step \in {"look", "read id", "read tables", "refused", "stopped"}
         /\ opener[s].step \in {"read id", "read tables"} => catalog.format = "sqlite"
         /\ opener[s].step = "read tables" => opener[s].appid = catalog.appid

\* A master stays one, and is never taken for a new file.
Adopted ==
  atFirst.maker = "master" =>
    /\ Signed(catalog) \/ ByVersion1(catalog)
    /\ "files" \in catalog.tables => "pb0" \in catalog.columns
    /\ \A s \in Opener : opener[s].step # "create" /\ ~opener[s].new

\* A new file is empty until it is signed, and its tables come with all
\* their columns.
Created ==
  atFirst.maker = "nobody" =>
    /\ Signed(catalog) \/ (catalog.tables = {} /\ catalog.format \in {"absent", "empty"})
    /\ "archives" \in catalog.tables => "content_mode" \in catalog.columns
    /\ "files" \in catalog.tables => {"pb0", "path_raw"} \subseteq catalog.columns
    /\ \A s \in Opener :
         /\ opener[s].step # "read tables"
         /\ opener[s].step = "read id" => Signed(catalog)

Brought ==
  \A s \in Opener :
    /\ opener[s].step = "read id" => catalog.format = "sqlite"
    /\ opener[s].step \in InMaster => Signed(catalog)
    /\ opener[s].step \in {"files"} \union InFiles => "archives" \in catalog.tables
    /\ opener[s].step \in InFiles => "files" \in catalog.tables
    /\ opener[s].step \in InPath => "path_raw" \in catalog.columns
    /\ opener[s].step = "open" => "content_mode" \in catalog.columns

OpeningInv == OpeningTypes /\ Spared /\ Adopted /\ Created /\ Brought

LEMMA OpeningStarts == OpeningInit => OpeningInv
<1> SUFFICES ASSUME OpeningInit PROVE OpeningInv
  OBVIOUS
<1> USE CatalogsAssumption DEF OpeningInit
<1>1. OpeningTypes
  BY DEF OpeningTypes, OpenerSteps, AppIds
<1>2. Spared /\ Brought
  BY DEF Spared, Brought, InMaster, InFiles, InPath
<1>3. Adopted
  BY DEF Adopted, Signed, ByVersion1
<1>4. Created
  BY DEF Created
<1> QED
  BY <1>1, <1>2, <1>3, <1>4 DEF OpeningInv

\* What is proved of one step of a session: it goes to `step`, and the others
\* stay where they are.
Went(s, step) ==
  /\ opener'[s].step = step
  /\ opener'[s].appid = opener[s].appid
  /\ opener'[s].new = opener[s].new
  /\ \A q \in Opener : q # s => opener'[q] = opener[q]
  /\ opener' \in [Opener -> [step : OpenerSteps, appid : AppIds, new : BOOLEAN]]

LEMMA Going ==
  ASSUME OpeningInv, NEW s \in Opener, NEW step \in OpenerSteps, Goes(s, step)
  PROVE  Went(s, step)
BY DEF OpeningInv, OpeningTypes, Goes, Went

\* A step that only reads, from and to anything but a step of creating.
LEMMA Reading ==
  ASSUME OpeningInv, NEW s \in Opener, NEW step \in OpenerSteps, Went(s, step),
         UNCHANGED <<catalog, atFirst>>,
         Spared => (atFirst.maker \in {"indexer", "someone"} =>
                      /\ step \in {"look", "read id", "read tables", "refused", "stopped"}
                      /\ step \in {"read id", "read tables"} => catalog.format = "sqlite"
                      /\ step = "read tables" => opener[s].appid = catalog.appid),
         atFirst.maker = "master" => step # "create",
         atFirst.maker = "nobody" =>
           step # "read tables" /\ (step = "read id" => Signed(catalog)),
         step = "read id" => catalog.format = "sqlite",
         step \in InMaster => Signed(catalog),
         step \in {"files"} \union InFiles => "archives" \in catalog.tables,
         step \in InFiles => "files" \in catalog.tables,
         step \in InPath => "path_raw" \in catalog.columns,
         step = "open" => "content_mode" \in catalog.columns
  PROVE  OpeningInv'
<1> USE DEF OpeningInv, Went
<1>1. OpeningTypes'
  BY DEF OpeningTypes
<1>2. Spared'
  BY DEF Spared
<1>3. Adopted'
  BY DEF Adopted, Signed, ByVersion1
<1>4. Created'
  BY DEF Created, Signed
<1>5. Brought'
  BY DEF Brought, Signed
<1> QED
  BY <1>1, <1>2, <1>3, <1>4, <1>5

LEMMA LookKeeps ==
  ASSUME OpeningInv, NEW s \in Opener, Look(s)
  PROVE  OpeningInv'
<1> DEFINE step == CASE catalog.alias -> "refused"
                     [] ~catalog.alias /\ catalog.format = "absent" -> "create"
                     [] ~catalog.alias /\ catalog.format = "sqlite" /\ ~catalog.link -> "read id"
                     [] OTHER -> "refused"
<1>1. Goes(s, step) /\ UNCHANGED <<catalog, atFirst>>
  BY DEF Look, Reads, Writes
<1>2. \/ step = "refused"
      \/ step = "create" /\ catalog.format = "absent"
      \/ step = "read id" /\ catalog.format = "sqlite"
  OBVIOUS
<1>3. step \in OpenerSteps
  BY <1>2 DEF OpenerSteps
<1> HIDE DEF step
<1>4. Went(s, step)
  BY <1>1, <1>3, Going
<1>5. atFirst.maker \in {"indexer", "someone"} => step # "create"
  BY <1>2, CatalogsAssumption DEF OpeningInv, OpeningTypes, Spared
<1>6. atFirst.maker = "master" => step # "create"
  BY <1>2 DEF OpeningInv, Adopted, Signed, ByVersion1
<1>7. atFirst.maker = "nobody" /\ step = "read id" => Signed(catalog)
  BY <1>2 DEF OpeningInv, Created
<1> QED
  BY <1>1, <1>2, <1>3, <1>4, <1>5, <1>6, <1>7, Reading DEF InMaster, InFiles, InPath

LEMMA ReadTablesKeeps ==
  ASSUME OpeningInv, NEW s \in Opener, ReadTables(s)
  PROVE  OpeningInv'
<1> DEFINE ours == /\ "files_fts" \notin catalog.tables
                   /\ opener[s].appid = "none"
                   /\ {"archives", "files"} \subseteq catalog.tables
                   /\ "pb0" \in catalog.columns
           step == IF ours THEN "stamp" ELSE "refused"
<1>1. opener[s].step = "read tables" /\ Goes(s, step) /\ UNCHANGED <<catalog, atFirst>>
  BY DEF ReadTables, Reads, Writes, OpenerAt
<1>2. step \in OpenerSteps /\ step \in {"stamp", "refused"}
  BY DEF OpenerSteps
<1>3. atFirst.maker = "indexer" => ~ours
  BY CatalogsAssumption DEF OpeningInv, OpeningTypes, Spared
<1>4. atFirst.maker = "someone" => ~ours
  <2> SUFFICES ASSUME atFirst.maker = "someone", ours PROVE FALSE
    OBVIOUS
  <2>1. catalog = atFirst /\ catalog.format = "sqlite" /\ catalog.appid = "none"
    BY <1>1 DEF OpeningInv, Spared
  <2>2. ByVersion1(atFirst)
    BY <2>1 DEF ByVersion1
  <2> QED
    BY <2>2, CatalogsAssumption DEF OpeningInv, OpeningTypes
<1>5. atFirst.maker \in {"indexer", "someone"} => step = "refused"
  BY <1>3, <1>4
<1> HIDE DEF step
<1>6. Went(s, step)
  BY <1>1, <1>2, Going
<1> QED
  BY <1>1, <1>2, <1>5, <1>6, Reading DEF InMaster, InFiles, InPath

LEMMA ReadAppIdKeeps ==
  ASSUME OpeningInv, NEW s \in Opener, ReadAppId(s)
  PROVE  OpeningInv'
<1> USE DEF OpeningInv
<1>1. /\ opener[s].step = "read id" /\ catalog.format = "sqlite"
      /\ UNCHANGED <<catalog, atFirst>>
  BY DEF ReadAppId, OpenerAt, Brought
<1>2. /\ opener'[s].step = IF catalog.appid = "ours" THEN "journal" ELSE "read tables"
      /\ opener'[s].appid = catalog.appid
      /\ opener'[s].new = FALSE
      /\ \A q \in Opener : q # s => opener'[q] = opener[q]
  BY DEF ReadAppId, OpeningTypes
<1>3. OpeningTypes'
  BY <1>1 DEF ReadAppId, OpeningTypes, OpenerSteps, CatalogFile
<1>4. Spared'
  <2>1. atFirst.maker \in {"indexer", "someone"} => catalog.appid # "ours"
    BY <1>1, CatalogsAssumption DEF OpeningTypes, Spared, Signed
  <2> QED
    BY <1>1, <1>2, <2>1 DEF Spared
<1>5. Adopted'
  BY <1>1, <1>2 DEF Adopted, Signed, ByVersion1
<1>6. Created'
  BY <1>1, <1>2 DEF Created, Signed
<1>7. Brought'
  BY <1>1, <1>2 DEF Brought, Signed, InMaster, InFiles, InPath
<1> QED
  BY <1>3, <1>4, <1>5, <1>6, <1>7

LEMMA CreateFileKeeps ==
  ASSUME OpeningInv, NEW s \in Opener, CreateFile(s)
  PROVE  OpeningInv'
<1> USE DEF OpeningInv
<1>1. opener[s].step = "create" /\ UNCHANGED atFirst
  BY DEF CreateFile, OpenerAt
<1>2. atFirst.maker = "nobody"
  BY <1>1, CatalogsAssumption DEF OpeningTypes, CatalogFile, Spared, Adopted
<1>3. /\ opener'[s].step = "stamp"
      /\ \A q \in Opener : q # s => opener'[q] = opener[q]
      /\ catalog' = IF catalog.format = "absent" THEN [catalog EXCEPT !.format = "empty"]
                    ELSE catalog
  BY DEF CreateFile, OpeningTypes
<1>4. /\ catalog.format # "absent" => catalog' = catalog
      /\ catalog.format = "absent" =>
           catalog'.format = "empty" /\ catalog'.tables = catalog.tables /\ ~Signed(catalog)
      /\ catalog'.tables = catalog.tables /\ catalog'.columns = catalog.columns
  BY <1>3 DEF OpeningTypes, CatalogFile, Signed
<1>5. OpeningTypes'
  BY <1>1 DEF CreateFile, OpeningTypes, CatalogFile, OpenerSteps, AppIds
<1>6. Spared' /\ Adopted'
  BY <1>1, <1>2 DEF Spared, Adopted
<1>7. Created'
  BY <1>1, <1>2, <1>3, <1>4 DEF Created, Signed
<1>8. Brought'
  BY <1>2, <1>3, <1>4 DEF Created, Brought, Signed, InMaster, InFiles, InPath
<1> QED
  BY <1>5, <1>6, <1>7, <1>8

\* A statement of a session that has signed the catalog or is signing it.
LEMMA WriteSteps ==
  ASSUME OpeningInv, NEW s \in Opener,
         NEW step \in OpenerSteps \ {"look", "create", "read id", "read tables"},
         Went(s, step), UNCHANGED atFirst,
         opener[s].step \in {"stamp"} \union InMaster,
         catalog' \in CatalogFile, Signed(catalog'),
         catalog.tables \subseteq catalog'.tables, catalog.columns \subseteq catalog'.columns,
         "archives" \in catalog'.tables =>
           "archives" \in catalog.tables \/ "content_mode" \in catalog'.columns,
         "files" \in catalog'.tables =>
           "files" \in catalog.tables \/ {"pb0", "path_raw"} \subseteq catalog'.columns,
         step \in {"files"} \union InFiles => "archives" \in catalog'.tables,
         step \in InFiles => "files" \in catalog'.tables,
         step \in InPath => "path_raw" \in catalog'.columns,
         step = "open" => "content_mode" \in catalog'.columns
  PROVE  OpeningInv'
<1> USE DEF OpeningInv, Went
<1>1. OpeningTypes'
  BY DEF OpeningTypes
<1>2. Spared'
  BY DEF Spared, InMaster, InFiles
<1>3. Adopted'
  BY DEF Adopted, Signed, ByVersion1
<1>4. Created'
  BY DEF Created, Signed
<1>5. Brought'
  BY DEF Brought, Signed
<1> QED
  BY <1>1, <1>2, <1>3, <1>4, <1>5

LEMMA StampKeeps ==
  ASSUME OpeningInv, NEW s \in Opener, StampId(s)
  PROVE  OpeningInv'
<1>1. /\ opener[s].step = "stamp" /\ Goes(s, "journal") /\ UNCHANGED atFirst
      /\ catalog' = [catalog EXCEPT !.format = "sqlite", !.appid = "ours"]
  BY DEF StampId, Writes, OpenerAt
<1>2. Went(s, "journal")
  BY <1>1, Going DEF OpenerSteps
<1>3. catalog' \in CatalogFile /\ Signed(catalog')
      /\ catalog'.tables = catalog.tables /\ catalog'.columns = catalog.columns
  BY <1>1 DEF OpeningInv, OpeningTypes, CatalogFile, AppIds, Signed
<1> QED
  BY <1>1, <1>2, <1>3, WriteSteps DEF InFiles, InPath, OpenerSteps

LEMMA JournalKeeps ==
  ASSUME OpeningInv, NEW s \in Opener, SetJournal(s)
  PROVE  OpeningInv'
<1>1. /\ opener[s].step = "journal" /\ Goes(s, "archives") /\ UNCHANGED atFirst
      /\ catalog' = [catalog EXCEPT !.wal = TRUE]
  BY DEF SetJournal, Writes, OpenerAt
<1>2. Went(s, "archives")
  BY <1>1, Going DEF OpenerSteps
<1>3. catalog' \in CatalogFile /\ Signed(catalog')
      /\ catalog'.tables = catalog.tables /\ catalog'.columns = catalog.columns
  BY <1>1 DEF OpeningInv, OpeningTypes, Brought, InMaster, CatalogFile, Signed
<1> QED
  BY <1>1, <1>2, <1>3, WriteSteps DEF InMaster, InFiles, InPath, OpenerSteps

LEMMA ArchivesKeep ==
  ASSUME OpeningInv, NEW s \in Opener, CreateArchives(s)
  PROVE  OpeningInv'
<1>1. /\ opener[s].step = "archives" /\ Goes(s, "files") /\ UNCHANGED atFirst
      /\ catalog' = IF "archives" \in catalog.tables THEN catalog
                    ELSE [catalog EXCEPT !.tables = @ \union {"archives"},
                                         !.columns = @ \union {"content_mode"}]
  BY DEF CreateArchives, Writes, OpenerAt
<1>2. Went(s, "files")
  BY <1>1, Going DEF OpenerSteps
<1>3. /\ catalog' \in CatalogFile /\ Signed(catalog')
      /\ catalog'.tables = catalog.tables \union {"archives"}
      /\ catalog.columns \subseteq catalog'.columns
      /\ "archives" \in catalog.tables \/ "content_mode" \in catalog'.columns
  <2>1. catalog \in CatalogFile /\ Signed(catalog)
    BY <1>1 DEF OpeningInv, OpeningTypes, Brought, InMaster
  <2>2. CASE "archives" \in catalog.tables
    BY <1>1, <2>1, <2>2 DEF Signed
  <2>3. CASE "archives" \notin catalog.tables
    <3>1. catalog' = [catalog EXCEPT !.tables = catalog.tables \union {"archives"},
                                     !.columns = catalog.columns \union {"content_mode"}]
      BY <1>1, <2>3
    <3> QED
      BY <2>1, <3>1 DEF CatalogFile, Tables, Columns, Signed
  <2> QED
    BY <2>2, <2>3
<1> QED
  BY <1>1, <1>2, <1>3, WriteSteps DEF InMaster, InFiles, InPath, OpenerSteps

\* A session that has created the file needs no migration: by then both
\* tables are there, with every column.
LEMMA FilesKeep ==
  ASSUME OpeningInv, NEW s \in Opener, CreateFiles(s)
  PROVE  OpeningInv'
<1> DEFINE step == IF opener[s].new THEN "open" ELSE "see path_raw"
<1>1. /\ opener[s].step = "files" /\ Goes(s, step) /\ UNCHANGED atFirst
      /\ catalog' = IF "files" \in catalog.tables THEN catalog
                    ELSE [catalog EXCEPT !.tables = @ \union {"files"},
                                         !.columns = @ \union {"pb0", "path_raw"}]
  BY DEF CreateFiles, Writes, OpenerAt
<1>2. step \in {"open", "see path_raw"} /\ step \in OpenerSteps
  BY DEF OpenerSteps
<1>3. /\ catalog' \in CatalogFile /\ Signed(catalog')
      /\ catalog'.tables = catalog.tables \union {"files"}
      /\ "archives" \in catalog.tables
      /\ catalog.columns \subseteq catalog'.columns
      /\ "files" \in catalog.tables \/ {"pb0", "path_raw"} \subseteq catalog'.columns
  <2>1. catalog \in CatalogFile /\ Signed(catalog) /\ "archives" \in catalog.tables
    BY <1>1 DEF OpeningInv, OpeningTypes, Brought, InMaster
  <2>2. CASE "files" \in catalog.tables
    BY <1>1, <2>1, <2>2 DEF Signed
  <2>3. CASE "files" \notin catalog.tables
    <3>1. catalog' = [catalog EXCEPT !.tables = catalog.tables \union {"files"},
                                     !.columns = catalog.columns \union {"pb0", "path_raw"}]
      BY <1>1, <2>3
    <3> QED
      BY <2>1, <3>1 DEF CatalogFile, Tables, Columns, Signed
  <2> QED
    BY <2>2, <2>3
<1>4. step = "open" => {"path_raw", "content_mode"} \subseteq catalog'.columns
  <2> SUFFICES ASSUME opener[s].new PROVE {"path_raw", "content_mode"} \subseteq catalog'.columns
    OBVIOUS
  <2>1. atFirst.maker = "nobody"
    BY <1>1, CatalogsAssumption
       DEF OpeningInv, OpeningTypes, CatalogFile, Spared, Adopted
  <2> QED
    BY <1>3, <2>1 DEF OpeningInv, Created
<1> HIDE DEF step
<1>5. Went(s, step)
  BY <1>1, <1>2, Going
<1> QED
  BY <1>1, <1>2, <1>3, <1>4, <1>5, WriteSteps DEF InMaster, InFiles, InPath, OpenerSteps

LEMMA SeeKeeps ==
  ASSUME OpeningInv, NEW s \in Opener,
         NEW at \in OpenerSteps, NEW column \in Columns, NEW add \in OpenerSteps,
         NEW next \in OpenerSteps, SeeColumn(s, at, column, add, next),
         \/ /\ at = "see path_raw" /\ column = "path_raw"
            /\ add = "add path_raw" /\ next = "see content_mode"
         \/ /\ at = "see content_mode" /\ column = "content_mode"
            /\ add = "add content_mode" /\ next = "open"
  PROVE  OpeningInv'
<1> DEFINE step == IF column \in catalog.columns THEN next ELSE add
<1>1. opener[s].step = at /\ Goes(s, step) /\ UNCHANGED <<catalog, atFirst>>
  BY DEF SeeColumn, Reads, Writes, OpenerAt
<1>2. Went(s, step)
  BY <1>1, Going
<1>3. /\ Signed(catalog) /\ {"archives", "files"} \subseteq catalog.tables
      /\ at = "see content_mode" => "path_raw" \in catalog.columns
  BY <1>1 DEF OpeningInv, Brought, InMaster, InFiles, InPath
<1>4. atFirst.maker \notin {"indexer", "someone"}
  BY <1>1 DEF OpeningInv, Spared
<1> QED
  BY <1>1, <1>2, <1>3, <1>4, Reading DEF InMaster, InFiles, InPath

LEMMA AddKeeps ==
  ASSUME OpeningInv, NEW s \in Opener,
         NEW at \in OpenerSteps, NEW column \in Columns,
         NEW next \in OpenerSteps, AddColumn(s, at, column, next),
         \/ at = "add path_raw" /\ column = "path_raw" /\ next = "see content_mode"
         \/ at = "add content_mode" /\ column = "content_mode" /\ next = "open"
  PROVE  OpeningInv'
<1> DEFINE step == IF column \in catalog.columns THEN "stopped" ELSE next
<1>1. /\ opener[s].step = at /\ Goes(s, step) /\ UNCHANGED atFirst
      /\ catalog' = [catalog EXCEPT !.columns = @ \union {column}]
  BY DEF AddColumn, Writes, OpenerAt
<1>2. step \in {"stopped", "see content_mode", "open"} /\ step \in OpenerSteps
  BY DEF OpenerSteps
<1>3. step = "open" => column = "content_mode" /\ at = "add content_mode"
  OBVIOUS
<1>4. step = "see content_mode" => column = "path_raw"
  OBVIOUS
<1>5. /\ catalog' \in CatalogFile /\ Signed(catalog')
      /\ catalog'.tables = catalog.tables /\ {"archives", "files"} \subseteq catalog.tables
      /\ catalog'.columns = catalog.columns \union {column}
      /\ at = "add content_mode" => "path_raw" \in catalog.columns
  BY <1>1 DEF OpeningInv, OpeningTypes, Brought, InMaster, InFiles, InPath, CatalogFile, Signed
<1> HIDE DEF step
<1>6. Went(s, step)
  BY <1>1, <1>2, Going
<1>7. opener[s].step \in InMaster
  BY <1>1 DEF InMaster, InFiles
<1> QED
  BY <1>1, <1>2, <1>3, <1>4, <1>5, <1>6, <1>7, WriteSteps DEF InFiles, InPath

LEMMA StepsKeep ==
  ASSUME OpeningInv, [OpeningNext]_openVars
  PROVE  OpeningInv'
<1>1. CASE UNCHANGED openVars
  BY <1>1 DEF openVars, OpeningInv, OpeningTypes, Spared, Adopted, Created, Brought, Signed, ByVersion1
<1>2. ASSUME NEW s \in Opener, Look(s) PROVE OpeningInv'
  BY <1>2, LookKeeps
<1>3. ASSUME NEW s \in Opener, ReadAppId(s) PROVE OpeningInv'
  BY <1>3, ReadAppIdKeeps
<1>4. ASSUME NEW s \in Opener, ReadTables(s) PROVE OpeningInv'
  BY <1>4, ReadTablesKeeps
<1>5. ASSUME NEW s \in Opener, CreateFile(s) PROVE OpeningInv'
  BY <1>5, CreateFileKeeps
<1>6. ASSUME NEW s \in Opener, StampId(s) PROVE OpeningInv'
  BY <1>6, StampKeeps
<1>7. ASSUME NEW s \in Opener, SetJournal(s) PROVE OpeningInv'
  BY <1>7, JournalKeeps
<1>8. ASSUME NEW s \in Opener, CreateArchives(s) PROVE OpeningInv'
  BY <1>8, ArchivesKeep
<1>9. ASSUME NEW s \in Opener, CreateFiles(s) PROVE OpeningInv'
  BY <1>9, FilesKeep
<1>10. ASSUME NEW s \in Opener, MigratePathRaw(s) PROVE OpeningInv'
  BY <1>10, SeeKeeps, AddKeeps, ZenonT(40) DEF MigratePathRaw, OpenerSteps, Columns
<1>11. ASSUME NEW s \in Opener, MigrateContentMode(s) PROVE OpeningInv'
  BY <1>11, SeeKeeps, AddKeeps, ZenonT(40) DEF MigrateContentMode, OpenerSteps, Columns
<1>12. ASSUME NEW s \in Opener, Stopped(s) PROVE OpeningInv'
  <2>1. Went(s, "stopped") /\ UNCHANGED <<catalog, atFirst>>
    BY <1>12, Going DEF Stopped, OpenerSteps
  <2> QED
    BY <2>1, Reading DEF OpenerSteps, InMaster, InFiles, InPath
<1>13. ASSUME NEW s \in Opener, Again(s) PROVE OpeningInv'
  <2>1. Went(s, "look") /\ UNCHANGED <<catalog, atFirst>>
    BY <1>13, Going DEF Again, OpenerSteps
  <2> QED
    BY <2>1, Reading DEF OpenerSteps, InMaster, InFiles, InPath
<1> QED
  BY <1>1, <1>2, <1>3, <1>4, <1>5, <1>6, <1>7, <1>8, <1>9, <1>10, <1>11, <1>12, <1>13
     DEF OpeningNext

(***************************************************************************)
(* The invariant of open_at: for any number of sessions, whatever file     *)
(* stands under the path, and wherever a session fails or is killed.       *)
(***************************************************************************)
THEOREM OpeningInvariant == OpeningSpec => []OpeningInv
<1>1. OpeningInit => OpeningInv
  BY OpeningStarts
<1>2. OpeningInv /\ [OpeningNext]_openVars => OpeningInv'
  BY StepsKeep
<1> QED
  BY <1>1, <1>2, PTL DEF OpeningSpec

(***************************************************************************)
(* probe and open_at write only what is the program's own, keep a master a *)
(* master, and give no session a catalog that lacks a table or a column.   *)
(***************************************************************************)
THEOREM OpeningOwn == OpeningSpec => []OpensOwn
<1>1. ASSUME OpeningInv PROVE OpensOwn
  <2>1. /\ atFirst.maker \in {"indexer", "someone"} => catalog = atFirst
        /\ atFirst.maker = "master" => Signed(catalog) \/ ByVersion1(catalog)
        /\ atFirst.maker = "nobody" => Signed(catalog) \/ catalog.tables = {}
    BY <1>1 DEF OpeningInv, Spared, Adopted, Created
  <2>2. ASSUME NEW s \in Opener, opener[s].step = "open"
        PROVE  Signed(catalog) /\ Complete(catalog)
    <3>1. /\ Signed(catalog) /\ {"archives", "files"} \subseteq catalog.tables
          /\ {"path_raw", "content_mode"} \subseteq catalog.columns
      BY <1>1, <2>2 DEF OpeningInv, Brought, InMaster, InFiles, InPath
    <3>2. atFirst.maker \in {"master", "nobody"}
      BY <1>1, <2>2, CatalogsAssumption DEF OpeningInv, OpeningTypes, CatalogFile, Spared
    <3>3. "pb0" \in catalog.columns
      BY <1>1, <3>1, <3>2 DEF OpeningInv, Adopted, Created
    <3> QED
      BY <3>1, <3>3 DEF Complete, Columns
  <2> QED
    BY <2>1, <2>2 DEF OpensOwn, OpenerAt
<1> QED
  BY <1>1, OpeningInvariant, PTL

=============================================================================
