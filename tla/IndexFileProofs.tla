-------------------------- MODULE IndexFileProofs --------------------------
(***************************************************************************)
(* Theorems about IndexFile for any number of builders, readers, paths and *)
(* entries.  IndexInv is the inductive invariant: what a builder has       *)
(* staged, what a reader may rely on while nothing has happened to its     *)
(* file, and what the writer's position says of the file it writes to.     *)
(***************************************************************************)
EXTENDS IndexFile, TLAPS

\* The assumptions in the form the proofs use them.
LEMMA Numbers ==
  /\ Entries \in Nat /\ BatchSize \in Nat \ {0} /\ MaxVer \in Nat
  /\ 0 \in 0..MaxVer /\ 0 \in 0..Entries /\ Entries \in 0..Entries
  /\ \A b \in Builder : SourceOf[b] \in Source /\ SourceOf[b] # Foreign
BY IndexAssumption DEF IndexAssumption

LEMMA DestList ==
  ASSUME NEW b \in Builder
  PROVE  Dests[b] \in Seq(Path) /\ Len(Dests[b]) \in Nat /\ 1 \in 1..Len(Dests[b])
<1>1. Dests[b] \in Seq(Path) /\ Len(Dests[b]) >= 1
  BY IndexAssumption DEF IndexAssumption
<1> QED
  BY <1>1

-----------------------------------------------------------------------------
(* Types. *)

LEMMA DestTyped ==
  ASSUME TypeOK, NEW b \in Builder
  PROVE  Dest(b) \in Path
<1>1. builder[b].try \in 1..Len(Dests[b]) /\ Dests[b] \in Seq(Path)
  BY DestList DEF TypeOK
<1> QED
  BY <1>1 DEF Dest

LEMMA NewBuildTyped ==
  /\ NewBuild \in BuilderState /\ NewBuild.pc = "idle" /\ NewBuild.try = 1
  /\ NewBuild.prev = "none" /\ NewBuild.scanned = 0 /\ NewBuild.batch = 0
BY Numbers DEF NewBuild, BuilderState, BuilderPC, Resting, Outcome

LEMMA NoReadTyped ==
  /\ NoRead \in ReaderState /\ [NoRead EXCEPT !.pc = "done"] \in ReaderState
BY DEF NoRead, ReaderState, ReaderPC, Resting

LEMMA StagedFileTyped ==
  ASSUME NEW b \in Builder, NEW n \in 0..Entries, NEW c \in BOOLEAN, NEW w \in BOOLEAN
  PROVE  StagedFile(b, n, c, w) \in Content
<1>1. SourceOf[b] \in Source /\ 0 \in 0..MaxVer
  BY Numbers
<1> QED
  BY <1>1 DEF StagedFile, Content

LEMMA WholeTyped ==
  ASSUME NEW b \in Builder
  PROVE  Whole(b) \in Content /\ Settled(Whole(b)) /\ Whole(b).mid = FALSE
<1>1. /\ SourceOf[b] \in Source /\ SourceOf[b] # Foreign
      /\ 0 \in 0..MaxVer /\ Entries \in 0..Entries
  BY Numbers
<1>2. Whole(b) \in Content /\ Whole(b).mid = FALSE
  BY <1>1 DEF Whole, Content
<1>3. Whole(b) # None /\ Whole(b).owner # Foreign /\ ~Whole(b).wal
  BY <1>1, <1>2, NoneAssumption DEF Whole
<1> QED
  BY <1>2, <1>3 DEF Settled, IsIndex

LEMMA EventTyped ==
  ASSUME TypeOK, NEW k \in Commands \union Accidents, Event(k)
  PROVE  budget' \in [Commands \union Accidents -> Nat]
BY DEF TypeOK, Event

-----------------------------------------------------------------------------
(* A step of one builder on its own staged file. *)

LEMMA PrivateStep ==
  ASSUME IndexInv, NEW b \in Builder, NEW next \in BuilderState,
         next.try \in 1..Len(Dests[b]), NEW file \in Content \union {None},
         Private(b, next, file), RightFile(b, next, MyStaged(b)')
  PROVE  IndexInv'
<1>1. /\ at' = at /\ linked' = linked /\ stray' = stray
      /\ reader' = reader /\ writer' = writer /\ budget' = budget
  BY DEF Private, files
<1>2. /\ builder \in [Builder -> BuilderState]
      /\ staged \in [Builder -> [Path -> Content \union {None}]]
      /\ \A c \in Builder : builder[c].try \in 1..Len(Dests[c])
      /\ Dest(b) \in Path
  BY DestTyped DEF IndexInv, TypeOK
<1>3. builder' \in [Builder -> BuilderState] /\ builder'[b] = next
  BY <1>2 DEF Private
<1>4. \A c \in Builder \ {b} : builder'[c] = builder[c] /\ staged'[c] = staged[c]
  BY <1>2 DEF Private
<1>5. staged' \in [Builder -> [Path -> Content \union {None}]]
  BY <1>2 DEF Private
<1>6. TypeOK'
  <2>1. \A c \in Builder : builder'[c].try \in 1..Len(Dests[c])
    BY <1>2, <1>3, <1>4
  <2> QED
    BY <1>1, <1>3, <1>5, <2>1 DEF IndexInv, TypeOK
<1>7. \A c \in Builder : StagedRight(c)'
  <2>0. StagedRight(b)'
    BY <1>3 DEF StagedRight
  <2> SUFFICES ASSUME NEW c \in Builder, c # b PROVE StagedRight(c)'
    BY <2>0
  <2>1. StagedRight(c) /\ builder'[c] = builder[c] /\ staged'[c] = staged[c]
    BY <1>4 DEF IndexInv
  <2> QED
    BY <2>1 DEF StagedRight, MyStaged, Dest
<1>8. (\A r \in Reader : ReadRight(r)') /\ ReadCoherent' /\ WriterRight'
  BY <1>1 DEF IndexInv, ReadRight, ReadCoherent, WriterRight, AtRead
<1> QED
  BY <1>6, <1>7, <1>8 DEF IndexInv

\* A builder that holds nothing yet, or no longer, has nothing to keep right;
\* one that starts to scan has an empty index.
LEMMA RightWhenFree ==
  ASSUME NEW b \in Builder, NEW st, NEW file, st.scanned = 0, st.batch = 0,
         \/ st.pc \in {"idle", "done", "probe", "create"}
         \/ st.pc \in {"reuse", "scan"} /\ file = StagedFile(b, 0, FALSE, TRUE)
  PROVE  RightFile(b, st, file)
<1>1. st.scanned - st.batch = 0 /\ st.batch <= st.scanned
  OBVIOUS
<1>2. st.pc \in {"reuse", "scan"} => file = StagedFile(b, 0, FALSE, TRUE)
  OBVIOUS
<1> HIDE DEF StagedFile
<1>3. st.pc \in {"reuse", "scan"} =>
        file = StagedFile(b, st.scanned - st.batch, FALSE, TRUE)
  BY <1>1, <1>2
<1>4. st.pc \notin {"fold", "ready", "promote"}
  OBVIOUS
<1> QED
  BY <1>1, <1>3, <1>4 DEF RightFile

\* What Private leaves in the builder's hands.
LEMMA PrivateEffect ==
  ASSUME IndexInv, NEW b \in Builder, NEW next, NEW file, Private(b, next, file)
  PROVE  /\ builder'[b] = next
         /\ next.try = builder[b].try => MyStaged(b)' = file
<1>1. builder \in [Builder -> BuilderState] /\ Dest(b) \in Path
      /\ staged \in [Builder -> [Path -> Content \union {None}]]
  BY DestTyped DEF IndexInv, TypeOK
<1>2. builder'[b] = next /\ staged'[b][Dest(b)] = file
  BY <1>1 DEF Private
<1> QED
  BY <1>2 DEF MyStaged, Dest

\* The staged file has its type.
LEMMA MyStagedTyped ==
  ASSUME IndexInv, NEW b \in Builder
  PROVE  MyStaged(b) \in Content \union {None}
<1>1. Dest(b) \in Path /\ staged \in [Builder -> [Path -> Content \union {None}]]
  BY DestTyped DEF IndexInv, TypeOK
<1> QED
  BY <1>1 DEF MyStaged

\* The states a builder goes to when it gives up a destination.
LEMMA GivingUp ==
  ASSUME IndexInv, NEW b \in Builder
  PROVE  /\ Ended(b) \in BuilderState /\ Ended(b).try \in 1..Len(Dests[b])
         /\ Ended(b).pc = "done" /\ Ended(b).scanned = 0 /\ Ended(b).batch = 0
         /\ Step(b, "probe") \/ Step(b, "create") =>
              /\ NextDest(b) \in BuilderState /\ NextDest(b).try \in 1..Len(Dests[b])
              /\ NextDest(b).pc \in {"probe", "done"}
              /\ NextDest(b).scanned = 0 /\ NextDest(b).batch = 0
<1>1. /\ builder[b] \in BuilderState /\ builder[b].try \in 1..Len(Dests[b])
      /\ Len(Dests[b]) \in Nat /\ StagedRight(b)
  BY DestList DEF IndexInv, TypeOK
<1>2. /\ Ended(b) \in BuilderState /\ Ended(b).try \in 1..Len(Dests[b])
      /\ Ended(b).pc = "done" /\ Ended(b).scanned = 0 /\ Ended(b).batch = 0
  BY <1>1, Numbers DEF Ended, NewBuild, BuilderState, BuilderPC, Resting, Outcome
<1>3. ASSUME Step(b, "probe") \/ Step(b, "create"), builder[b].try < Len(Dests[b])
      PROVE  LET n == [builder[b] EXCEPT !.pc = "probe", !.try = @ + 1]
             IN /\ n \in BuilderState /\ n.try \in 1..Len(Dests[b]) /\ n.pc = "probe"
                /\ n.scanned = 0 /\ n.batch = 0
  <2>1. builder[b].scanned = 0 /\ builder[b].batch = 0
    BY <1>1, <1>3 DEF StagedRight, RightFile, Step
  <2>2. builder[b].try + 1 \in Nat /\ builder[b].try + 1 \in 1..Len(Dests[b])
    BY <1>1, <1>3
  <2> QED
    BY <1>1, <2>1, <2>2 DEF BuilderState, BuilderPC
<1> QED
  BY <1>2, <1>3 DEF NextDest

-----------------------------------------------------------------------------
(* The steps of a builder but Promote and Tidy. *)

LEMMA ProbeStep ==
  ASSUME IndexInv, NEW b \in Builder, Probe(b)
  PROVE  IndexInv'
<1> DEFINE next == IF Replaceable(b) THEN [builder[b] EXCEPT !.pc = "create"]
                   ELSE NextDest(b)
<1>1. /\ builder[b] \in BuilderState /\ builder[b].try \in 1..Len(Dests[b])
      /\ Step(b, "probe") /\ Private(b, next, MyStaged(b))
      /\ builder[b].scanned = 0 /\ builder[b].batch = 0
  BY DEF Probe, IndexInv, TypeOK, StagedRight, RightFile, Step
<1>2. /\ next \in BuilderState /\ next.try \in 1..Len(Dests[b])
      /\ next.pc \in {"create", "probe", "done"} /\ next.scanned = 0 /\ next.batch = 0
  <2>1. LET n == [builder[b] EXCEPT !.pc = "create"]
        IN /\ n \in BuilderState /\ n.try = builder[b].try /\ n.pc = "create"
           /\ n.scanned = 0 /\ n.batch = 0
    BY <1>1 DEF BuilderState, BuilderPC
  <2> QED
    BY <1>1, <2>1, GivingUp
<1> HIDE DEF next
<1>3. RightFile(b, next, MyStaged(b)')
  BY <1>2, RightWhenFree
<1> QED
  BY <1>1, <1>2, <1>3, MyStagedTyped, PrivateStep

LEMMA EmptyIndexTyped ==
  ASSUME NEW b \in Builder
  PROVE  EmptyIndex(b) \in Content /\ EmptyIndex(b) = StagedFile(b, 0, FALSE, TRUE)
<1>1. EmptyIndex(b) = StagedFile(b, 0, FALSE, TRUE)
  BY DEF EmptyIndex, StagedFile
<1>2. 0 \in 0..Entries
  BY Numbers
<1> QED
  BY <1>1, <1>2, StagedFileTyped

LEMMA CreateStep ==
  ASSUME IndexInv, NEW b \in Builder, Create(b) \/ CreateFails(b)
  PROVE  IndexInv'
<1>1. /\ builder[b] \in BuilderState /\ builder[b].try \in 1..Len(Dests[b])
      /\ Step(b, "create") /\ builder[b].scanned = 0 /\ builder[b].batch = 0
  BY DEF Create, CreateFails, IndexInv, TypeOK, StagedRight, RightFile, Step
<1>2. CASE Create(b)
  <2> DEFINE next == [builder[b] EXCEPT !.pc = IF b \in DirBuilder THEN "reuse" ELSE "scan"]
  <2>1. /\ next \in BuilderState /\ next.try = builder[b].try
        /\ next.pc \in {"reuse", "scan"} /\ next.scanned = 0 /\ next.batch = 0
    BY <1>1 DEF BuilderState, BuilderPC
  <2>2. Private(b, next, EmptyIndex(b))
    BY <1>2 DEF Create
  <2> HIDE DEF next
  <2>3. builder'[b] = next /\ MyStaged(b)' = StagedFile(b, 0, FALSE, TRUE)
    BY <2>1, <2>2, PrivateEffect, EmptyIndexTyped, ZenonT(40)
  <2>4. RightFile(b, next, MyStaged(b)')
    BY <2>1, <2>3, RightWhenFree
  <2> QED
    BY <1>1, <2>1, <2>2, <2>4, EmptyIndexTyped, PrivateStep
<1>3. CASE CreateFails(b)
  <2>1. PICK left \in {None, EmptyIndex(b)} : Private(b, NextDest(b), left)
    BY <1>3 DEF CreateFails
  <2>2. NextDest(b).pc \in {"probe", "done"} /\ NextDest(b).scanned = 0 /\ NextDest(b).batch = 0
    BY <1>1, GivingUp
  <2>3. RightFile(b, NextDest(b), MyStaged(b)')
    BY <2>2, RightWhenFree
  <2>4. left \in Content \union {None}
    BY EmptyIndexTyped
  <2> QED
    BY <1>1, <2>1, <2>3, <2>4, GivingUp, PrivateStep
<1> QED
  BY <1>2, <1>3

LEMMA ReuseStep ==
  ASSUME IndexInv, NEW b \in Builder, Reuse(b)
  PROVE  IndexInv'
<1>1. PICK prev \in {"none", "same"} :
        Private(b, [builder[b] EXCEPT !.pc = "scan", !.prev = prev], MyStaged(b))
  BY DEF Reuse
<1> DEFINE next == [builder[b] EXCEPT !.pc = "scan", !.prev = prev]
<1>2. /\ builder[b] \in BuilderState /\ builder[b].try \in 1..Len(Dests[b])
      /\ StagedRight(b) /\ Step(b, "reuse")
  BY DEF Reuse, IndexInv, TypeOK
<1>3. /\ builder[b].scanned = 0 /\ builder[b].batch = 0
      /\ MyStaged(b) = StagedFile(b, builder[b].scanned - builder[b].batch, FALSE, TRUE)
  BY <1>2 DEF StagedRight, RightFile, Step
<1>7. MyStaged(b) = StagedFile(b, 0, FALSE, TRUE)
  BY <1>3
<1>4. /\ next \in BuilderState /\ next.try = builder[b].try
      /\ next.pc = "scan" /\ next.scanned = 0 /\ next.batch = 0
  BY <1>2, <1>3 DEF BuilderState, BuilderPC
<1> HIDE DEF next
<1>5. builder'[b] = next /\ MyStaged(b)' = StagedFile(b, 0, FALSE, TRUE)
  BY <1>1, <1>7, <1>4, PrivateEffect, ZenonT(40) DEF next
<1>6. RightFile(b, next, MyStaged(b)')
  BY <1>4, <1>5, RightWhenFree
<1> QED
  BY <1>1, <1>2, <1>4, <1>6, MyStagedTyped, PrivateStep DEF next

\* The sums of a batch that is not full, and of one that is.
LEMMA BatchSums ==
  ASSUME NEW scanned \in 0..Entries, NEW batch \in 0..Entries, batch <= scanned,
         scanned < Entries
  PROVE  /\ scanned + 1 \in 0..Entries /\ batch + 1 \in 0..Entries
         /\ scanned - batch \in 0..Entries
         /\ (scanned + 1) - (batch + 1) = scanned - batch
         /\ (scanned - batch) + (batch + 1) = (scanned + 1) - 0
         /\ batch + 1 <= scanned + 1 /\ 0 <= scanned + 1
BY Numbers

\* A record is known by its fields.
LEMMA RecordIs ==
  ASSUME NEW o, NEW n, NEW c, NEW w, NEW v, NEW m,
         NEW x \in [owner : {o}, entries : {n}, complete : {c}, wal : {w},
                    ver : {v}, mid : {m}]
  PROVE  x = [owner |-> o, entries |-> n, complete |-> c, wal |-> w,
              ver |-> v, mid |-> m]
OBVIOUS

\* How a batch, the end and the fold change the staged file.
LEMMA StagedGrows ==
  ASSUME NEW b \in Builder, NEW n \in Int, NEW k \in Int, NEW file,
         file = StagedFile(b, n, FALSE, TRUE)
  PROVE  /\ Committed(file, k) = StagedFile(b, n + k, FALSE, TRUE)
         /\ Completed(file, k) = StagedFile(b, n + k, TRUE, TRUE)
<1>1. file.entries + k = n + k
  BY DEF StagedFile
<1>2. [file EXCEPT !.entries = n + k]
        \in [owner : {SourceOf[b]}, entries : {n + k}, complete : {FALSE},
            wal : {TRUE}, ver : {0}, mid : {FALSE}]
  BY DEF StagedFile
<1>3. [file EXCEPT !.entries = n + k, !.complete = TRUE]
        \in [owner : {SourceOf[b]}, entries : {n + k}, complete : {TRUE},
            wal : {TRUE}, ver : {0}, mid : {FALSE}]
  BY DEF StagedFile
<1>4. [file EXCEPT !.entries = n + k] = StagedFile(b, n + k, FALSE, TRUE)
  BY <1>2, RecordIs DEF StagedFile
<1>5. [file EXCEPT !.entries = n + k, !.complete = TRUE] = StagedFile(b, n + k, TRUE, TRUE)
  BY <1>3, RecordIs DEF StagedFile
<1> QED
  BY <1>1, <1>4, <1>5 DEF Committed, Completed

LEMMA StagedFolds ==
  ASSUME NEW b \in Builder, NEW file, file = StagedFile(b, Entries, TRUE, TRUE)
  PROVE  Folded(file) = Whole(b)
<1>1. [file EXCEPT !.wal = FALSE]
        \in [owner : {SourceOf[b]}, entries : {Entries}, complete : {TRUE},
            wal : {FALSE}, ver : {0}, mid : {FALSE}]
  BY DEF StagedFile
<1> QED
  BY <1>1, RecordIs DEF Whole, Folded

LEMMA RecordStep ==
  ASSUME IndexInv, NEW b \in Builder, Record(b)
  PROVE  IndexInv'
<1> DEFINE n == builder[b].batch + 1
           full == n >= BatchSize
           next == [builder[b] EXCEPT !.scanned = @ + 1, !.batch = IF full THEN 0 ELSE n]
           file == IF full THEN Committed(MyStaged(b), n) ELSE MyStaged(b)
           done == builder[b].scanned - builder[b].batch
<1>1. /\ builder[b] \in BuilderState /\ builder[b].try \in 1..Len(Dests[b])
      /\ StagedRight(b) /\ Step(b, "scan") /\ builder[b].scanned < Entries
      /\ Private(b, next, file)
  BY DEF Record, IndexInv, TypeOK
<1>2. /\ builder[b].scanned \in 0..Entries /\ builder[b].batch \in 0..Entries
      /\ builder[b].batch <= builder[b].scanned
      /\ MyStaged(b) = StagedFile(b, done, FALSE, TRUE)
  BY <1>1 DEF StagedRight, RightFile, Step, BuilderState
<1>3. /\ builder[b].scanned + 1 \in 0..Entries /\ n \in 0..Entries /\ done \in 0..Entries
      /\ (builder[b].scanned + 1) - n = done
      /\ done + n = (builder[b].scanned + 1) - 0
      /\ n <= builder[b].scanned + 1 /\ 0 <= builder[b].scanned + 1
  BY <1>1, <1>2, BatchSums
<1>4. /\ next \in BuilderState /\ next.try = builder[b].try /\ next.pc = "scan"
      /\ next.scanned = builder[b].scanned + 1 /\ next.batch = IF full THEN 0 ELSE n
  BY <1>1, <1>3, Numbers DEF BuilderState, Step
<1> HIDE DEF done, n
<1>5. file = StagedFile(b, next.scanned - next.batch, FALSE, TRUE)
  <2>1. CASE full
    <3>1. Committed(MyStaged(b), n) = StagedFile(b, done + n, FALSE, TRUE)
      <4>1. done \in Int /\ n \in Int
        BY <1>3, Numbers
      <4> QED
        BY <1>2, <4>1, StagedGrows
    <3> QED
      BY <2>1, <3>1, <1>3, <1>4
  <2>2. CASE ~full
    BY <2>2, <1>2, <1>3, <1>4
  <2> QED
    BY <2>1, <2>2
<1>6. next.scanned - next.batch \in 0..Entries /\ next.batch <= next.scanned
  BY <1>3, <1>4
<1>7. file \in Content
  BY <1>5, <1>6, StagedFileTyped
<1> HIDE DEF next, file
<1>8. MyStaged(b)' = file
  BY <1>1, <1>4, PrivateEffect
<1>9. RightFile(b, next, MyStaged(b)')
  BY <1>4, <1>5, <1>6, <1>8 DEF RightFile, Resting
<1> QED
  BY <1>1, <1>4, <1>7, <1>9, PrivateStep

LEMMA FinalizeStep ==
  ASSUME IndexInv, NEW b \in Builder, Finalize(b)
  PROVE  IndexInv'
<1> DEFINE next == [builder[b] EXCEPT !.pc = "fold", !.batch = 0]
           file == Completed(MyStaged(b), builder[b].batch)
           done == builder[b].scanned - builder[b].batch
<1>1. /\ builder[b] \in BuilderState /\ builder[b].try \in 1..Len(Dests[b])
      /\ StagedRight(b) /\ Step(b, "scan") /\ builder[b].scanned = Entries
      /\ Private(b, next, file)
  BY DEF Finalize, IndexInv, TypeOK
<1>2. /\ builder[b].batch \in 0..Entries /\ done + builder[b].batch = Entries
      /\ MyStaged(b) = StagedFile(b, done, FALSE, TRUE)
  BY <1>1, Numbers DEF StagedRight, RightFile, Step, BuilderState
<1>8. done \in Int /\ builder[b].batch \in Int
  BY <1>1, <1>2, Numbers DEF BuilderState
<1>3. /\ next \in BuilderState /\ next.try = builder[b].try /\ next.pc = "fold"
      /\ next.scanned = Entries /\ next.batch = 0
  BY <1>1, Numbers DEF BuilderState, BuilderPC
<1> HIDE DEF done
<1>4. file = StagedFile(b, Entries, TRUE, TRUE)
  <2>1. file = StagedFile(b, done + builder[b].batch, TRUE, TRUE)
    BY <1>2, <1>8, StagedGrows
  <2> QED
    BY <2>1, <1>2
<1>5. file \in Content
  BY <1>4, StagedFileTyped, Numbers
<1> HIDE DEF next, file
<1>6. MyStaged(b)' = file
  BY <1>1, <1>3, PrivateEffect
<1>7. RightFile(b, next, MyStaged(b)')
  BY <1>3, <1>4, <1>6, Numbers DEF RightFile, Resting
<1> QED
  BY <1>1, <1>3, <1>5, <1>7, PrivateStep

LEMMA FoldStep ==
  ASSUME IndexInv, NEW b \in Builder, FoldWal(b)
  PROVE  IndexInv'
<1> DEFINE next == [builder[b] EXCEPT !.pc = "ready"]
           file == Folded(MyStaged(b))
<1>1. /\ builder[b] \in BuilderState /\ builder[b].try \in 1..Len(Dests[b])
      /\ StagedRight(b) /\ Step(b, "fold") /\ Private(b, next, file)
  BY DEF FoldWal, IndexInv, TypeOK
<1>2. MyStaged(b) = StagedFile(b, Entries, TRUE, TRUE) /\ builder[b].batch <= builder[b].scanned
  BY <1>1 DEF StagedRight, RightFile, Step
<1>3. /\ next \in BuilderState /\ next.try = builder[b].try /\ next.pc = "ready"
      /\ next.batch <= next.scanned
  BY <1>1, <1>2 DEF BuilderState, BuilderPC
<1>4. file = Whole(b)
  BY <1>2, StagedFolds
<1>5. file \in Content
  BY <1>4, WholeTyped
<1> HIDE DEF next, file
<1>6. MyStaged(b)' = file
  BY <1>1, <1>3, PrivateEffect
<1>7. RightFile(b, next, MyStaged(b)')
  BY <1>3, <1>4, <1>6 DEF RightFile, Resting
<1> QED
  BY <1>1, <1>3, <1>5, <1>7, PrivateStep

LEMMA ReadyStep ==
  ASSUME IndexInv, NEW b \in Builder, Ready(b)
  PROVE  IndexInv'
<1> DEFINE next == [builder[b] EXCEPT !.pc = "promote", !.prev = "none"]
<1>1. /\ builder[b] \in BuilderState /\ builder[b].try \in 1..Len(Dests[b])
      /\ StagedRight(b) /\ Step(b, "ready") /\ Private(b, next, MyStaged(b))
  BY DEF Ready, IndexInv, TypeOK
<1>2. MyStaged(b) = Whole(b) /\ builder[b].batch <= builder[b].scanned
  BY <1>1 DEF StagedRight, RightFile, Step
<1>3. /\ next \in BuilderState /\ next.try = builder[b].try /\ next.pc = "promote"
      /\ next.batch <= next.scanned
  BY <1>1, <1>2 DEF BuilderState, BuilderPC
<1> HIDE DEF next
<1>4. MyStaged(b)' = Whole(b)
  BY <1>1, <1>2, <1>3, PrivateEffect
<1>5. RightFile(b, next, MyStaged(b)')
  BY <1>3, <1>4 DEF RightFile, Resting
<1> QED
  BY <1>1, <1>3, <1>5, MyStagedTyped, PrivateStep

LEMMA FailStep ==
  ASSUME IndexInv, NEW b \in Builder, Fail(b)
  PROVE  IndexInv'
<1>1. /\ Ended(b) \in BuilderState /\ Ended(b).try \in 1..Len(Dests[b])
      /\ Private(b, Ended(b), None)
  BY GivingUp DEF Fail
<1>2. RightFile(b, Ended(b), MyStaged(b)')
  BY GivingUp, RightWhenFree
<1> QED
  BY <1>1, <1>2, PrivateStep

-----------------------------------------------------------------------------
(* Steps of a builder that write no file, and those of promote. *)

\* Starting, being told to stop and being killed.
LEMMA ControlSteps ==
  ASSUME IndexInv, NEW b \in Builder, Start(b) \/ Cancel(b) \/ Kill(b)
  PROVE  IndexInv'
<1>1. /\ builder \in [Builder -> BuilderState] /\ builder[b] \in BuilderState
      /\ \A c \in Builder : builder[c].try \in 1..Len(Dests[c])
      /\ 1 \in 1..Len(Dests[b])
  BY DestList DEF IndexInv, TypeOK
<1>2. /\ at' = at /\ linked' = linked /\ stray' = stray
      /\ staged' = staged /\ reader' = reader /\ writer' = writer
  BY DEF Start, Cancel, Kill, files
<1>3. budget' \in [Commands \union Accidents -> Nat]
  BY EventTyped DEF Start, Cancel, Kill, IndexInv, Commands, Accidents
<1>4. PICK next \in BuilderState :
        /\ builder' = [builder EXCEPT ![b] = next]
        /\ next.try \in 1..Len(Dests[b])
        /\ RightFile(b, next, staged[b][Dests[b][next.try]])
  <2>1. CASE Start(b)
    <3> DEFINE next == [NewBuild EXCEPT !.pc = "probe"]
    <3>1. /\ next \in BuilderState /\ next.try = 1 /\ next.pc = "probe"
          /\ next.scanned = 0 /\ next.batch = 0
      BY NewBuildTyped DEF BuilderState, BuilderPC
    <3>2. builder' = [builder EXCEPT ![b] = next]
      BY <2>1 DEF Start
    <3> QED
      BY <1>1, <3>1, <3>2, RightWhenFree
  <2>2. CASE Cancel(b)
    <3> DEFINE next == [builder[b] EXCEPT !.cancel = TRUE]
    <3>1. /\ next \in BuilderState /\ next.try = builder[b].try /\ next.pc = builder[b].pc
          /\ next.scanned = builder[b].scanned /\ next.batch = builder[b].batch
      BY <1>1 DEF BuilderState
    <3>2. builder' = [builder EXCEPT ![b] = next]
      BY <2>2 DEF Cancel
    <3>3. RightFile(b, builder[b], staged[b][Dests[b][builder[b].try]])
      BY DEF IndexInv, StagedRight, MyStaged, Dest
    <3>4. RightFile(b, next, staged[b][Dests[b][next.try]])
      BY <3>1, <3>3 DEF RightFile
    <3> QED
      BY <1>1, <3>1, <3>2, <3>4
  <2>3. CASE Kill(b)
    BY <1>1, <2>3, NewBuildTyped, RightWhenFree DEF Kill
  <2> QED
    BY <2>1, <2>2, <2>3
<1>5. builder' \in [Builder -> BuilderState] /\ builder'[b] = next
  BY <1>1, <1>4
<1>6. \A c \in Builder \ {b} : builder'[c] = builder[c]
  BY <1>1, <1>4
<1>7. TypeOK'
  <2>1. \A c \in Builder : builder'[c].try \in 1..Len(Dests[c])
    BY <1>1, <1>4, <1>5, <1>6
  <2> QED
    BY <1>2, <1>3, <1>5, <2>1 DEF IndexInv, TypeOK
<1>8. \A c \in Builder : StagedRight(c)'
  <2>1. StagedRight(b)'
    BY <1>2, <1>4, <1>5 DEF StagedRight, MyStaged, Dest
  <2>2. ASSUME NEW c \in Builder, c # b
        PROVE  StagedRight(c)'
    <3>1. StagedRight(c) /\ builder'[c] = builder[c]
      BY <1>6, <2>2 DEF IndexInv
    <3> QED
      BY <1>2, <3>1 DEF StagedRight, MyStaged, Dest
  <2> QED
    BY <2>1, <2>2
<1>9. (\A r \in Reader : ReadRight(r)') /\ ReadCoherent' /\ WriterRight'
  BY <1>2 DEF IndexInv, ReadRight, ReadCoherent, WriterRight, AtRead
<1> QED
  BY <1>7, <1>8, <1>9 DEF IndexInv

\* The readers after the file at p has changed.
LEMMA ReadersSpoiled ==
  ASSUME IndexInv, NEW p \in Path, NEW c, at' = [at EXCEPT ![p] = c],
         \A q \in Path \ {p} : q \in linked' <=> q \in linked,
         reader' = SpoiledReads(p)
  PROVE  /\ reader' \in [Reader -> ReaderState]
         /\ \A r \in Reader : ReadRight(r)'
         /\ ReadCoherent'
<1>1. reader \in [Reader -> ReaderState] /\ at \in [Path -> Content \union {None}]
  BY DEF IndexInv, TypeOK
<1>2. ASSUME NEW r \in Reader
      PROVE  /\ reader'[r] \in ReaderState /\ ReadRight(r)'
             /\ reader'[r].pc = reader[r].pc /\ reader'[r].path = reader[r].path
             /\ reader'[r].meta = reader[r].meta /\ reader'[r].rows = reader[r].rows
  <2>1. reader[r] \in ReaderState /\ ReadRight(r)
    BY <1>1 DEF IndexInv
  <2>2. CASE reader[r].path = p
    <3>1. reader'[r] = [reader[r] EXCEPT !.intact = FALSE]
      BY <2>2 DEF SpoiledReads
    <3>2. /\ reader'[r] \in ReaderState /\ reader'[r].intact = FALSE
          /\ reader'[r].pc = reader[r].pc /\ reader'[r].path = reader[r].path
          /\ reader'[r].meta = reader[r].meta /\ reader'[r].rows = reader[r].rows
      BY <2>1, <3>1 DEF ReaderState
    <3> QED
      BY <2>1, <3>2 DEF ReadRight
  <2>3. CASE reader[r].path # p
    <3>1. reader'[r] = reader[r]
      BY <2>3 DEF SpoiledReads
    <3>2. reader[r].path \in Path => at'[reader[r].path] = at[reader[r].path]
      BY <1>1, <2>3
    <3> QED
      BY <2>1, <2>3, <3>1, <3>2 DEF ReadRight
  <2> QED
    BY <2>2, <2>3
<1>3. reader' \in [Reader -> ReaderState]
  BY <1>2 DEF SpoiledReads
<1>4. ReadCoherent'
  BY <1>2 DEF IndexInv, ReadCoherent, AtRead
<1> QED
  BY <1>2, <1>3, <1>4

\* The builders after the file at p has changed.
LEMMA BuildersSpoiled ==
  ASSUME IndexInv, NEW p \in Path, NEW b \in Builder
  PROVE  /\ SpoiledBuilds(p)[b] \in BuilderState
         /\ SpoiledBuilds(p)[b].try = builder[b].try
         /\ \A f : RightFile(b, builder[b], f) => RightFile(b, SpoiledBuilds(p)[b], f)
<1>1. builder[b] \in BuilderState
  BY DEF IndexInv, TypeOK
<1>2. CASE builder[b].prev = "same" /\ Dest(b) = p
  <2>1. SpoiledBuilds(p)[b] = [builder[b] EXCEPT !.prev = "changed"]
    BY <1>2 DEF SpoiledBuilds
  <2>2. /\ SpoiledBuilds(p)[b] \in BuilderState
        /\ SpoiledBuilds(p)[b].try = builder[b].try
        /\ SpoiledBuilds(p)[b].pc = builder[b].pc
        /\ SpoiledBuilds(p)[b].scanned = builder[b].scanned
        /\ SpoiledBuilds(p)[b].batch = builder[b].batch
    BY <1>1, <2>1 DEF BuilderState
  <2> QED
    BY <2>2 DEF RightFile
<1>3. CASE ~(builder[b].prev = "same" /\ Dest(b) = p)
  BY <1>1, <1>3 DEF SpoiledBuilds
<1> QED
  BY <1>2, <1>3

-----------------------------------------------------------------------------
(* Steps from outside that change a file, and the promotion. *)

\* The file at p becomes c; the writer's position is right for it.
LEMMA ChangeStep ==
  ASSUME IndexInv, NEW p \in Path, NEW c \in Content \union {None}, ChangeFile(p, c),
         linked' \subseteq Path, \A q \in Path \ {p} : q \in linked' <=> q \in linked,
         stray' = stray, staged' = staged, writer' \in WriterState, WriterRight',
         budget' \in [Commands \union Accidents -> Nat]
  PROVE  IndexInv'
<1>1. at' = [at EXCEPT ![p] = c] /\ reader' = SpoiledReads(p) /\ builder' = SpoiledBuilds(p)
  BY DEF ChangeFile
<1>2. /\ at \in [Path -> Content \union {None}]
      /\ \A b \in Builder : builder[b].try \in 1..Len(Dests[b])
      /\ stray \subseteq Path /\ staged \in [Builder -> [Path -> Content \union {None}]]
  BY DEF IndexInv, TypeOK
<1>3. at' \in [Path -> Content \union {None}]
  BY <1>1, <1>2
<1>4. /\ reader' \in [Reader -> ReaderState]
      /\ \A r \in Reader : ReadRight(r)'
      /\ ReadCoherent'
  BY <1>1, ReadersSpoiled
<1>5. /\ builder' \in [Builder -> BuilderState]
      /\ \A b \in Builder : builder'[b].try = builder[b].try /\ builder'[b] = SpoiledBuilds(p)[b]
  BY <1>1, BuildersSpoiled DEF SpoiledBuilds
<1>6. TypeOK'
  BY <1>2, <1>3, <1>4, <1>5 DEF TypeOK
<1>7. ASSUME NEW b \in Builder
      PROVE  StagedRight(b)'
  <2>1. RightFile(b, builder[b], MyStaged(b))
    BY DEF IndexInv, StagedRight
  <2>2. RightFile(b, builder'[b], MyStaged(b))
    BY <1>5, <2>1, BuildersSpoiled
  <2>3. MyStaged(b)' = MyStaged(b)
    BY <1>5 DEF MyStaged, Dest
  <2> QED
    BY <2>2, <2>3 DEF StagedRight
<1> QED
  BY <1>4, <1>6, <1>7 DEF IndexInv

LEMMA PromoteStep ==
  ASSUME IndexInv, NEW b \in Builder, Promote(b)
  PROVE  IndexInv'
<1> DEFINE p == Dest(b)
           mine == [builder[b] EXCEPT !.pc = "tidy"]
<1>1. /\ at \in [Path -> Content \union {None}] /\ linked \subseteq Path
      /\ stray \subseteq Path /\ staged \in [Builder -> [Path -> Content \union {None}]]
      /\ builder[b] \in BuilderState /\ writer \in WriterState
      /\ budget \in [Commands \union Accidents -> Nat]
      /\ \A c \in Builder : builder[c].try \in 1..Len(Dests[c])
      /\ p \in Path
  BY DestTyped DEF IndexInv, TypeOK
<1>2. /\ at' = [at EXCEPT ![p] = MyStaged(b)] /\ reader' = SpoiledReads(p)
      /\ staged' = [staged EXCEPT ![b][p] = None] /\ linked' = linked \ {p}
      /\ builder' = [SpoiledBuilds(p) EXCEPT ![b] = mine]
      /\ writer' = LostFile(p) /\ stray' = stray /\ budget' = budget
      /\ Step(b, "promote")
  BY DEF Promote
<1>3. MyStaged(b) = Whole(b) /\ builder[b].batch <= builder[b].scanned
  BY <1>2 DEF IndexInv, StagedRight, RightFile, Step
<1> HIDE DEF p
<1>4. at' \in [Path -> Content \union {None}]
  BY <1>1, <1>2, <1>3, WholeTyped
<1>5. /\ reader' \in [Reader -> ReaderState]
      /\ \A r \in Reader : ReadRight(r)'
      /\ ReadCoherent'
  BY <1>1, <1>2, ReadersSpoiled
<1>6. /\ mine \in BuilderState /\ mine.try = builder[b].try /\ mine.pc = "tidy"
      /\ mine.batch <= mine.scanned
  BY <1>1, <1>3 DEF BuilderState, BuilderPC
<1> HIDE DEF mine
<1>7. /\ builder' \in [Builder -> BuilderState] /\ builder'[b] = mine
      /\ \A c \in Builder \ {b} : builder'[c] = SpoiledBuilds(p)[c]
      /\ \A c \in Builder : builder'[c].try = builder[c].try
  BY <1>1, <1>2, <1>6, BuildersSpoiled DEF SpoiledBuilds
<1>8. /\ staged' \in [Builder -> [Path -> Content \union {None}]]
      /\ \A c \in Builder \ {b} : staged'[c] = staged[c]
  BY <1>1, <1>2
<1>9. writer' \in WriterState
  BY <1>1, <1>2 DEF LostFile, WriterState
<1>10. TypeOK'
  BY <1>1, <1>2, <1>4, <1>5, <1>7, <1>8, <1>9 DEF TypeOK
<1>11. ASSUME NEW c \in Builder
       PROVE  StagedRight(c)'
  <2>1. CASE c = b
    <3>1. RightFile(b, mine, MyStaged(b)')
      BY <1>6 DEF RightFile, Resting
    <3> QED
      BY <1>7, <2>1, <3>1 DEF StagedRight
  <2>2. CASE c # b
    <3>1. RightFile(c, builder[c], MyStaged(c))
      BY DEF IndexInv, StagedRight
    <3>2. RightFile(c, builder'[c], MyStaged(c))
      BY <1>1, <1>7, <2>2, <3>1, BuildersSpoiled
    <3>3. MyStaged(c)' = MyStaged(c)
      BY <1>7, <1>8, <2>2 DEF MyStaged, Dest
    <3> QED
      BY <3>2, <3>3 DEF StagedRight
  <2> QED
    BY <2>1, <2>2
<1>12. WriterRight'
  <2>1. at'[p] = Whole(b) /\ ~Whole(b).mid
    BY <1>1, <1>2, <1>3, WholeTyped
  <2>2. \A q \in Path \ {p} : at'[q] = at[q] /\ (q \in linked' <=> q \in linked)
    BY <1>1, <1>2
  <2>3. CASE writer.path = p
    <3>1. /\ writer'.same = FALSE /\ writer'.pc = writer.pc
          /\ writer'.path = writer.path
      BY <1>1, <1>2, <2>3 DEF LostFile, WriterState
    <3>2. \A q \in Path \ {p} : at[q] # None => ~at[q].mid
      BY <2>3 DEF IndexInv, WriterRight
    <3> QED
      BY <1>1, <2>1, <2>2, <2>3, <3>1, <3>2 DEF WriterRight
  <2>4. CASE writer.path # p
    <3>1. writer' = writer
      BY <1>2, <2>4 DEF LostFile
    <3>2. writer.same => writer.path \in Path
      BY DEF IndexInv, WriterRight
    <3> QED
      BY <2>1, <2>2, <2>4, <3>1, <3>2 DEF IndexInv, WriterRight
  <2> QED
    BY <2>3, <2>4
<1> QED
  BY <1>5, <1>10, <1>11, <1>12 DEF IndexInv

LEMMA TidyStep ==
  ASSUME IndexInv, NEW b \in Builder, Tidy(b)
  PROVE  IndexInv'
<1> DEFINE next == [NewBuild EXCEPT !.pc = "done", !.try = builder[b].try, !.outcome = "ok"]
<1>1. /\ builder \in [Builder -> BuilderState] /\ stray \subseteq Path
      /\ \A c \in Builder : builder[c].try \in 1..Len(Dests[c])
      /\ builder[b].try \in Nat
  BY DestList DEF IndexInv, TypeOK
<1>2. /\ at' = at /\ linked' = linked /\ staged' = staged /\ reader' = reader
      /\ writer' = writer /\ budget' = budget /\ stray' = stray \ {Dest(b)}
      /\ builder' = [builder EXCEPT ![b] = next]
  BY DEF Tidy
<1>3. /\ next \in BuilderState /\ next.try = builder[b].try /\ next.pc = "done"
      /\ next.scanned = 0 /\ next.batch = 0
  BY <1>1, NewBuildTyped DEF BuilderState, BuilderPC, Resting, Outcome
<1> HIDE DEF next
<1>4. /\ builder' \in [Builder -> BuilderState] /\ builder'[b] = next
      /\ \A c \in Builder \ {b} : builder'[c] = builder[c]
  BY <1>1, <1>2, <1>3
<1>5. TypeOK'
  <2>1. \A c \in Builder : builder'[c].try \in 1..Len(Dests[c])
    BY <1>1, <1>3, <1>4
  <2> QED
    BY <1>1, <1>2, <1>4, <2>1 DEF IndexInv, TypeOK
<1>6. \A c \in Builder : StagedRight(c)'
  <2>1. StagedRight(b)'
    BY <1>3, <1>4, RightWhenFree DEF StagedRight
  <2>2. ASSUME NEW c \in Builder, c # b
        PROVE  StagedRight(c)'
    BY <1>2, <1>4, <2>2 DEF IndexInv, StagedRight, MyStaged, Dest
  <2> QED
    BY <2>1, <2>2
<1>7. (\A r \in Reader : ReadRight(r)') /\ ReadCoherent' /\ WriterRight'
  BY <1>2 DEF IndexInv, ReadRight, ReadCoherent, WriterRight, AtRead
<1> QED
  BY <1>5, <1>6, <1>7 DEF IndexInv
-----------------------------------------------------------------------------
(* The SQLite writer and the users. *)

\* A step that touches no file.
LEMMA NoFileStep ==
  ASSUME IndexInv, UNCHANGED <<at, linked, staged, builder, reader>>,
         stray' \subseteq Path, writer' \in WriterState, WriterRight',
         budget' \in [Commands \union Accidents -> Nat]
  PROVE  IndexInv'
<1>1. TypeOK'
  BY DEF IndexInv, TypeOK
<1>2. \A b \in Builder : StagedRight(b)'
  BY DEF IndexInv, StagedRight, MyStaged, Dest
<1>3. (\A r \in Reader : ReadRight(r)') /\ ReadCoherent'
  BY DEF IndexInv, ReadRight, ReadCoherent, AtRead
<1> QED
  BY <1>1, <1>2, <1>3 DEF IndexInv

LEMMA NoWriterTyped ==
  /\ NoWriter \in WriterState /\ NoWriter.pc = "idle" /\ ~NoWriter.same
BY DEF NoWriter, WriterState

\* No file is half written but one that the writer still has.
LEMMA NoneMid ==
  ASSUME IndexInv, ~writer.same \/ writer.pc \in {"idle", "reserved"}
  PROVE  \A p \in Path : at[p] # None => ~at[p].mid
BY DEF IndexInv, WriterRight

\* What an in-place change leaves.
LEMMA Changed ==
  ASSUME IndexInv, NEW p \in Path, IsIndex(at[p])
  PROVE  /\ at[p] \in Content
         /\ \A m \in BOOLEAN :
              /\ [at[p] EXCEPT !.mid = m] \in Content
              /\ [at[p] EXCEPT !.mid = m].mid = m
              /\ [at[p] EXCEPT !.mid = m].ver = at[p].ver
              /\ IsIndex([at[p] EXCEPT !.mid = m])
         /\ at[p].ver < MaxVer =>
              /\ [at[p] EXCEPT !.ver = @ + 1, !.mid = FALSE] \in Content
              /\ [at[p] EXCEPT !.ver = @ + 1, !.mid = FALSE].mid = FALSE
              /\ [at[p] EXCEPT !.ver = @ + 1] \in Content
              /\ [at[p] EXCEPT !.ver = @ + 1].mid = at[p].mid
<1>1. at[p] \in Content /\ at[p].owner # Foreign
  BY DEF IndexInv, TypeOK, IsIndex
<1>2. at[p].ver \in Nat /\ MaxVer \in Nat /\ (at[p].ver < MaxVer => at[p].ver + 1 \in 0..MaxVer)
  BY <1>1, Numbers DEF Content
<1>3. \A m \in BOOLEAN :
              /\ [at[p] EXCEPT !.mid = m] \in Content
              /\ [at[p] EXCEPT !.mid = m].mid = m
              /\ [at[p] EXCEPT !.mid = m].ver = at[p].ver
              /\ [at[p] EXCEPT !.mid = m].owner = at[p].owner
  BY <1>1 DEF Content
<1>4. ASSUME at[p].ver < MaxVer
      PROVE  /\ [at[p] EXCEPT !.ver = @ + 1, !.mid = FALSE] \in Content
             /\ [at[p] EXCEPT !.ver = @ + 1, !.mid = FALSE].mid = FALSE
             /\ [at[p] EXCEPT !.ver = @ + 1] \in Content
             /\ [at[p] EXCEPT !.ver = @ + 1].mid = at[p].mid
  BY <1>1, <1>2, <1>4 DEF Content
<1> QED
  BY <1>1, <1>3, <1>4, NoneAssumption DEF IsIndex

LEMMA WriterStep ==
  ASSUME IndexInv, WriterActs
  PROVE  IndexInv'
<1>1. /\ at \in [Path -> Content \union {None}] /\ writer \in WriterState
      /\ linked \subseteq Path /\ stray \subseteq Path
      /\ budget \in [Commands \union Accidents -> Nat]
      /\ WriterRight /\ TypeOK
  BY DEF IndexInv, TypeOK
<1>2. ASSUME NEW p \in Path, WriterBegins(p)
      PROVE  IndexInv'
  <2>1. /\ UNCHANGED <<at, linked, stray, staged, builder, reader>>
        /\ writer.pc = "idle" /\ IsIndex(at[p]) /\ Event("write")
    BY <1>2 DEF WriterBegins, files
  <2>2. PICK hidden \in {FALSE} \union {h \in {TRUE} : p \in linked} :
          writer' = [pc |-> "reserved", path |-> p, hidden |-> hidden, same |-> TRUE]
    BY <1>2 DEF WriterBegins
  <2>3. /\ writer' \in WriterState /\ writer'.pc = "reserved" /\ writer'.path = p
        /\ writer'.same /\ (writer'.hidden => p \in linked)
    BY <2>2 DEF WriterState
  <2>4. \A q \in Path : at[q] # None => ~at[q].mid
    BY <2>1, NoneMid
  <2>5. WriterRight'
    BY <2>1, <2>3, <2>4 DEF WriterRight, IsIndex
  <2>6. budget' \in [Commands \union Accidents -> Nat]
    BY <1>1, <2>1, EventTyped DEF Commands, Accidents
  <2> QED
    BY <1>1, <2>1, <2>3, <2>5, <2>6, NoFileStep
<1>3. ASSUME WriterWrites
      PROVE  IndexInv'
  <2>1. /\ writer.pc = "reserved" /\ writer' = [writer EXCEPT !.pc = "writing"]
        /\ UNCHANGED <<linked, stray, staged, budget>>
    BY <1>3 DEF WriterWrites
  <2>2. /\ writer' \in WriterState /\ writer'.pc = "writing" /\ writer'.path = writer.path
        /\ writer'.same = writer.same /\ writer'.hidden = writer.hidden
    BY <1>1, <2>1 DEF WriterState
  <2>3. CASE writer.same
    <3> DEFINE p == writer.path
               c == [at[p] EXCEPT !.mid = TRUE]
    <3>1. p \in Path /\ IsIndex(at[p]) /\ at[p].ver < MaxVer /\ ChangeFile(p, c)
      BY <1>1, <1>3, <2>1, <2>3 DEF WriterWrites, WriterRight
    <3>2. c \in Content /\ c.mid /\ c.ver = at[p].ver /\ IsIndex(c)
      BY <3>1, Changed
    <3>3. at' = [at EXCEPT ![p] = c]
      BY <3>1 DEF ChangeFile
    <3> HIDE DEF c
    <3>4. at'[p] = c /\ \A q \in Path \ {p} : at'[q] = at[q]
      BY <1>1, <3>1, <3>3
    <3>5. \A q \in Path : at[q] # None => ~at[q].mid
      BY <2>1, NoneMid
    <3>6. WriterRight'
      BY <1>1, <2>1, <2>2, <2>3, <3>1, <3>2, <3>4, <3>5 DEF WriterRight
    <3> QED
      BY <1>1, <2>1, <2>2, <3>1, <3>2, <3>6, ChangeStep
  <2>4. CASE ~writer.same
    <3>1. UNCHANGED <<at, reader, builder>>
      BY <1>3, <2>4 DEF WriterWrites
    <3>2. WriterRight'
      BY <1>1, <2>2, <2>4, <3>1, <2>1 DEF WriterRight
    <3> QED
      BY <1>1, <2>1, <2>2, <3>1, <3>2, NoFileStep
  <2> QED
    BY <2>3, <2>4
<1>4. ASSUME WriterCommits \/ WriterRecovers
      PROVE  IndexInv'
  <2>1. /\ writer' = NoWriter /\ UNCHANGED <<linked, stray, staged, budget>>
        /\ writer' \in WriterState /\ writer'.pc = "idle" /\ ~writer'.same
    BY <1>4, NoWriterTyped DEF WriterCommits, WriterRecovers
  <2>2. CASE writer.same
    <3>1. writer.path \in Path /\ IsIndex(at[writer.path])
      BY <1>1, <2>2 DEF WriterRight
    <3>2. PICK c \in Content : ChangeFile(writer.path, c) /\ ~c.mid
      <4>1. CASE WriterCommits
        BY <1>1, <2>2, <3>1, <4>1, Changed DEF WriterCommits, WriterRight
      <4>2. CASE WriterRecovers
        BY <2>2, <3>1, <4>2, Changed DEF WriterRecovers
      <4> QED
        BY <1>4, <4>1, <4>2
    <3>3. at'[writer.path] = c /\ \A q \in Path \ {writer.path} : at'[q] = at[q]
      BY <1>1, <3>1, <3>2 DEF ChangeFile
    <3>4. WriterRight'
      BY <1>1, <2>1, <3>2, <3>3 DEF WriterRight
    <3> QED
      BY <1>1, <2>1, <3>1, <3>2, <3>4, ChangeStep
  <2>3. CASE ~writer.same
    <3>1. UNCHANGED <<at, reader, builder>>
      BY <1>4, <2>3 DEF WriterCommits, WriterRecovers
    <3>2. WriterRight'
      BY <1>1, <2>1, <2>3, <3>1 DEF WriterRight
    <3> QED
      BY <1>1, <2>1, <3>1, <3>2, NoFileStep
  <2> QED
    BY <2>2, <2>3
<1>5. ASSUME WriterGivesUp
      PROVE  IndexInv'
  <2>1. /\ writer.pc = "reserved" /\ writer' = NoWriter
        /\ UNCHANGED <<at, linked, stray, staged, builder, reader, budget>>
    BY <1>5 DEF WriterGivesUp, files
  <2>2. WriterRight'
    BY <2>1, NoneMid, NoWriterTyped DEF WriterRight
  <2> QED
    BY <1>1, <2>1, <2>2, NoWriterTyped, NoFileStep
<1>6. ASSUME WriterCrashes
      PROVE  IndexInv'
  <2>1. /\ UNCHANGED <<at, linked, stray, staged, builder, reader>> /\ Event("crash")
        /\ writer.pc # "idle" /\ writer' = [writer EXCEPT !.pc = "crashed"]
    BY <1>6 DEF WriterCrashes, files
  <2>2. /\ writer' \in WriterState /\ writer'.pc = "crashed" /\ writer'.path = writer.path
        /\ writer'.same = writer.same /\ writer'.hidden = writer.hidden
    BY <1>1, <2>1 DEF WriterState
  <2>3. WriterRight'
    BY <1>1, <2>1, <2>2 DEF WriterRight
  <2>4. budget' \in [Commands \union Accidents -> Nat]
    BY <1>1, <2>1, EventTyped DEF Commands, Accidents
  <2> QED
    BY <1>1, <2>1, <2>2, <2>3, <2>4, NoFileStep
<1> QED
  BY <1>2, <1>3, <1>4, <1>5, <1>6 DEF WriterActs

LEMMA UserStep ==
  ASSUME IndexInv, NEW p \in Path, Replace(p) \/ Overwrite(p) \/ Relink(p) \/ LeaveWal(p)
  PROVE  IndexInv'
<1>1. /\ at \in [Path -> Content \union {None}] /\ writer \in WriterState
      /\ linked \subseteq Path /\ stray \subseteq Path /\ TypeOK /\ WriterRight
  BY DEF IndexInv, TypeOK
<1>2. budget' \in [Commands \union Accidents -> Nat]
  BY <1>1, EventTyped DEF Replace, Overwrite, Relink, LeaveWal, Commands, Accidents
<1>3. ASSUME Replace(p)
      PROVE  IndexInv'
  <2>1. PICK c \in Other \union {None} : ChangeFile(p, c)
    BY <1>3 DEF Replace
  <2>2. /\ linked' = linked \ {p} /\ writer' = LostFile(p) /\ UNCHANGED <<stray, staged>>
    BY <1>3 DEF Replace
  <2>3. c \in Content \union {None} /\ (c # None => ~c.mid)
    <3>1. 0 \in 0..Entries /\ 0 \in 0..MaxVer /\ \A b \in Builder : SourceOf[b] \in Source
      BY Numbers
    <3> SUFFICES ASSUME c # None PROVE c \in Content /\ ~c.mid
      OBVIOUS
    <3>2. PICK o \in {Foreign} \union {SourceOf[b] : b \in Builder} :
            c = [owner |-> o, entries |-> 0, complete |-> FALSE, wal |-> FALSE,
                 ver |-> 0, mid |-> FALSE]
      BY DEF Other
    <3>3. o \in Source \union {Foreign}
      BY <3>1
    <3> QED
      BY <3>1, <3>2, <3>3 DEF Content
  <2>4. at'[p] = c /\ \A q \in Path \ {p} : at'[q] = at[q]
    BY <1>1, <2>1 DEF ChangeFile
  <2>5. writer' \in WriterState /\ WriterRight'
    <3>1. CASE writer.path = p
      <4>1. /\ writer' \in WriterState /\ ~writer'.same /\ writer'.pc = writer.pc
            /\ writer'.path = p
        BY <1>1, <2>2, <3>1 DEF LostFile, WriterState
      <4> QED
        BY <1>1, <2>3, <2>4, <3>1, <4>1 DEF WriterRight
    <3>2. CASE writer.path # p
      <4>1. writer' = writer
        BY <2>2, <3>2 DEF LostFile
      <4> QED
        BY <1>1, <2>2, <2>3, <2>4, <3>2, <4>1 DEF WriterRight
    <3> QED
      BY <3>1, <3>2
  <2> QED
    BY <1>1, <1>2, <2>1, <2>2, <2>3, <2>5, ChangeStep
<1>4. ASSUME Overwrite(p)
      PROVE  IndexInv'
  <2> DEFINE c == [at[p] EXCEPT !.ver = @ + 1]
  <2>1. /\ IsIndex(at[p]) /\ at[p].ver < MaxVer /\ writer.path # p /\ ChangeFile(p, c)
        /\ UNCHANGED <<linked, stray, staged, writer>>
    BY <1>4 DEF Overwrite
  <2>2. c \in Content /\ c.mid = at[p].mid
    BY <2>1, Changed
  <2>3. ~at[p].mid
    BY <1>1, <2>1 DEF WriterRight, IsIndex
  <2>4. at'[p] = c /\ \A q \in Path \ {p} : at'[q] = at[q]
    BY <1>1, <2>1 DEF ChangeFile
  <2> HIDE DEF c
  <2>5. WriterRight'
    BY <1>1, <2>1, <2>2, <2>3, <2>4 DEF WriterRight
  <2> QED
    BY <1>1, <1>2, <2>1, <2>2, <2>5, ChangeStep
<1>5. ASSUME Relink(p)
      PROVE  IndexInv'
  <2>1. /\ ~writer.hidden /\ ChangeFile(p, at[p]) /\ UNCHANGED <<stray, staged, writer>>
        /\ linked' = IF p \in linked THEN linked \ {p} ELSE linked \union {p}
    BY <1>5 DEF Relink
  <2>2. linked' \subseteq Path /\ \A q \in Path \ {p} : q \in linked' <=> q \in linked
    BY <1>1, <2>1
  <2>3. at' = at /\ at[p] \in Content \union {None}
    BY <1>1, <2>1 DEF ChangeFile
  <2>4. WriterRight'
    BY <1>1, <2>1, <2>3 DEF WriterRight
  <2> QED
    BY <1>1, <1>2, <2>1, <2>2, <2>3, <2>4, ChangeStep
<1>6. ASSUME LeaveWal(p)
      PROVE  IndexInv'
  <2>1. /\ UNCHANGED <<at, linked, staged, builder, reader, writer>>
        /\ stray' = stray \union {p}
    BY <1>6 DEF LeaveWal
  <2>2. WriterRight'
    BY <1>1, <2>1 DEF WriterRight
  <2> QED
    BY <1>1, <1>2, <2>1, <2>2, NoFileStep
<1> QED
  BY <1>3, <1>4, <1>5, <1>6

-----------------------------------------------------------------------------
(* The readers. *)

\* What a reader that was shown results was shown.
Shown(st) ==
  st.pc = "done" => \/ st.meta = None /\ st.rows = None /\ st.path = None
                    \/ st.meta = st.rows /\ Settled(st.meta)

\* One reader moves; no file is touched.
LEMMA OneReaderStep ==
  ASSUME IndexInv, NEW r \in Reader, NEW next \in ReaderState,
         reader' = [reader EXCEPT ![r] = next],
         UNCHANGED <<at, linked, stray, staged, builder, writer>>,
         budget' \in [Commands \union Accidents -> Nat],
         ReadRight(r)', Shown(next)
  PROVE  IndexInv'
<1>1. reader \in [Reader -> ReaderState]
  BY DEF IndexInv, TypeOK
<1>2. /\ reader' \in [Reader -> ReaderState] /\ reader'[r] = next
      /\ \A q \in Reader \ {r} : reader'[q] = reader[q]
  BY <1>1
<1>3. TypeOK'
  BY <1>2 DEF IndexInv, TypeOK
<1>4. (\A b \in Builder : StagedRight(b)') /\ WriterRight'
  BY DEF IndexInv, StagedRight, MyStaged, Dest, WriterRight
<1>5. \A q \in Reader : ReadRight(q)'
  BY <1>2 DEF IndexInv, ReadRight
<1>6. ReadCoherent'
  BY <1>2 DEF IndexInv, ReadCoherent, AtRead, Shown
<1> QED
  BY <1>3, <1>4, <1>5, <1>6 DEF IndexInv

LEMMA Refused ==
  /\ [NoRead EXCEPT !.pc = "done"] \in ReaderState
  /\ [NoRead EXCEPT !.pc = "done"].pc = "done"
  /\ [NoRead EXCEPT !.pc = "done"].intact = FALSE
  /\ Shown([NoRead EXCEPT !.pc = "done"])
BY NoReadTyped DEF NoRead, Shown

LEMMA RefuseStep ==
  ASSUME IndexInv, NEW r \in Reader, Refuse(r)
  PROVE  IndexInv'
<1> DEFINE next == [NoRead EXCEPT !.pc = "done"]
<1>1. /\ reader' = [reader EXCEPT ![r] = next]
      /\ UNCHANGED <<at, linked, stray, staged, builder, writer, budget>>
  BY DEF Refuse, ReaderStep, files
<1>2. next \in ReaderState /\ next.pc = "done" /\ next.intact = FALSE /\ Shown(next)
  BY Refused
<1> HIDE DEF next
<1>3. reader'[r] = next /\ budget' \in [Commands \union Accidents -> Nat]
  BY <1>1 DEF IndexInv, TypeOK
<1>4. ReadRight(r)'
  BY <1>2, <1>3 DEF ReadRight, Resting
<1> QED
  BY <1>1, <1>2, <1>3, <1>4, OneReaderStep

LEMMA StartReadStep ==
  ASSUME IndexInv, NEW r \in Reader, StartRead(r)
  PROVE  IndexInv'
<1>1. PICK p \in Path :
        /\ Event("read")
        /\ reader' = [reader EXCEPT ![r] =
             IF at[p] # None /\ p \notin linked
             THEN [NoRead EXCEPT !.pc = "guard", !.path = p, !.intact = TRUE]
             ELSE [NoRead EXCEPT !.pc = "done"]]
        /\ UNCHANGED <<at, linked, stray, staged, builder, writer>>
  BY DEF StartRead, files
<1>2. budget' \in [Commands \union Accidents -> Nat] /\ reader \in [Reader -> ReaderState]
  BY <1>1, EventTyped DEF IndexInv, TypeOK, Commands, Accidents
<1>3. CASE at[p] # None /\ p \notin linked
  <2> DEFINE next == [NoRead EXCEPT !.pc = "guard", !.path = p, !.intact = TRUE]
  <2>1. next \in ReaderState /\ next.pc = "guard" /\ next.path = p
    BY NoReadTyped DEF ReaderState, ReaderPC, NoRead
  <2>2. reader' = [reader EXCEPT ![r] = next]
    BY <1>1, <1>3
  <2> HIDE DEF next
  <2>3. reader'[r] = next
    BY <1>2, <2>2
  <2>4. ReadRight(r)' /\ Shown(next)
    BY <1>1, <1>3, <2>1, <2>3 DEF ReadRight, AfterGuard, Shown
  <2> QED
    BY <1>1, <1>2, <2>1, <2>2, <2>4, OneReaderStep
<1>4. CASE ~(at[p] # None /\ p \notin linked)
  <2> DEFINE next == [NoRead EXCEPT !.pc = "done"]
  <2>1. reader' = [reader EXCEPT ![r] = next]
    BY <1>1, <1>4
  <2>2. next \in ReaderState /\ next.pc = "done" /\ next.intact = FALSE /\ Shown(next)
    BY Refused
  <2> HIDE DEF next
  <2>3. reader'[r] = next
    BY <1>2, <2>1
  <2>4. ReadRight(r)'
    BY <2>2, <2>3 DEF ReadRight, Resting
  <2> QED
    BY <1>1, <1>2, <2>1, <2>2, <2>4, OneReaderStep
<1> QED
  BY <1>3, <1>4

\* What a reader keeps when it goes on to pc.
LEMMA GoOnStep ==
  ASSUME IndexInv, NEW r \in Reader, NEW pc \in ReaderPC,
         GoOn(r, pc), ReadRight(r)', Shown([reader[r] EXCEPT !.pc = pc])
  PROVE  IndexInv'
<1>1. reader[r] \in ReaderState /\ budget \in [Commands \union Accidents -> Nat]
  BY DEF IndexInv, TypeOK
<1>2. [reader[r] EXCEPT !.pc = pc] \in ReaderState
  BY <1>1 DEF ReaderState
<1>3. /\ reader' = [reader EXCEPT ![r] = [reader[r] EXCEPT !.pc = pc]]
      /\ UNCHANGED <<at, linked, stray, staged, builder, writer, budget>>
  BY DEF GoOn, ReaderStep, files
<1> QED
  BY <1>1, <1>2, <1>3, OneReaderStep

LEMMA GoneOn ==
  ASSUME IndexInv, NEW r \in Reader, NEW pc \in ReaderPC, GoOn(r, pc)
  PROVE  /\ reader'[r].pc = pc /\ reader'[r].path = reader[r].path
         /\ reader'[r].intact = reader[r].intact
         /\ reader'[r].meta = reader[r].meta /\ reader'[r].rows = reader[r].rows
         /\ [reader[r] EXCEPT !.pc = pc].pc = pc
         /\ [reader[r] EXCEPT !.pc = pc].meta = reader[r].meta
         /\ [reader[r] EXCEPT !.pc = pc].rows = reader[r].rows
         /\ at' = at /\ linked' = linked
<1>1. reader[r] \in ReaderState /\ reader \in [Reader -> ReaderState]
  BY DEF IndexInv, TypeOK
<1>2. /\ reader' = [reader EXCEPT ![r] = [reader[r] EXCEPT !.pc = pc]]
      /\ at' = at /\ linked' = linked
  BY DEF GoOn, ReaderStep, files
<1> QED
  BY <1>1, <1>2 DEF ReaderState

\* The file is not half written when the guard passes: the writer's journal
\* would be beside it, or the file has a second name and was refused.
LEMMA GuardStep ==
  ASSUME IndexInv, NEW r \in Reader, Guard(r)
  PROVE  IndexInv'
<1> DEFINE p == reader[r].path
<1>1. ReadRight(r) /\ WriterRight /\ AtRead(r, "guard") /\ p \in Path
  BY DEF IndexInv, Guard, ReadRight, AtRead, Resting
<1>2. CASE Guarded(p)
  <2>1. GoOn(r, "open") /\ "open" \in ReaderPC
    BY <1>2 DEF Guard, ReaderPC
  <2>2. reader[r].intact => Settled(at[p])
    <3> SUFFICES ASSUME reader[r].intact PROVE ~at[p].mid
      BY <1>2 DEF Guarded, Settled
    <3>1. p \notin linked /\ at[p] # None
      BY <1>1 DEF ReadRight, AtRead, Resting
    <3>2. SUFFICES ASSUME at[p].mid PROVE FALSE
      OBVIOUS
    <3>3. writer.path = p /\ writer.same /\ writer.pc # "idle"
      BY <1>1, <3>1, <3>2 DEF WriterRight
    <3>4. ~writer.hidden
      BY <1>1, <3>1, <3>3 DEF WriterRight
    <3> QED
      BY <1>2, <3>3, <3>4 DEF Guarded, Pending, Journal
  <2>3. ReadRight(r)' /\ Shown([reader[r] EXCEPT !.pc = "open"])
    BY <1>1, <2>1, <2>2, GoneOn DEF ReadRight, Shown, AtRead, Resting, AfterGuard
  <2> QED
    BY <2>1, <2>3, GoOnStep
<1>3. CASE ~Guarded(p)
  BY <1>3, RefuseStep DEF Guard
<1> QED
  BY <1>2, <1>3

\* Two results of one committed state, then the comparison of the stamps.
LEMMA ReadStep ==
  ASSUME IndexInv, NEW r \in Reader, Read(r)
  PROVE  IndexInv'
<1>1. /\ reader \in [Reader -> ReaderState] /\ reader[r] \in ReaderState /\ ReadRight(r)
      /\ at \in [Path -> Content \union {None}]
      /\ budget \in [Commands \union Accidents -> Nat]
  BY DEF IndexInv, TypeOK
<1>2. CASE Guard(r)
  BY <1>2, GuardStep
<1>3. ASSUME Open(r) \/ CommitRead(r)
      PROVE  IndexInv'
  <2>1. ASSUME NEW pc \in {"meta", "stamp"}, GoOn(r, pc),
               IF pc = "meta" THEN AtRead(r, "open") ELSE AtRead(r, "commit")
        PROVE  IndexInv'
    <3>1. pc \in ReaderPC
      BY DEF ReaderPC
    <3>2. ReadRight(r)' /\ Shown([reader[r] EXCEPT !.pc = pc])
      BY <1>1, <2>1, <3>1, GoneOn DEF ReadRight, Shown, AtRead, Resting, AfterGuard
    <3> QED
      BY <2>1, <3>1, <3>2, GoOnStep
  <2> QED
    BY <1>3, <2>1, RefuseStep DEF Open, CommitRead
<1>4. ASSUME ReadMeta(r) \/ ReadRows(r)
      PROVE  IndexInv'
  <2>1. Result(r) \in Content \union {None} /\ (reader[r].intact => Result(r) = at[reader[r].path])
    BY <1>1 DEF Result, ReadRight
  <2>2. PICK next \in ReaderState :
          /\ ReaderStep(r, next) /\ next.path = reader[r].path
          /\ next.intact = reader[r].intact
          /\ \/ AtRead(r, "meta") /\ next.pc = "rows" /\ next.meta = Result(r)
             \/ /\ AtRead(r, "rows") /\ next.pc = "commit" /\ next.rows = Result(r)
                /\ next.meta = reader[r].meta
    <3>1. CASE ReadMeta(r)
      <4> DEFINE next == [reader[r] EXCEPT !.pc = "rows", !.meta = Result(r)]
      <4>1. /\ next \in ReaderState /\ next.path = reader[r].path
            /\ next.intact = reader[r].intact /\ next.pc = "rows" /\ next.meta = Result(r)
        BY <1>1, <2>1 DEF ReaderState, ReaderPC
      <4>2. ReaderStep(r, next) /\ AtRead(r, "meta")
        BY <3>1 DEF ReadMeta
      <4> QED
        BY <4>1, <4>2
    <3>2. CASE ReadRows(r)
      <4> DEFINE next == [reader[r] EXCEPT !.pc = "commit", !.rows = Result(r)]
      <4>1. /\ next \in ReaderState /\ next.path = reader[r].path
            /\ next.intact = reader[r].intact /\ next.pc = "commit" /\ next.rows = Result(r)
            /\ next.meta = reader[r].meta
        BY <1>1, <2>1 DEF ReaderState, ReaderPC
      <4>2. ReaderStep(r, next) /\ AtRead(r, "rows")
        BY <3>2 DEF ReadRows
      <4> QED
        BY <4>1, <4>2
    <3> QED
      BY <1>4, <3>1, <3>2
  <2>3. /\ reader' = [reader EXCEPT ![r] = next] /\ reader'[r] = next
        /\ UNCHANGED <<at, linked, stray, staged, builder, writer, budget>>
    BY <1>1, <2>2 DEF ReaderStep, files
  <2>4. ReadRight(r)' /\ Shown(next)
    BY <1>1, <2>1, <2>2, <2>3 DEF ReadRight, Shown, AtRead, Resting, AfterGuard
  <2> QED
    BY <1>1, <2>2, <2>3, <2>4, OneReaderStep
<1>5. CASE CompareStamp(r)
  <2>1. CASE reader[r].intact
    <3>1. GoOn(r, "done") /\ AtRead(r, "stamp") /\ "done" \in ReaderPC
      BY <1>5, <2>1 DEF CompareStamp, ReaderPC, Resting
    <3>2. reader[r].meta = reader[r].rows /\ Settled(reader[r].meta) /\ reader[r].path \in Path
      BY <1>1, <2>1, <3>1 DEF ReadRight, AtRead, Resting, AfterGuard
    <3>3. ReadRight(r)' /\ Shown([reader[r] EXCEPT !.pc = "done"])
      BY <3>1, <3>2, GoneOn DEF ReadRight, Shown, Resting
    <3> QED
      BY <3>1, <3>3, GoOnStep
  <2>2. CASE ~reader[r].intact
    BY <1>5, <2>2, RefuseStep DEF CompareStamp
  <2> QED
    BY <2>1, <2>2
<1> QED
  BY <1>2, <1>3, <1>4, <1>5 DEF Read

-----------------------------------------------------------------------------
(* The theorems. *)

LEMMA InitInv == Init => IndexInv
<1> SUFFICES ASSUME Init PROVE IndexInv
  OBVIOUS
<1>1. TypeOK
  BY DestList, NewBuildTyped, NoReadTyped, NoWriterTyped, IndexAssumption
     DEF Init, TypeOK, IndexAssumption
<1>2. ASSUME NEW b \in Builder
      PROVE  StagedRight(b)
  BY NewBuildTyped, RightWhenFree DEF Init, StagedRight
<1>3. \A r \in Reader : ReadRight(r)
  BY DEF Init, ReadRight, NoRead, Resting
<1>4. WriterRight /\ ReadCoherent
  BY NoWriterTyped DEF Init, WriterRight, ReadCoherent, AtRead, NoRead
<1> QED
  BY <1>1, <1>2, <1>3, <1>4 DEF IndexInv

LEMMA NextInv ==
  ASSUME IndexInv, [Next]_vars
  PROVE  IndexInv'
<1>1. ASSUME NEW b \in Builder, Build(b)
      PROVE  IndexInv'
  BY <1>1, ProbeStep, CreateStep, ReuseStep, RecordStep, FinalizeStep, FoldStep,
     ReadyStep, PromoteStep, TidyStep, FailStep DEF Build
<1>2. ASSUME NEW b \in Builder, Start(b) \/ Cancel(b) \/ Kill(b)
      PROVE  IndexInv'
  BY <1>2, ControlSteps
<1>3. ASSUME NEW r \in Reader, StartRead(r) \/ Read(r)
      PROVE  IndexInv'
  BY <1>3, StartReadStep, ReadStep
<1>4. ASSUME WriterActs \/ \E p \in Path : Replace(p) \/ Overwrite(p) \/ Relink(p) \/ LeaveWal(p)
      PROVE  IndexInv'
  BY <1>4, WriterStep, UserStep
<1>5. CASE UNCHANGED vars
  <2>1. TypeOK'
    BY <1>5 DEF vars, files, IndexInv, TypeOK
  <2>2. WriterRight' /\ writer' \in WriterState
    BY <1>5 DEF vars, files, IndexInv, TypeOK, WriterRight
  <2> QED
    BY <1>5, <2>1, <2>2, NoFileStep DEF vars, files, TypeOK
<1> QED
  BY <1>1, <1>2, <1>3, <1>4, <1>5 DEF Next, Outside

\* The inductive invariant holds in every state of every instance.
THEOREM IndexInvariant == Spec => []IndexInv
<1>1. Init => IndexInv
  BY InitInv
<1>2. IndexInv /\ [Next]_vars => IndexInv'
  BY NextInv
<1> QED
  BY <1>1, <1>2, PTL DEF Spec

\* Types, for every number of paths, builders, readers and entries: no build
\* runs past its list of destinations.
THEOREM IndexTypes == Spec => []TypeOK
<1>1. IndexInv => TypeOK
  BY DEF IndexInv
<1> QED
  BY <1>1, IndexInvariant, PTL

\* LockedIndex: whatever builders, writers and users do meanwhile, the results
\* that a read returns come from one committed state of one index.
THEOREM ReadsAreCoherent == Spec => []ReadCoherent
<1>1. IndexInv => ReadCoherent
  BY DEF IndexInv
<1> QED
  BY <1>1, IndexInvariant, PTL
-----------------------------------------------------------------------------
(* Every step is one of IndexSlot, or none. *)

\* What IndexSlot sees of one builder and of one reader.
OutcomeOf(st) == IF st.pc = "tidy" THEN "ok"
                 ELSE IF st.pc \notin Resting THEN "building" ELSE st.outcome
AnswerOf(st) == IF st.pc = "done" THEN <<st.meta, st.rows>> ELSE <<None, None>>

LEMMA Mapping ==
  /\ Outcomes = [b \in Builder |-> OutcomeOf(builder[b])]
  /\ Answers = [r \in Reader |-> AnswerOf(reader[r])]
  /\ Outcomes' = [b \in Builder |-> OutcomeOf(builder'[b])]
  /\ Answers' = [r \in Reader |-> AnswerOf(reader'[r])]
BY DEF Outcomes, Answers, OutcomeOf, AnswerOf, Step, Building, AtRead

LEMMA OutcomesMove ==
  ASSUME IndexInv, NEW b \in Builder, NEW next, builder' = [builder EXCEPT ![b] = next]
  PROVE  /\ Outcomes' = [Outcomes EXCEPT ![b] = OutcomeOf(next)]
         /\ OutcomeOf(next) = OutcomeOf(builder[b]) => Outcomes' = Outcomes
         /\ Outcomes[b] = OutcomeOf(builder[b])
<1>1. builder \in [Builder -> BuilderState]
  BY DEF IndexInv, TypeOK
<1>2. builder'[b] = next /\ \A c \in Builder \ {b} : builder'[c] = builder[c]
  BY <1>1
<1> QED
  BY <1>2, Mapping

LEMMA AnswersMove ==
  ASSUME IndexInv, NEW r \in Reader, NEW next, reader' = [reader EXCEPT ![r] = next]
  PROVE  /\ Answers' = [Answers EXCEPT ![r] = AnswerOf(next)]
         /\ AnswerOf(next) = AnswerOf(reader[r]) => Answers' = Answers
<1>1. reader \in [Reader -> ReaderState]
  BY DEF IndexInv, TypeOK
<1>2. reader'[r] = next /\ \A q \in Reader \ {r} : reader'[q] = reader[q]
  BY <1>1
<1> QED
  BY <1>2, Mapping

\* A changed file is no news about any build or answer.
LEMMA SpoiledSame ==
  ASSUME IndexInv, NEW p \in Path
  PROVE  /\ \A b \in Builder : OutcomeOf(SpoiledBuilds(p)[b]) = OutcomeOf(builder[b])
         /\ \A r \in Reader : AnswerOf(SpoiledReads(p)[r]) = AnswerOf(reader[r])
<1>1. ASSUME NEW b \in Builder
      PROVE  /\ SpoiledBuilds(p)[b].pc = builder[b].pc
             /\ SpoiledBuilds(p)[b].outcome = builder[b].outcome
  <2>1. builder[b] \in BuilderState
    BY DEF IndexInv, TypeOK
  <2> QED
    BY <2>1 DEF SpoiledBuilds, BuilderState
<1>2. ASSUME NEW r \in Reader
      PROVE  /\ SpoiledReads(p)[r].pc = reader[r].pc
             /\ SpoiledReads(p)[r].meta = reader[r].meta
             /\ SpoiledReads(p)[r].rows = reader[r].rows
  <2>1. reader[r] \in ReaderState
    BY DEF IndexInv, TypeOK
  <2> QED
    BY <2>1 DEF SpoiledReads, ReaderState
<1> QED
  BY <1>1, <1>2 DEF OutcomeOf, AnswerOf

LEMMA ChangeIsSilent ==
  ASSUME IndexInv, NEW p \in Path, NEW c, ChangeFile(p, c)
  PROVE  Outcomes' = Outcomes /\ Answers' = Answers
<1>1. builder' = SpoiledBuilds(p) /\ reader' = SpoiledReads(p)
  BY DEF ChangeFile
<1> QED
  BY <1>1, SpoiledSame, Mapping

\* Preparing a build is invisible until it is given up.
LEMMA PrivateMaps ==
  ASSUME IndexInv, NEW b \in Builder, NEW next, NEW file, Private(b, next, file),
         builder[b].pc \notin Resting \union {"tidy"},
         \/ next.pc \notin Resting \union {"tidy"}
         \/ next.pc = "done" /\ next.outcome \in {"failed", "cancelled"}
  PROVE  [Slot!Next]_(Slot!vars)
<1>1. /\ builder' = [builder EXCEPT ![b] = next]
      /\ at' = at /\ reader' = reader /\ budget' = budget
  BY DEF Private, files
<1>2. Answers' = Answers
  BY <1>1, Mapping
<1>3. Outcomes[b] = "building" /\ Outcomes' = [Outcomes EXCEPT ![b] = OutcomeOf(next)]
  BY <1>1, OutcomesMove DEF OutcomeOf
<1>4. CASE next.pc \notin Resting \union {"tidy"}
  <2>1. Outcomes' = Outcomes
    BY <1>1, <1>4, OutcomesMove DEF OutcomeOf
  <2> QED
    BY <1>1, <1>2, <2>1 DEF Slot!vars
<1>5. CASE next.pc = "done" /\ next.outcome \in {"failed", "cancelled"}
  <2>1. OutcomeOf(next) \in {"failed", "cancelled"}
    BY <1>5 DEF OutcomeOf, Resting
  <2>2. Slot!Abandon(b)
    BY <1>1, <1>2, <1>3, <2>1 DEF Slot!Abandon
  <2> QED
    BY <2>2 DEF Slot!Next
<1> QED
  BY <1>4, <1>5

LEMMA GivenUp ==
  ASSUME IndexInv, NEW b \in Builder
  PROVE  /\ Ended(b).pc = "done" /\ Ended(b).outcome \in {"failed", "cancelled"}
         /\ \/ NextDest(b).pc = "probe"
            \/ NextDest(b).pc = "done" /\ NextDest(b).outcome \in {"failed", "cancelled"}
<1>1. builder[b] \in BuilderState
  BY DEF IndexInv, TypeOK
<1>2. Ended(b).pc = "done" /\ Ended(b).outcome \in {"failed", "cancelled"}
  BY DEF Ended, NewBuild
<1>3. [builder[b] EXCEPT !.pc = "probe", !.try = @ + 1].pc = "probe"
  BY <1>1 DEF BuilderState
<1> QED
  BY <1>2, <1>3 DEF NextDest

LEMMA BuildMaps ==
  ASSUME IndexInv, NEW b \in Builder, Start(b) \/ Build(b)
  PROVE  [Slot!Next]_(Slot!vars)
<1>1. builder[b] \in BuilderState /\ builder[b].outcome \in Outcome
  BY DEF IndexInv, TypeOK, BuilderState
<1>2. CASE Start(b)
  <2> DEFINE next == [NewBuild EXCEPT !.pc = "probe"]
  <2>1. /\ builder' = [builder EXCEPT ![b] = next] /\ Event("build")
        /\ builder[b].pc \in Resting /\ at' = at /\ reader' = reader
    BY <1>2 DEF Start, Building, files
  <2>2. OutcomeOf(next) = "building" /\ OutcomeOf(builder[b]) # "building"
    BY <1>1, <2>1 DEF OutcomeOf, NewBuild, Resting, Outcome
  <2>3. Answers' = Answers
    BY <2>1, Mapping
  <2> HIDE DEF next
  <2>4. Slot!Begin(b)
    BY <2>1, <2>2, <2>3, OutcomesMove DEF Slot!Begin, Slot!Spend, Event
  <2> QED
    BY <2>4 DEF Slot!Next
<1>4. CASE Probe(b)
  <2>1. Step(b, "probe") /\ [builder[b] EXCEPT !.pc = "create"].pc = "create"
    BY <1>1, <1>4 DEF Probe, BuilderState
  <2> QED
    BY <1>4, <2>1, GivenUp, PrivateMaps DEF Probe, Step, Resting
<1>5. CASE Create(b) \/ CreateFails(b)
  <2>1. CASE Create(b)
    <3> DEFINE next == [builder[b] EXCEPT !.pc = IF b \in DirBuilder THEN "reuse" ELSE "scan"]
    <3>1. next.pc \in {"reuse", "scan"} /\ Step(b, "create")
      BY <1>1, <2>1 DEF Create, BuilderState
    <3>2. Private(b, next, EmptyIndex(b))
      BY <2>1 DEF Create
    <3> HIDE DEF next
    <3> QED
      BY <3>1, <3>2, PrivateMaps DEF Step, Resting
  <2>2. CASE CreateFails(b)
    BY <2>2, GivenUp, PrivateMaps DEF CreateFails, Step, Resting
  <2> QED
    BY <1>5, <2>1, <2>2
<1>6. CASE Reuse(b) \/ Record(b) \/ Finalize(b) \/ FoldWal(b) \/ Ready(b)
  <2>1. PICK next, file :
          /\ Private(b, next, file)
          /\ next.pc \in {"scan", "fold", "ready", "promote"}
    <3>1. CASE Reuse(b)
      <4>1. PICK prev : Private(b, [builder[b] EXCEPT !.pc = "scan", !.prev = prev], MyStaged(b))
        BY <3>1 DEF Reuse
      <4>2. [builder[b] EXCEPT !.pc = "scan", !.prev = prev].pc = "scan"
        BY <1>1 DEF BuilderState
      <4> QED
        BY <4>1, <4>2
    <3>2. CASE Record(b)
      <4>1. \A m1 : [builder[b] EXCEPT !.scanned = @ + 1, !.batch = m1].pc = builder[b].pc
        BY <1>1 DEF BuilderState
      <4> QED
        BY <3>2, <4>1 DEF Record, Step
    <3>3. CASE Finalize(b)
      <4>1. [builder[b] EXCEPT !.pc = "fold", !.batch = 0].pc = "fold"
        BY <1>1 DEF BuilderState
      <4> QED
        BY <3>3, <4>1 DEF Finalize
    <3>4. CASE FoldWal(b)
      BY <1>1, <3>4 DEF FoldWal, BuilderState
    <3>5. CASE Ready(b)
      <4>1. [builder[b] EXCEPT !.pc = "promote", !.prev = "none"].pc = "promote"
        BY <1>1 DEF BuilderState
      <4> QED
        BY <3>5, <4>1 DEF Ready
    <3> QED
      BY <1>6, <3>1, <3>2, <3>3, <3>4, <3>5
  <2>2. builder[b].pc \notin Resting \union {"tidy"}
    BY <1>6 DEF Reuse, Record, Finalize, FoldWal, Ready, Step, Resting
  <2> QED
    BY <2>1, <2>2, PrivateMaps DEF Resting
<1>7. CASE Promote(b)
  <2> DEFINE p == Dest(b)
             mine == [builder[b] EXCEPT !.pc = "tidy"]
  <2>1. /\ at' = [at EXCEPT ![p] = MyStaged(b)] /\ reader' = SpoiledReads(p)
        /\ builder' = [SpoiledBuilds(p) EXCEPT ![b] = mine] /\ budget' = budget
        /\ Step(b, "promote") /\ p \in Path
    BY <1>7, DestTyped DEF Promote, IndexInv
  <2>2. MyStaged(b) = Whole(b)
    BY <2>1 DEF IndexInv, StagedRight, RightFile, Step
  <2>3. p \in DestsOf(b)
    BY DEF IndexInv, TypeOK, Dest, DestsOf
  <2>4. OutcomeOf(mine) = "ok" /\ OutcomeOf(builder[b]) = "building"
    BY <1>1, <2>1 DEF OutcomeOf, BuilderState, Step, Resting
  <2> HIDE DEF p, mine
  <2>5. builder'[b] = mine /\ \A c \in Builder \ {b} : builder'[c] = SpoiledBuilds(p)[c]
    BY <2>1 DEF SpoiledBuilds
  <2>6. Outcomes' = [Outcomes EXCEPT ![b] = "ok"] /\ Outcomes[b] = "building"
    BY <2>1, <2>4, <2>5, SpoiledSame, Mapping
  <2>7. Answers' = Answers
    BY <2>1, SpoiledSame, Mapping
  <2>8. Slot!Publish(b)
    BY <2>1, <2>2, <2>3, <2>6, <2>7 DEF Slot!Publish
  <2> QED
    BY <2>8 DEF Slot!Next
<1>8. CASE Tidy(b)
  <2> DEFINE next == [NewBuild EXCEPT !.pc = "done", !.try = builder[b].try, !.outcome = "ok"]
  <2>1. /\ builder' = [builder EXCEPT ![b] = next] /\ Step(b, "tidy")
        /\ at' = at /\ reader' = reader /\ budget' = budget
    BY <1>8 DEF Tidy
  <2>2. OutcomeOf(next) = "ok" /\ OutcomeOf(builder[b]) = "ok"
    BY <2>1 DEF OutcomeOf, NewBuild, Resting, Step
  <2> HIDE DEF next
  <2>3. Outcomes' = Outcomes /\ Answers' = Answers
    BY <2>1, <2>2, OutcomesMove, Mapping
  <2> QED
    BY <2>1, <2>3 DEF Slot!vars
<1>9. CASE Fail(b)
  <2>1. Private(b, Ended(b), None) /\ builder[b].pc \notin Resting \union {"tidy"}
    BY <1>9 DEF Fail, Resting
  <2> QED
    BY <2>1, GivenUp, PrivateMaps
<1> QED
  BY <1>2, <1>4, <1>5, <1>6, <1>7, <1>8, <1>9 DEF Build

LEMMA ReadMaps ==
  ASSUME IndexInv, NEW r \in Reader, StartRead(r) \/ Read(r)
  PROVE  [Slot!Next]_(Slot!vars)
<1>1. reader[r] \in ReaderState /\ ReadRight(r)
  BY DEF IndexInv, TypeOK
<1>2. ASSUME StartRead(r)
      PROVE  [Slot!Next]_(Slot!vars)
  <2>1. PICK next : /\ reader' = [reader EXCEPT ![r] = next]
                    /\ AnswerOf(next) = <<None, None>>
    <3>1. PICK p \in Path : reader' = [reader EXCEPT ![r] =
             IF at[p] # None /\ p \notin linked
             THEN [NoRead EXCEPT !.pc = "guard", !.path = p, !.intact = TRUE]
             ELSE [NoRead EXCEPT !.pc = "done"]]
      BY <1>2 DEF StartRead
    <3> DEFINE n == IF at[p] # None /\ p \notin linked
             THEN [NoRead EXCEPT !.pc = "guard", !.path = p, !.intact = TRUE]
             ELSE [NoRead EXCEPT !.pc = "done"]
    <3>2. AnswerOf(n) = <<None, None>>
      BY DEF AnswerOf, NoRead
    <3> QED
      BY <3>1, <3>2
  <2>2. Event("read") /\ at' = at /\ builder' = builder
    BY <1>2 DEF StartRead, files
  <2>3. Answers' = [Answers EXCEPT ![r] = <<None, None>>] /\ Outcomes' = Outcomes
    BY <2>1, <2>2, AnswersMove, Mapping, ZenonT(40)
  <2>4. Slot!Ask(r)
    BY <2>2, <2>3 DEF Slot!Ask, Slot!Spend, Slot!NoAnswer, Event
  <2> QED
    BY <2>4 DEF Slot!Next
<1>3. ASSUME NEW next, ReaderStep(r, next), AnswerOf(next) = AnswerOf(reader[r])
      PROVE  [Slot!Next]_(Slot!vars)
  <2>1. /\ reader' = [reader EXCEPT ![r] = next]
        /\ at' = at /\ builder' = builder /\ budget' = budget
    BY <1>3 DEF ReaderStep, files
  <2>2. Answers' = Answers /\ Outcomes' = Outcomes
    BY <1>3, <2>1, AnswersMove, Mapping
  <2> QED
    BY <2>1, <2>2 DEF Slot!vars
<1>4. ASSUME Refuse(r), reader[r].pc # "done"
      PROVE  [Slot!Next]_(Slot!vars)
  <2>1. AnswerOf([NoRead EXCEPT !.pc = "done"]) = <<None, None>>
        /\ AnswerOf(reader[r]) = <<None, None>>
    BY <1>4 DEF AnswerOf, NoRead
  <2> QED
    BY <1>3, <1>4, <2>1 DEF Refuse
<1>5. ASSUME NEW pc \in ReaderPC \ {"done"}, GoOn(r, pc), reader[r].pc # "done"
      PROVE  [Slot!Next]_(Slot!vars)
  <2>1. AnswerOf([reader[r] EXCEPT !.pc = pc]) = AnswerOf(reader[r])
    BY <1>1, <1>5 DEF AnswerOf, ReaderState
  <2> QED
    BY <1>3, <1>5, <2>1 DEF GoOn
<1>6. CASE Guard(r) \/ Open(r) \/ CommitRead(r)
  BY <1>4, <1>5, <1>6 DEF Guard, Open, CommitRead, AtRead, ReaderPC, Resting
<1>7. CASE ReadMeta(r)
  <2>1. AnswerOf([reader[r] EXCEPT !.pc = "rows", !.meta = Result(r)]) = AnswerOf(reader[r])
    BY <1>1, <1>7 DEF ReadMeta, AtRead, AnswerOf, ReaderState
  <2> QED
    BY <1>3, <1>7, <2>1 DEF ReadMeta
<1>8. CASE ReadRows(r)
  <2>1. AnswerOf([reader[r] EXCEPT !.pc = "commit", !.rows = Result(r)]) = AnswerOf(reader[r])
    BY <1>1, <1>8 DEF ReadRows, AtRead, AnswerOf, ReaderState
  <2> QED
    BY <1>3, <1>8, <2>1 DEF ReadRows
<1>9. CASE CompareStamp(r)
  <2>1. CASE ~reader[r].intact
    BY <1>4, <1>9, <2>1 DEF CompareStamp, AtRead
  <2>2. CASE reader[r].intact
    <3> DEFINE next == [reader[r] EXCEPT !.pc = "done"]
               p == reader[r].path
    <3>1. /\ reader' = [reader EXCEPT ![r] = next] /\ AtRead(r, "stamp")
          /\ at' = at /\ builder' = builder /\ budget' = budget
      BY <1>9, <2>2 DEF CompareStamp, GoOn, ReaderStep, files
    <3>2. /\ p \in Path /\ Settled(at[p]) /\ reader[r].meta = at[p] /\ reader[r].rows = at[p]
      BY <1>1, <2>2, <3>1 DEF ReadRight, AtRead, AfterGuard, Resting
    <3>3. AnswerOf(next) = <<at[p], at[p]>>
      BY <1>1, <3>2 DEF AnswerOf, ReaderState
    <3> HIDE DEF next
    <3>4. Answers' = [Answers EXCEPT ![r] = <<at[p], at[p]>>] /\ Outcomes' = Outcomes
      BY <3>1, <3>3, AnswersMove, Mapping, ZenonT(40)
    <3>5. Slot!Answer(r)
      BY <3>1, <3>2, <3>4 DEF Slot!Answer
    <3> QED
      BY <3>5 DEF Slot!Next
  <2> QED
    BY <2>1, <2>2
<1> QED
  BY <1>2, <1>6, <1>7, <1>8, <1>9 DEF Read

\* An accident: files change as they like.
LEMMA AccidentMaps ==
  ASSUME IndexInv, IndexInv', NEW k \in Accidents, Event(k), Answers' = Answers,
         \/ Outcomes' = Outcomes
         \/ \E b \in Builder : Outcomes' = [Outcomes EXCEPT ![b] = "none"]
  PROVE  [Slot!Next]_(Slot!vars)
<1>1. at' \in [Path -> Content \union {None}]
  BY DEF IndexInv, TypeOK
<1>2. Slot!Outside
  BY <1>1 DEF Slot!Outside, Slot!Spend, Event
<1> QED
  BY <1>2 DEF Slot!Next

\* An SQLite writer changes one committed file.
LEMMA RewriteMaps ==
  ASSUME IndexInv, NEW p \in Path, IsIndex(at[p]), NEW v \in 0..MaxVer, NEW m \in BOOLEAN,
         NEW c, c = [at[p] EXCEPT !.ver = v, !.mid = m], ChangeFile(p, c), budget' = budget
  PROVE  [Slot!Next]_(Slot!vars)
<1>1. Outcomes' = Outcomes /\ Answers' = Answers
  BY ChangeIsSilent
<1>2. at' = [at EXCEPT ![p] = [at[p] EXCEPT !.ver = v, !.mid = m]] /\ at[p] # None
  BY DEF ChangeFile, IsIndex
<1>3. Slot!Rewrite(p)
  BY <1>1, <1>2 DEF Slot!Rewrite
<1> QED
  BY <1>3 DEF Slot!Next

LEMMA WriterMaps ==
  ASSUME IndexInv, IndexInv', WriterActs
  PROVE  [Slot!Next]_(Slot!vars)
<1>1. CASE (\E p \in Path : WriterBegins(p)) \/ WriterCrashes
  <2>1. reader' = reader /\ builder' = builder /\ (Event("write") \/ Event("crash"))
    BY <1>1 DEF WriterBegins, WriterCrashes
  <2>2. Outcomes' = Outcomes /\ Answers' = Answers
    BY <2>1, Mapping
  <2> QED
    BY <2>1, <2>2, AccidentMaps DEF Accidents
<1>2. CASE WriterGivesUp
  <2>1. /\ reader' = reader /\ builder' = builder /\ at' = at /\ budget' = budget
    BY <1>2 DEF WriterGivesUp, files
  <2>2. Outcomes' = Outcomes /\ Answers' = Answers
    BY <2>1, Mapping
  <2> QED
    BY <2>1, <2>2 DEF Slot!vars
<1>3. ASSUME WriterWrites \/ WriterCommits \/ WriterRecovers, ~writer.same
      PROVE  [Slot!Next]_(Slot!vars)
  <2>1. /\ reader' = reader /\ builder' = builder /\ at' = at /\ budget' = budget
    BY <1>3 DEF WriterWrites, WriterCommits, WriterRecovers
  <2>2. Outcomes' = Outcomes /\ Answers' = Answers
    BY <2>1, Mapping
  <2> QED
    BY <2>1, <2>2 DEF Slot!vars
<1>4. ASSUME WriterWrites \/ WriterCommits \/ WriterRecovers, writer.same
      PROVE  [Slot!Next]_(Slot!vars)
  <2> DEFINE p == writer.path
  <2>1. p \in Path /\ IsIndex(at[p])
    BY <1>4 DEF IndexInv, WriterRight
  <2>2. at[p] \in Content /\ at[p].ver \in 0..MaxVer
    BY <2>1 DEF IndexInv, TypeOK, IsIndex, Content
  <2>3. PICK v \in 0..MaxVer, m \in BOOLEAN :
          ChangeFile(p, [at[p] EXCEPT !.ver = v, !.mid = m])
    <3>1. \A m \in BOOLEAN : [at[p] EXCEPT !.mid = m] = [at[p] EXCEPT !.ver = at[p].ver, !.mid = m]
      BY <2>2 DEF Content
    <3>2. CASE WriterWrites
      BY <1>4, <2>2, <3>1, <3>2 DEF WriterWrites
    <3>3. CASE WriterRecovers
      BY <1>4, <2>2, <3>1, <3>3 DEF WriterRecovers
    <3>4. CASE WriterCommits
      <4>1. at[p].ver + 1 \in 0..MaxVer
        BY <1>4, <2>2, <3>4, Numbers DEF IndexInv, WriterRight, WriterCommits
      <4> QED
        BY <1>4, <3>4, <4>1 DEF WriterCommits
    <3> QED
      BY <1>4, <3>2, <3>3, <3>4
  <2>4. budget' = budget
    BY <1>4 DEF WriterWrites, WriterCommits, WriterRecovers
  <2> QED
    BY <2>1, <2>3, <2>4, RewriteMaps
<1> QED
  BY <1>1, <1>2, <1>3, <1>4 DEF WriterActs

LEMMA OutsideMaps ==
  ASSUME IndexInv, IndexInv', Outside
  PROVE  [Slot!Next]_(Slot!vars)
<1>1. CASE WriterActs
  BY <1>1, WriterMaps
<1>2. ASSUME NEW p \in Path, Replace(p) \/ Overwrite(p) \/ Relink(p) \/ LeaveWal(p)
      PROVE  [Slot!Next]_(Slot!vars)
  <2>1. PICK k \in Accidents : Event(k)
    BY <1>2 DEF Replace, Overwrite, Relink, LeaveWal, Accidents
  <2>2. Outcomes' = Outcomes /\ Answers' = Answers
    <3>1. CASE \E c : ChangeFile(p, c)
      BY <3>1, ChangeIsSilent
    <3>2. CASE LeaveWal(p)
      BY <3>2, Mapping DEF LeaveWal
    <3> QED
      BY <1>2, <3>1, <3>2 DEF Replace, Overwrite, Relink
  <2> QED
    BY <2>1, <2>2, AccidentMaps
<1>3. ASSUME NEW b \in Builder, Cancel(b) \/ Kill(b)
      PROVE  [Slot!Next]_(Slot!vars)
  <2>1. Answers' = Answers /\ builder[b] \in BuilderState
    BY <1>3, Mapping DEF Cancel, Kill, IndexInv, TypeOK
  <2>2. CASE Cancel(b)
    <3> DEFINE next == [builder[b] EXCEPT !.cancel = TRUE]
    <3>1. builder' = [builder EXCEPT ![b] = next] /\ OutcomeOf(next) = OutcomeOf(builder[b])
      BY <2>1, <2>2 DEF Cancel, BuilderState, OutcomeOf
    <3>2. Outcomes' = Outcomes /\ Event("cancel")
      BY <2>2, <3>1, OutcomesMove DEF Cancel
    <3> QED
      BY <2>1, <3>2, AccidentMaps DEF Accidents
  <2>3. CASE Kill(b)
    <3>1. builder' = [builder EXCEPT ![b] = NewBuild] /\ OutcomeOf(NewBuild) = "none"
      BY <2>3 DEF Kill, OutcomeOf, NewBuild, Resting
    <3>2. Outcomes' = [Outcomes EXCEPT ![b] = "none"] /\ Event("kill")
      BY <2>3, <3>1, OutcomesMove DEF Kill
    <3> QED
      BY <2>1, <3>2, AccidentMaps DEF Accidents
  <2> QED
    BY <1>3, <2>2, <2>3
<1> QED
  BY <1>1, <1>2, <1>3 DEF Outside

\* Builds publish whole indexes in one step or change nothing, and answers are
\* linearizable: any number of builders and readers implements IndexSlot.
THEOREM IndexesImplementSlot == Spec => ImplementsSlot
<1>1. Init => Slot!Init
  <2> SUFFICES ASSUME Init PROVE Slot!Init
    OBVIOUS
  <2>1. budget \in [Commands \union Accidents -> Nat] /\ at = [p \in Path |-> None]
    BY IndexAssumption DEF Init, IndexAssumption
  <2>2. Outcomes = [b \in Builder |-> "none"]
    BY Mapping DEF Init, OutcomeOf, NewBuild, Resting
  <2>3. Answers = [r \in Reader |-> <<None, None>>]
    BY Mapping DEF Init, AnswerOf, NoRead
  <2> QED
    BY <2>1, <2>2, <2>3 DEF Slot!Init, Slot!NoAnswer
<1>2. IndexInv /\ IndexInv' /\ [Next]_vars => [Slot!Next]_(Slot!vars)
  <2> SUFFICES ASSUME IndexInv, IndexInv', [Next]_vars PROVE [Slot!Next]_(Slot!vars)
    OBVIOUS
  <2>1. CASE UNCHANGED vars
    BY <2>1, Mapping DEF vars, files, Slot!vars
  <2>2. CASE Next
    BY <2>2, BuildMaps, ReadMaps, OutsideMaps DEF Next
  <2> QED
    BY <2>1, <2>2
<1> QED
  BY <1>1, <1>2, IndexInvariant, PTL DEF Spec, ImplementsSlot, Slot!Spec
=============================================================================
