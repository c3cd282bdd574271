--------------------------- MODULE BorgRunProofs ---------------------------
(***************************************************************************)
(* Proofs about BorgRun.  The inductive invariant, RunInv, says how the    *)
(* supervisor's view and the caller's agree with what became of Borg: the  *)
(* processes that are not waited for form a tree under the supervisor, and *)
(* as long as run has met no failure, nobody was killed and no byte lost.  *)
(* Trusted says what has been in order, and when, by how far the checks    *)
(* before and after the operation's run have come.                         *)
(***************************************************************************)
EXTENDS BorgRun, TLAPS

\* Below the supervisor: the parent of a process that is not waited for is
\* alive, and there are no cycles.
ParentsLive == \A p \in Living : proc[p].parent \in Alive \union {Sup}
Rooted == \A S \in SUBSET Living : S # {} => \E p \in S : proc[p].parent \notin S

\* The supervisor's beginning and end.
Fresh == sup.pc = "setup" => (\A p \in Proc : proc[p] = NoProc) /\ ~sup.borgOk /\ ~sup.stopping
Quiet == sup.pc \in {"none", "exited"} => Living = {}
Idle == caller.pc \notin Running => sup.pc = "none"
Waited == caller.status # None => sup.pc = "none"

\* What the supervisor knows of Borg.
Leader ==
  /\ proc[Borg].parent = Sup
  /\ proc[Borg].st \in {"none", "alive"} => proc[Borg].end = "none"
Knows ==
  sup.pc # "none" => (sup.borgOk <=> proc[Borg].st = "gone" /\ proc[Borg].end = "zero")

\* run without a failure so far: nobody was stopped, no output was lost.
Sound == caller.pc \in Running \ {"drop"} /\ caller.failure = None
Untouched ==
  Sound => /\ caller.control /\ proc[Borg].end # "killed"
           /\ sup.stopping => proc[Borg].st = "gone"
Account == Sound => caller.consumed + pipe.out = pipe.written
AtEof == Sound /\ caller.outEof => pipe.out = 0 /\ ~Writers
Told ==
  Sound => /\ caller.status = "ok" => proc[Borg].end = "zero"
           /\ caller.status = "ChildFailed" => proc[Borg].end \in {"none", "other"}
Cause ==
  /\ caller.failure = "Cancelled" => world.cancel
  /\ caller.failure = "Timeout" => world.late

\* What an error or an ok says of Borg, of its output and of the world.
Happened(x) ==
  /\ x = "ok" => proc[Borg].end = "zero" /\ caller.consumed = pipe.written
  /\ x = "ChildFailed" => proc[Borg].end \in {"none", "other"}
  /\ x = "Cancelled" => world.cancel
  /\ x = "Timeout" => world.late

\* The checks before, between and after the runs.
Early == {"prepare", "inspect", "gate", "time", "after"}
Late == {"post", "inspect again"}
Checks ==
  \/ Prepare \/ (\E x \in Parts : InspectPart(x)) \/ Inspected \/ Gate \/ Remaining
  \/ After \/ Post \/ Return

\* Between the runs and at the end.
Clean == caller.pc \in Early \union {"spawn"} => caller.failure = None
Backed == caller.pc \notin {"prepare", "done"} => world.backend = "mock"
Sealed == caller.result # None => caller.pc = "done"
MoreProbes == caller.pc = "after" => caller.n < Probes
RunOver ==
  /\ caller.pc \in Late => caller.run # None
  /\ caller.pc \notin Late \union {"done"} => caller.run = None
Complete == Happened(caller.run) /\ (caller.run # None => caller.n = Probes)

\* What the looks have shown so far.
Trusted ==
  /\ ~Started => world.trust \subseteq world.before
  /\ caller.run # None => world.trust \subseteq world.since
  /\ caller.pc = "inspect" => Things \ caller.left \subseteq world.before
  /\ caller.pc \notin {"prepare", "inspect", "done"} => world.before = Things
  /\ caller.pc = "inspect again" => Things \ caller.left \subseteq world.since

Processes ==
  ParentsLive /\ Rooted /\ Fresh /\ Quiet /\ Idle /\ Waited /\ Leader /\ Knows
Transport ==
  /\ Untouched /\ Account /\ AtEof /\ Told /\ Cause /\ Clean /\ Backed /\ Sealed
  /\ MoreProbes /\ RunOver /\ Complete
  /\ AnswerIsTrue
RunInv == TypeOK /\ Processes /\ Transport /\ Trusted /\ OkOnlyOnTrusted

-----------------------------------------------------------------------------
(* Types. *)

LEMMA Numbers ==
  /\ Probes \in Nat /\ Limit \in Nat /\ MaxWritten \in Nat /\ Grace \in Nat
  /\ Cap \in Nat \ {0} /\ Borg \in Proc /\ Kid \subseteq Proc
  /\ Borg \notin Kid /\ Sup \notin Proc /\ None \notin Results
  /\ 0 \in 0..Probes /\ 0 \in 0..Limit /\ 0 \in 0..MaxWritten /\ 0 \in 0..Grace /\ 0 \in 0..Cap
BY BorgAssumption, NotAnError DEF BorgAssumption, NotAnError, Proc

LEMMA NoProcTyped == NoProc \in ProcState
BY DEF NoProc, ProcState

LEMMA NoSupTyped == NoSup \in SupState
BY Numbers DEF NoSup, SupState

LEMMA DiedFields ==
  ASSUME TypeOK, NEW dead \in SUBSET Alive, NEW how \in {"zero", "other", "killed"}
  PROVE  /\ Died(dead, how) \in [Proc -> ProcState]
         /\ \A p \in Proc :
              /\ Died(dead, how)[p].st = IF p \in dead THEN "zombie" ELSE proc[p].st
              /\ Died(dead, how)[p].end =
                   IF p = Borg /\ p \in dead THEN how ELSE proc[p].end
              /\ Died(dead, how)[p].parent =
                   IF proc[p].parent \in dead THEN Sup ELSE proc[p].parent
<1>1. ASSUME NEW p \in Proc
      PROVE  /\ Died(dead, how)[p] \in ProcState
             /\ Died(dead, how)[p].st = IF p \in dead THEN "zombie" ELSE proc[p].st
             /\ Died(dead, how)[p].end = IF p = Borg /\ p \in dead THEN how ELSE proc[p].end
             /\ Died(dead, how)[p].parent =
                  IF proc[p].parent \in dead THEN Sup ELSE proc[p].parent
  <2> DEFINE st == IF p \in dead THEN "zombie" ELSE proc[p].st
             end == IF p \in dead \intersect {Borg} THEN how ELSE proc[p].end
             parent == IF proc[p].parent \in dead THEN Sup ELSE proc[p].parent
  <2>1. proc[p] \in ProcState
    BY DEF TypeOK
  <2>2. /\ st \in {"none", "alive", "zombie", "gone"} /\ parent \in Proc \union {Sup}
        /\ end \in {"none", "zero", "other", "killed"}
    BY <2>1 DEF ProcState
  <2>3. Died(dead, how)[p] = [proc[p] EXCEPT !.st = st, !.end = end, !.parent = parent]
    BY DEF Died
  <2>4. end = IF p = Borg /\ p \in dead THEN how ELSE proc[p].end
    OBVIOUS
  <2> HIDE DEF st, end, parent
  <2>5. /\ Died(dead, how)[p] \in ProcState
        /\ Died(dead, how)[p].st = st
        /\ Died(dead, how)[p].end = end
        /\ Died(dead, how)[p].parent = parent
    BY <2>1, <2>2, <2>3 DEF ProcState
  <2> QED
    BY <2>4, <2>5 DEF st, parent
<1> QED
  BY <1>1 DEF Died

LEMMA WaitedForFields ==
  ASSUME TypeOK, NEW q \in Proc
  PROVE  /\ WaitedFor(q) \in [Proc -> ProcState]
         /\ \A p \in Proc \ {q} : WaitedFor(q)[p] = proc[p]
         /\ WaitedFor(q)[q].st = "gone" /\ WaitedFor(q)[q].end = proc[q].end
         /\ WaitedFor(q)[q].parent = Sup
BY DEF TypeOK, ProcState, WaitedFor, NoProc

LEMMA InitTyped == Init => TypeOK
<1> SUFFICES ASSUME Init PROVE TypeOK
  OBVIOUS
<1>1. caller \in CallerState
  BY Numbers DEF Init, CallerState, CallerPC
<1>2. sup \in SupState /\ proc \in [Proc -> ProcState]
  BY NoProcTyped, NoSupTyped DEF Init
<1>3. world.backend \in {"production", "mock"}
  BY BorgAssumption DEF Init, BorgAssumption
<1> QED
  BY <1>1, <1>2, <1>3, Numbers DEF Init, TypeOK

LEMMA ChildTyped ==
  ASSUME TypeOK, Child
  PROVE  TypeOK'
<1>1. PICK p \in Proc : (\E q \in Kid : Fork(p, q)) \/ Exit(p) \/ ParentWaits(p)
                        \/ Escape(p) \/ WriteOut(p) \/ WriteErr(p)
  BY DEF Child
<1>2. CASE \E q \in Kid : Fork(p, q)
  <2>1. PICK q \in Kid : Fork(p, q)
    BY <1>2
  <2> DEFINE new == [NoProc EXCEPT !.st = "alive", !.parent = p, !.grouped = proc[p].grouped]
  <2>2. new \in ProcState
    BY DEF NoProc, ProcState, TypeOK
  <2>3. proc' = [proc EXCEPT ![q] = new] /\ UNCHANGED <<caller, sup, world, pipe>>
    BY <2>1 DEF Fork, Others
  <2> HIDE DEF new
  <2> QED
    BY <2>2, <2>3 DEF TypeOK
<1>3. CASE Exit(p)
  BY <1>3, DiedFields DEF Exit, TypeOK, Others
<1>4. CASE ParentWaits(p)
  BY <1>4, WaitedForFields DEF ParentWaits, TypeOK, Others
<1>5. CASE Escape(p)
  <2> DEFINE new == [proc[p] EXCEPT !.grouped = FALSE]
  <2>1. new \in ProcState
    BY ZenonT(40) DEF ProcState, TypeOK
  <2>2. proc' = [proc EXCEPT ![p] = new] /\ UNCHANGED <<caller, sup, world, pipe>>
    BY <1>5 DEF Escape, Others, TypeOK
  <2> HIDE DEF new
  <2> QED
    BY <2>1, <2>2 DEF TypeOK
<1>6. CASE WriteOut(p)
  <2>1. pipe.out + 1 \in 0..Cap /\ pipe.written + 1 \in 0..MaxWritten
    BY <1>6, Numbers DEF WriteOut, TypeOK
  <2>2. pipe' \in [out : 0..Cap, err : 0..Cap, written : 0..MaxWritten]
    BY <1>6, <2>1 DEF WriteOut, TypeOK
  <2> QED
    BY <1>6, <2>2 DEF WriteOut, TypeOK, Others
<1>7. CASE WriteErr(p)
  BY <1>7, Numbers DEF WriteErr, TypeOK, Others
<1> QED
  BY <1>1, <1>2, <1>3, <1>4, <1>5, <1>6, <1>7

LEMMA KilledAlive ==
  ASSUME NEW dead, Killed(dead)
  PROVE  dead \in SUBSET Alive
BY DEF Killed, Group

LEMMA SuperviseTyped ==
  ASSUME TypeOK, Supervise
  PROVE  TypeOK'
<1>1. CASE Setup
  BY <1>1, Numbers DEF Setup, TypeOK, SupState, ProcState
<1>2. ASSUME NEW p \in Proc, Reap(p)
      PROVE  TypeOK'
  BY <1>2, WaitedForFields DEF Reap, TypeOK, SupState
<1>3. CASE Reaped
  BY <1>3 DEF Reaped, TypeOK, SupState
<1>4. CASE Signal
  <2>1. sup' \in SupState
    <3> DEFINE stopping == sup.stopping \/ ~caller.control
               ticks == IF stopping /\ sup.ticks < Grace THEN sup.ticks + 1 ELSE sup.ticks
    <3>1. ticks \in 0..Grace
      BY Numbers DEF TypeOK, SupState
    <3>2. stopping \in BOOLEAN
      OBVIOUS
    <3>3. sup' = [sup EXCEPT !.pc = "reap", !.stopping = stopping, !.ticks = ticks]
      BY <1>4 DEF Signal
    <3> HIDE DEF stopping, ticks
    <3> QED
      BY <3>1, <3>2, <3>3 DEF TypeOK, SupState
  <2>2. proc' \in [Proc -> ProcState]
    BY <1>4, DiedFields, KilledAlive DEF Signal, TypeOK
  <2> QED
    BY <2>1, <2>2, <1>4 DEF Signal, TypeOK
<1> QED
  BY <1>1, <1>2, <1>3, <1>4 DEF Supervise

LEMMA StaleErrors ==
  /\ Stale \in {None, "UnsupportedBackend", "Validation"}
  /\ Stale = None => world.backend # "production" /\ Snapshot \in world.trust
BY Numbers DEF Stale, Results, Failures

LEMMA Points ==
  /\ \A pc \in Running \union Early \union Late \union {"spawn", "done"} : pc \in CallerPC
  /\ Failures \subseteq Results /\ Results \subseteq Results \union {None}
  /\ "done" \in CallerPC /\ "Pipe" \in Failures
BY DEF CallerPC, Results, Failures, Early, Late

\* The forms in which the caller's steps write its state.
LEMMA CallerForms ==
  ASSUME TypeOK, NEW pc \in CallerPC
  PROVE  /\ [caller EXCEPT !.pc = pc] \in CallerState
         /\ [caller EXCEPT !.pc = pc, !.outEof = TRUE] \in CallerState
         /\ [caller EXCEPT !.pc = pc, !.errEof = TRUE] \in CallerState
         /\ [caller EXCEPT !.pc = pc, !.control = FALSE] \in CallerState
         /\ [caller EXCEPT !.pc = pc, !.left = Parts] \in CallerState
         /\ \A x : [caller EXCEPT !.left = @ \ {x}] \in CallerState
         /\ \A x \in Results : [caller EXCEPT !.pc = pc, !.run = x] \in CallerState
         /\ \A x \in Results \union {None} :
              [caller EXCEPT !.pc = pc, !.result = x] \in CallerState
         /\ \A f \in Failures :
              /\ [caller EXCEPT !.pc = pc, !.failure = f] \in CallerState
              /\ [caller EXCEPT !.pc = pc, !.failure = f, !.outEof = TRUE] \in CallerState
              /\ [caller EXCEPT !.pc = pc, !.failure = f, !.errEof = TRUE] \in CallerState
         /\ \A s \in {None, "ok", "ChildFailed"} :
              [caller EXCEPT !.pc = pc, !.status = s] \in CallerState
         /\ caller.consumed + 1 <= Limit =>
              [caller EXCEPT !.pc = pc, !.consumed = @ + 1] \in CallerState
         /\ caller.n < Probes => [caller EXCEPT !.pc = pc, !.n = @ + 1] \in CallerState
<1>1. caller \in CallerState
  BY DEF TypeOK
<1>2. caller.consumed + 1 <= Limit => caller.consumed + 1 \in 0..Limit
  BY <1>1, Numbers DEF CallerState
<1>3. caller.n < Probes => caller.n + 1 \in 0..Probes
  BY <1>1, Numbers DEF CallerState
<1> QED
  BY <1>1, <1>2, <1>3 DEF CallerState

\* The forms in which the checks leave the caller.
LEMMA ChecksForms ==
  ASSUME TypeOK, Checks
  PROVE  /\ UNCHANGED <<sup, proc, pipe, world>>
         /\ \/ \E pc \in {"gate", "time", "spawn"} : caller' = [caller EXCEPT !.pc = pc]
            \/ \E pc \in {"inspect", "inspect again"} :
                 caller' = [caller EXCEPT !.pc = pc, !.left = Parts]
            \/ \E x \in Parts : caller' = [caller EXCEPT !.left = @ \ {x}]
            \/ caller.pc = "after" /\ caller' = [caller EXCEPT !.pc = "gate", !.n = @ + 1]
            \/ \E x \in Results \union {None} :
                 caller' = [caller EXCEPT !.pc = "done", !.result = x]
<1> DEFINE Done == \E x \in Results \union {None} :
                     caller' = [caller EXCEPT !.pc = "done", !.result = x]
<1>1. UNCHANGED <<sup, proc, pipe, world>>
  BY DEF Checks, Prepare, InspectPart, Inspected, Gate, Remaining, After, Post, Return, Alone
<1>2. {Stale, "UnsafeState", "Timeout", "UnsupportedBorg", caller.run}
        \subseteq Results \union {None}
  BY StaleErrors DEF Results, Failures, TypeOK, CallerState
<1>3. ASSUME NEW x \in Results \union {None}, Finish(x) PROVE Done
  BY <1>3 DEF Finish
<1>4. ASSUME NEW x \in Results \union {None}, Refuse(x) PROVE Done
  BY <1>2, <1>3, <1>4 DEF Refuse
<1> HIDE DEF Done
<1>5. CASE Prepare
  BY <1>1, <1>2, <1>3, <1>5 DEF Prepare, Done
<1>6. CASE \E x \in Parts : InspectPart(x)
  <2>1. PICK x \in Parts : InspectPart(x)
    BY <1>6
  <2> QED
    BY <1>1, <1>2, <1>4, <2>1 DEF InspectPart, Done
<1>7. CASE Inspected
  BY <1>1, <1>7 DEF Inspected, GoTo
<1>8. CASE Gate
  BY <1>1, <1>2, <1>3, <1>8 DEF Gate, GoTo, Done
<1>9. CASE Remaining
  BY <1>1, <1>2, <1>3, <1>9 DEF Remaining, GoTo, Done
<1>10. CASE After
  BY <1>1, <1>2, <1>3, <1>10 DEF After, At, Done
<1>11. CASE Post
  BY <1>1, <1>2, <1>4, <1>11 DEF Post, Done
<1>12. CASE Return
  BY <1>1, <1>2, <1>3, <1>12 DEF Return, Done
<1> QED
  BY <1>1, <1>5, <1>6, <1>7, <1>8, <1>9, <1>10, <1>11, <1>12 DEF Checks

\* The forms in which a run ends.
LEMMA RunEndsForms ==
  ASSUME TypeOK, NEW outcome \in Results, RunEnds(outcome)
  PROVE  /\ caller' \in CallerState
         /\ world' \in [cancel : BOOLEAN, late : BOOLEAN, trust : SUBSET Things,
                        before : SUBSET Things, since : SUBSET Things,
                        backend : {"production", "mock"}]
         /\ world'.cancel = world.cancel /\ world'.late = world.late
         /\ world'.backend = world.backend /\ world'.trust = world.trust
         /\ world'.before = world.before
         /\ \/ /\ caller.n = Probes /\ caller' = [caller EXCEPT !.pc = "post", !.run = outcome]
               /\ world'.since = world.since \union world.trust
            \/ /\ caller.n < Probes /\ outcome = "ok" /\ UNCHANGED world
               /\ caller' = [caller EXCEPT !.pc = "after"]
            \/ /\ caller.n < Probes /\ outcome # "ok" /\ UNCHANGED world
               /\ caller' = [caller EXCEPT !.pc = "done", !.result = outcome]
<1>1. {"post", "after", "done"} \subseteq CallerPC
  BY DEF CallerPC
<1>2. CASE caller.n = Probes
  <2>1. caller' = [caller EXCEPT !.pc = "post", !.run = outcome]
        /\ world' = [world EXCEPT !.since = @ \union world.trust]
    BY <1>2 DEF RunEnds
  <2>2. caller' \in CallerState
    BY <1>1, <2>1, CallerForms
  <2> QED
    BY <1>2, <2>1, <2>2 DEF TypeOK
<1>3. CASE caller.n # Probes
  <2>1. caller.n < Probes
    BY <1>3, Numbers DEF TypeOK, CallerState
  <2>2. UNCHANGED world /\ IF outcome = "ok" THEN caller' = [caller EXCEPT !.pc = "after"]
                           ELSE caller' = [caller EXCEPT !.pc = "done", !.result = outcome]
    BY <1>3 DEF RunEnds, GoTo, Finish
  <2>3. caller' \in CallerState
    <3>1. CASE outcome = "ok"
      BY <1>1, <2>2, <3>1, CallerForms
    <3>2. CASE outcome # "ok"
      <4>1. outcome \in Results \union {None} /\ "done" \in CallerPC
        BY <1>1
      <4>2. caller' = [caller EXCEPT !.pc = "done", !.result = outcome]
        BY <2>2, <3>2
      <4> QED
        BY <4>1, <4>2, CallerForms
    <3> QED
      BY <3>1, <3>2
  <2> QED
    BY <2>1, <2>2, <2>3 DEF TypeOK
<1> QED
  BY <1>2, <1>3

\* What Wait reports.
LEMMA WaitForms ==
  ASSUME TypeOK, Wait
  PROVE  /\ UNCHANGED <<proc, pipe>> /\ StatusOf \in {None, "ok", "ChildFailed"}
         /\ \/ /\ ~Ended /\ UNCHANGED world
               /\ caller' = [caller EXCEPT !.pc = "check", !.status = StatusOf]
            \/ \E outcome \in Results :
                 /\ RunEnds(outcome)
                 /\ \/ outcome = caller.failure /\ Ended
                    \/ outcome = StatusOf /\ caller.failure = None /\ Ended
                    \/ outcome = "Pipe" /\ sup.pc = "exited"
<1>1. StatusOf \in {None, "ok", "ChildFailed"}
  BY DEF StatusOf, TypeOK, CallerState
<1>2. /\ caller.failure # None => caller.failure \in Results
      /\ StatusOf # None => StatusOf \in Results
      /\ "Pipe" \in Results
  BY <1>1 DEF TypeOK, CallerState, Results, Failures
<1>3. Ended => StatusOf # None
  BY Numbers DEF Ended, StatusOf, Results
<1> QED
  BY <1>1, <1>2, <1>3 DEF Wait

LEMMA CallTyped ==
  ASSUME TypeOK, MoreProbes, Call
  PROVE  TypeOK'
<1>0. {"prepare", "gate", "spawn", "check", "out", "err", "wait", "drop", "after", "post", "done",
       "time", "inspect", "inspect again"} \subseteq CallerPC
  BY DEF CallerPC, Running
<1>1. ASSUME caller' \in CallerState, UNCHANGED <<sup, proc, pipe, world>>
      PROVE  TypeOK'
  BY <1>1 DEF TypeOK
<1>3. CASE Checks
  <2>1. caller' \in CallerState
    <3>1. ASSUME NEW pc \in {"gate", "time", "spawn"}, caller' = [caller EXCEPT !.pc = pc]
          PROVE  caller' \in CallerState
      BY <1>0, <3>1, CallerForms
    <3>2. ASSUME NEW pc \in {"inspect", "inspect again"},
                 caller' = [caller EXCEPT !.pc = pc, !.left = Parts]
          PROVE  caller' \in CallerState
      BY <1>0, <3>2, CallerForms
    <3>3. ASSUME NEW x \in Parts, caller' = [caller EXCEPT !.left = @ \ {x}]
          PROVE  caller' \in CallerState
      BY <1>0, <3>3, CallerForms
    <3>4. CASE caller.pc = "after" /\ caller' = [caller EXCEPT !.pc = "gate", !.n = @ + 1]
      BY <1>0, <3>4, CallerForms DEF MoreProbes
    <3>5. ASSUME NEW x \in Results \union {None},
                 caller' = [caller EXCEPT !.pc = "done", !.result = x]
          PROVE  caller' \in CallerState
      BY <1>0, <3>5, CallerForms
    <3> QED
      BY <1>3, <3>1, <3>2, <3>3, <3>4, <3>5, ChecksForms
  <2> QED
    BY <1>1, <1>3, <2>1, ChecksForms
<1>4. CASE Spawn
  <2>1. CASE ~world.cancel /\ caller'.pc = "check"
    <3> DEFINE start == [caller EXCEPT !.pc = "check", !.control = TRUE, !.outEof = FALSE,
                           !.errEof = FALSE, !.consumed = 0, !.status = None]
    <3>1. start \in CallerState
      BY <1>0, Numbers DEF TypeOK, CallerState
    <3>2. caller' = start /\ sup' = [NoSup EXCEPT !.pc = "setup"]
          /\ proc' = [p \in Proc |-> NoProc] /\ pipe' = [out |-> 0, err |-> 0, written |-> 0]
      <4>1. ~RunEnds(IF world.cancel THEN "Cancelled" ELSE "Spawn")
        BY <2>1 DEF RunEnds, GoTo, Finish, TypeOK, CallerState
      <4> QED
        BY <1>4, <4>1 DEF Spawn
    <3>4. UNCHANGED world
      <4>1. ~RunEnds(IF world.cancel THEN "Cancelled" ELSE "Spawn")
        BY <2>1 DEF RunEnds, GoTo, Finish, TypeOK, CallerState
      <4> QED
        BY <1>4, <4>1 DEF Spawn
    <3> HIDE DEF start
    <3>3. sup' \in SupState
      BY <3>2, Numbers DEF NoSup, SupState
    <3> QED
      BY <3>1, <3>2, <3>3, <3>4, NoProcTyped, Numbers DEF TypeOK
  <2>2. CASE RunEnds(IF world.cancel THEN "Cancelled" ELSE "Spawn") /\ UNCHANGED <<sup, proc, pipe>>
    <3>1. (IF world.cancel THEN "Cancelled" ELSE "Spawn") \in Results
      BY DEF Results, Failures
    <3> QED
      BY <2>2, <3>1, RunEndsForms DEF TypeOK
  <2>3. caller.pc = "spawn" /\ caller \in CallerState
    BY <1>4 DEF Spawn, At, TypeOK
  <2> QED
    BY <1>4, <2>1, <2>2, <2>3 DEF Spawn, CallerState
<1>5. CASE Check
  <2>1. Failure \in Failures \union {None}
    BY DEF Failure, TypeOK, CallerState, Failures
  <2> DEFINE control == caller.control /\ Failure = None
  <2>2. control \in BOOLEAN
    OBVIOUS
  <2>3. caller' = [caller EXCEPT !.pc = "out", !.failure = Failure, !.control = control]
    BY <1>5 DEF Check
  <2> HIDE DEF control
  <2> QED
    BY <1>0, <1>5, <1>1, <2>1, <2>2, <2>3, ZenonT(40) DEF Check, Alone, TypeOK, CallerState
<1>6. CASE ReadOut
  <2>1. ASSUME Take PROVE caller' \in CallerState
    <3>1. \/ caller' = [caller EXCEPT !.pc = "err", !.failure = "OutputLimit"]
          \/ caller' = [caller EXCEPT !.pc = "err", !.failure = "Consumer"]
          \/ caller' = [caller EXCEPT !.pc = "drop", !.control = FALSE]
          \/ ~(caller.consumed + 1 > Limit)
             /\ caller' = [caller EXCEPT !.pc = "err", !.consumed = @ + 1]
      BY <2>1 DEF Take, Consume
    <3>2. ~(caller.consumed + 1 > Limit) => caller.consumed + 1 <= Limit
      BY Numbers DEF TypeOK, CallerState
    <3>3. "OutputLimit" \in Failures /\ "Consumer" \in Failures
          /\ "err" \in CallerPC /\ "drop" \in CallerPC
      BY <1>0 DEF Failures
    <3>4. CASE caller' = [caller EXCEPT !.pc = "err", !.failure = "OutputLimit"]
      BY <3>3, <3>4, CallerForms
    <3>5. CASE caller' = [caller EXCEPT !.pc = "err", !.failure = "Consumer"]
      BY <3>3, <3>5, CallerForms
    <3>6. CASE caller' = [caller EXCEPT !.pc = "drop", !.control = FALSE]
      BY <3>3, <3>6, CallerForms
    <3>7. CASE ~(caller.consumed + 1 > Limit)
               /\ caller' = [caller EXCEPT !.pc = "err", !.consumed = @ + 1]
      BY <3>2, <3>3, <3>7, CallerForms
    <3> QED
      BY <3>1, <3>4, <3>5, <3>6, <3>7
  <2>2. ASSUME ~Take PROVE caller' \in CallerState
    <3>1. \/ caller' = [caller EXCEPT !.pc = "err"]
          \/ caller' = [caller EXCEPT !.pc = "err", !.outEof = TRUE]
          \/ caller' = [caller EXCEPT !.pc = "err", !.failure = "Pipe", !.outEof = TRUE]
      BY <1>6, <2>2 DEF ReadOut, GoTo
    <3>2. "err" \in CallerPC
      BY <1>0
    <3>3. CASE caller' = [caller EXCEPT !.pc = "err"]
      BY <3>2, <3>3, CallerForms
    <3>4. CASE caller' = [caller EXCEPT !.pc = "err", !.outEof = TRUE]
      BY <3>2, <3>4, CallerForms
    <3>5. CASE caller' = [caller EXCEPT !.pc = "err", !.failure = "Pipe", !.outEof = TRUE]
      BY <3>2, <3>5, Points, CallerForms
    <3> QED
      BY <3>1, <3>3, <3>4, <3>5
  <2>3. caller' \in CallerState
    BY <2>1, <2>2
  <2> QED
    BY <1>6, <2>3, Numbers DEF ReadOut, TypeOK
<1>7. CASE ReadErr
  <2>1. \/ caller' = [caller EXCEPT !.pc = "wait"]
        \/ caller' = [caller EXCEPT !.pc = "wait", !.errEof = TRUE]
        \/ caller' = [caller EXCEPT !.pc = "wait", !.failure = "Pipe", !.errEof = TRUE]
    BY <1>7 DEF ReadErr, GoTo
  <2>2. "wait" \in CallerPC
    BY <1>0
  <2>3. caller' \in CallerState
    <3>1. CASE caller' = [caller EXCEPT !.pc = "wait"]
      BY <2>2, <3>1, CallerForms
    <3>2. CASE caller' = [caller EXCEPT !.pc = "wait", !.errEof = TRUE]
      BY <2>2, <3>2, CallerForms
    <3>3. CASE caller' = [caller EXCEPT !.pc = "wait", !.failure = "Pipe", !.errEof = TRUE]
      BY <2>2, <3>3, Points, CallerForms
    <3> QED
      BY <2>1, <3>1, <3>2, <3>3
  <2> QED
    BY <1>7, <2>3, Numbers DEF ReadErr, TypeOK
<1>8. CASE Wait
  <2>1. sup' \in SupState
    BY <1>8, NoSupTyped DEF Wait, TypeOK
  <2>2. CASE UNCHANGED world /\ caller' = [caller EXCEPT !.pc = "check", !.status = StatusOf]
    BY <1>0, <1>8, <2>1, <2>2, CallerForms, WaitForms DEF TypeOK
  <2>3. ASSUME NEW outcome \in Results, RunEnds(outcome)
        PROVE  TypeOK'
    BY <1>8, <2>1, <2>3, RunEndsForms, WaitForms DEF TypeOK
  <2> QED
    BY <1>8, <2>2, <2>3, WaitForms
<1>9. CASE Drop
  <2>1. caller' = [caller EXCEPT !.pc = "done", !.result = "panic"] /\ sup' = NoSup
        /\ UNCHANGED <<proc, pipe, world>>
    BY <1>9 DEF Drop, Finish
  <2>2. "panic" \in Results
    BY DEF Results
  <2>3. caller' \in CallerState
    BY <2>1, <2>2, Points, CallerForms
  <2> QED
    BY <2>1, <2>3, NoSupTyped DEF TypeOK
<1> QED
  BY <1>3, <1>4, <1>5, <1>6, <1>7, <1>8, <1>9 DEF Call, Checks

LEMMA TypesKept ==
  ASSUME TypeOK, MoreProbes, [Next]_vars
  PROVE  TypeOK'
<1>1. CASE Cancel \/ Expire \/ Spoil
  BY <1>1, ZenonT(40) DEF Cancel, Expire, Spoil, TypeOK
<1>3. CASE Mend
  <2> DEFINE before == IF Started THEN world.before ELSE Things
             since == IF caller.run = None THEN world.since ELSE Things
  <2>1. before \in SUBSET Things /\ since \in SUBSET Things
    BY DEF TypeOK
  <2>2. world' = [world EXCEPT !.trust = Things, !.before = before, !.since = since]
    BY <1>3 DEF Mend
  <2> HIDE DEF before, since
  <2> QED
    BY <1>3, <2>1, <2>2 DEF Mend, TypeOK
<1>2. CASE UNCHANGED vars
  BY <1>2 DEF vars, TypeOK
<1> QED
  BY <1>1, <1>2, <1>3, ChildTyped, SuperviseTyped, CallTyped DEF Next

-----------------------------------------------------------------------------
(* The tree of processes. *)

LEMMA DiedTree ==
  ASSUME TypeOK, ParentsLive, Rooted, NEW dead \in SUBSET Alive,
         NEW how \in {"zero", "other", "killed"}, proc' = Died(dead, how)
  PROVE  ParentsLive' /\ Rooted' /\ Living' = Living
<1>1. \A p \in Proc :
        /\ proc'[p].st = IF p \in dead THEN "zombie" ELSE proc[p].st
        /\ proc'[p].parent = IF proc[p].parent \in dead THEN Sup ELSE proc[p].parent
  BY DiedFields
<1>2. Living' = Living /\ Alive' = Alive \ dead
  BY <1>1 DEF Living, Alive
<1>3. ParentsLive'
  BY <1>1, <1>2 DEF ParentsLive, Living
<1>4. ASSUME NEW S \in SUBSET Living, S # {}
      PROVE  \E p \in S : proc'[p].parent \notin S
  <2>1. PICK p \in S : proc[p].parent \notin S
    BY <1>4 DEF Rooted
  <2>2. p \in Proc /\ Sup \notin S
    BY Numbers DEF Living
  <2> QED
    BY <1>1, <2>1, <2>2
<1> QED
  BY <1>2, <1>3, <1>4 DEF Rooted

LEMMA WaitedForTree ==
  ASSUME TypeOK, ParentsLive, Rooted, NEW q \in Proc, proc[q].st = "zombie",
         proc' = WaitedFor(q)
  PROVE  ParentsLive' /\ Rooted' /\ Living' = Living \ {q}
<1>1. /\ \A p \in Proc \ {q} : proc'[p] = proc[p]
      /\ proc'[q].st = "gone"
  BY WaitedForFields
<1>2. Living' = Living \ {q} /\ Alive' = Alive
  BY <1>1 DEF Living, Alive
<1>3. ParentsLive'
  BY <1>1, <1>2 DEF ParentsLive, Living
<1>4. ASSUME NEW S \in SUBSET (Living \ {q}), S # {}
      PROVE  \E p \in S : proc'[p].parent \notin S
  <2>1. PICK p \in S : proc[p].parent \notin S
    BY <1>4 DEF Rooted
  <2> QED
    BY <1>1, <2>1 DEF Living
<1> QED
  BY <1>2, <1>3, <1>4 DEF Rooted

LEMMA ForkTree ==
  ASSUME TypeOK, ParentsLive, Rooted, NEW p \in Proc, NEW q \in Kid, Fork(p, q)
  PROVE  /\ ParentsLive' /\ Rooted' /\ Living' = Living \union {q}
         /\ proc'[Borg] = proc[Borg]
<1>1. /\ proc[p].st = "alive" /\ proc[q].st = "none" /\ p # q /\ q \in Proc /\ Borg # q
      /\ Borg \in Proc
  BY Numbers DEF Fork, Alive
<1>2. /\ \A r \in Proc \ {q} : proc'[r] = proc[r]
      /\ proc'[q].st = "alive" /\ proc'[q].parent = p
  BY <1>1 DEF Fork, TypeOK, NoProc
<1>3. Living' = Living \union {q} /\ Alive' = Alive \union {q}
  BY <1>1, <1>2 DEF Living, Alive
<1>4. ParentsLive'
  BY <1>1, <1>2, <1>3 DEF ParentsLive, Living, Alive
<1>5. ASSUME NEW S \in SUBSET (Living \union {q}), S # {}
      PROVE  \E r \in S : proc'[r].parent \notin S
  <2>1. CASE S \ {q} = {}
    <3>1. S = {q}
      BY <1>5, <2>1
    <3> QED
      BY <1>1, <1>2, <3>1
  <2>2. CASE S \ {q} # {}
    <3>1. PICK r \in S \ {q} : proc[r].parent \notin S \ {q}
      BY <2>2 DEF Rooted
    <3>2. r \in Living /\ proc[r].parent # q
      BY <1>1, Numbers DEF ParentsLive, Alive
    <3> QED
      BY <1>2, <3>1, <3>2 DEF Living
  <2> QED
    BY <2>1, <2>2
<1> QED
  BY <1>1, <1>2, <1>3, <1>4, <1>5 DEF Rooted

\* When no process is the supervisor's child, none is left.
LEMMA NoneLeft ==
  ASSUME TypeOK, ParentsLive, Rooted, Children = {}
  PROVE  Living = {}
<1> SUFFICES ASSUME Living # {} PROVE FALSE
  OBVIOUS
<1>1. PICK p \in Living : proc[p].parent \notin Living
  BY DEF Rooted
<1>2. proc[p].parent \in Alive \union {Sup} /\ Alive \subseteq Living
  BY DEF ParentsLive, Alive, Living
<1> QED
  BY <1>1, <1>2 DEF Children

LEMMA SameTree ==
  ASSUME UNCHANGED proc
  PROVE  /\ ParentsLive => ParentsLive'
         /\ Rooted => Rooted'
         /\ Living' = Living /\ Alive' = Alive
BY DEF ParentsLive, Rooted, Living, Alive

LEMMA ChildTree ==
  ASSUME TypeOK, Processes, Child
  PROVE  Processes'
<1>1. PICK p \in Proc : (\E q \in Kid : Fork(p, q)) \/ Exit(p) \/ ParentWaits(p)
                        \/ Escape(p) \/ WriteOut(p) \/ WriteErr(p)
  BY DEF Child
<1>2. ParentsLive /\ Rooted /\ Fresh /\ Quiet /\ Idle /\ Waited /\ Leader /\ Knows
  BY DEF Processes
<1>3. proc[p].st \in {"alive", "zombie"} /\ UNCHANGED <<caller, sup>> /\ p \in Living
  BY <1>1 DEF Fork, Exit, ParentWaits, Escape, WriteOut, WriteErr, Others, Alive, Living
<1>4. sup.pc \notin {"setup", "none", "exited"}
  BY <1>2, <1>3 DEF Fresh, Quiet, NoProc
<1>5. Fresh' /\ Quiet' /\ Idle' /\ Waited'
  BY <1>2, <1>3, <1>4 DEF Fresh, Quiet, Idle, Waited
<1>6. CASE \E q \in Kid : Fork(p, q)
  <2>1. ParentsLive' /\ Rooted' /\ proc'[Borg] = proc[Borg]
    BY <1>2, <1>6, ForkTree
  <2> QED
    BY <1>2, <1>3, <1>5, <2>1 DEF Processes, Leader, Knows
<1>7. CASE Exit(p)
  <2>1. PICK how \in {"zero", "other"} : proc' = Died({p}, how)
    BY <1>7 DEF Exit
  <2>2. {p} \in SUBSET Alive
    BY <1>7 DEF Exit
  <2>3. ParentsLive' /\ Rooted'
    BY <1>2, <2>1, <2>2, DiedTree
  <2>4. /\ proc'[Borg].st = IF p = Borg THEN "zombie" ELSE proc[Borg].st
        /\ proc'[Borg].end = IF p = Borg THEN how ELSE proc[Borg].end
        /\ proc'[Borg].parent = Sup
    BY <1>2, <2>1, <2>2, DiedFields, Numbers DEF Leader
  <2>5. p = Borg => proc[Borg].st = "alive"
    BY <2>2 DEF Alive
  <2>6. Leader' /\ Knows'
    BY <1>2, <1>3, <2>4, <2>5 DEF Leader, Knows
  <2> QED
    BY <1>5, <2>3, <2>6 DEF Processes
<1>8. CASE ParentWaits(p)
  <2>1. p # Borg
    BY <1>2, <1>8, Numbers DEF ParentWaits, Leader, Alive
  <2>2. ParentsLive' /\ Rooted' /\ proc'[Borg] = proc[Borg]
    BY <1>2, <1>8, <2>1, WaitedForTree, WaitedForFields, Numbers DEF ParentWaits
  <2> QED
    BY <1>2, <1>3, <1>5, <2>2 DEF Processes, Leader, Knows
<1>9. CASE Escape(p)
  <2>1. \A q \in Proc : /\ proc'[q].st = proc[q].st /\ proc'[q].end = proc[q].end
                        /\ proc'[q].parent = proc[q].parent
    BY <1>9 DEF Escape, TypeOK, ProcState
  <2>2. Living' = Living /\ Alive' = Alive
    BY <2>1 DEF Living, Alive
  <2>3. ParentsLive' /\ Rooted'
    BY <1>2, <2>1, <2>2 DEF ParentsLive, Rooted, Living
  <2> QED
    BY <1>2, <1>3, <1>5, <2>1, <2>3, Numbers DEF Processes, Leader, Knows
<1>10. CASE WriteOut(p) \/ WriteErr(p)
  <2>1. UNCHANGED proc
    BY <1>10 DEF WriteOut, WriteErr
  <2> QED
    BY <1>2, <1>3, <1>5, <2>1, SameTree DEF Processes, Leader, Knows
<1> QED
  BY <1>1, <1>6, <1>7, <1>8, <1>9, <1>10

\* What a step of the supervisor writes to its own state.
LEMMA SupFields ==
  ASSUME TypeOK, Supervise
  PROVE  /\ sup' \in SupState /\ UNCHANGED <<caller, pipe, world>>
         /\ Setup => sup'.borgOk = sup.borgOk /\ sup'.stopping = sup.stopping
         /\ Reaped => sup'.borgOk = sup.borgOk /\ sup'.stopping = sup.stopping
         /\ Signal => /\ sup'.borgOk = sup.borgOk /\ sup'.pc = "reap"
                      /\ sup'.stopping = (sup.stopping \/ ~caller.control)
<1>1. sup' \in SupState /\ UNCHANGED <<caller, pipe, world>>
  BY SuperviseTyped DEF TypeOK, Supervise, Setup, Reap, Reaped, Signal
<1>2. Setup => sup'.borgOk = sup.borgOk /\ sup'.stopping = sup.stopping
  BY DEF Setup, TypeOK, SupState
<1>3. Reaped => sup'.borgOk = sup.borgOk /\ sup'.stopping = sup.stopping
  BY DEF Reaped, TypeOK, SupState
<1>4. ASSUME Signal
      PROVE  /\ sup'.borgOk = sup.borgOk /\ sup'.pc = "reap"
             /\ sup'.stopping = (sup.stopping \/ ~caller.control)
  <2> DEFINE stopping == sup.stopping \/ ~caller.control
             ticks == IF stopping /\ sup.ticks < Grace THEN sup.ticks + 1 ELSE sup.ticks
  <2>1. sup' = [sup EXCEPT !.pc = "reap", !.stopping = stopping, !.ticks = ticks]
    BY <1>4 DEF Signal
  <2> HIDE DEF ticks
  <2> QED
    BY <2>1 DEF TypeOK, SupState
<1> QED
  BY <1>1, <1>2, <1>3, <1>4

LEMMA SuperviseTree ==
  ASSUME TypeOK, Processes, Supervise
  PROVE  Processes'
<1>1. ParentsLive /\ Rooted /\ Fresh /\ Quiet /\ Idle /\ Waited /\ Leader /\ Knows
  BY DEF Processes
<1>2. UNCHANGED caller /\ sup.pc \in {"setup", "reap", "signal"} /\ sup'.pc # "setup"
  BY DEF Supervise, Setup, Reap, Reaped, Signal, TypeOK, SupState
<1>3. Idle' /\ Waited' /\ Fresh'
  BY <1>1, <1>2 DEF Idle, Waited, Fresh
<1>4. CASE Setup
  <2>1. /\ \A p \in Proc : proc[p] = NoProc
        /\ ~sup.borgOk /\ ~sup'.borgOk
    BY <1>1, <1>4, SupFields DEF Fresh, Setup, Supervise
  <2>2. \A p \in Proc : proc'[p].parent = Sup /\ proc'[p].end = "none"
                        /\ (p # Borg => proc'[p].st = "none")
    BY <1>4, <2>1 DEF Setup, NoProc, TypeOK
  <2>3. proc'[Borg].st \in {"none", "alive"} /\ (sup'.pc = "exited" => proc'[Borg].st = "none")
    BY <1>4, <2>1, Numbers DEF Setup, NoProc, TypeOK, SupState
  <2>4. ParentsLive' /\ Rooted'
    BY <2>2, Numbers DEF ParentsLive, Rooted, Living
  <2>5. sup'.pc \in {"reap", "exited"}
    BY <1>4 DEF Setup, TypeOK, SupState
  <2>6. Quiet'
    BY <2>2, <2>3, <2>5 DEF Quiet, Living
  <2>7. Leader' /\ Knows'
    BY <2>1, <2>2, <2>3, Numbers DEF Leader, Knows
  <2> QED
    BY <1>3, <2>4, <2>6, <2>7 DEF Processes
<1>5. ASSUME NEW p \in Proc, Reap(p)
      PROVE  Processes'
  <2>1. proc' = WaitedFor(p) /\ proc[p].st = "zombie" /\ sup.pc = "reap" /\ sup'.pc = "reap"
    BY <1>5 DEF Reap, TypeOK, SupState
  <2>2. ParentsLive' /\ Rooted'
    BY <1>1, <2>1, WaitedForTree
  <2>3. Leader'
    BY <1>1, <2>1, WaitedForFields, Numbers DEF Leader
  <2>4. ASSUME p = Borg PROVE Knows'
    <3>1. proc'[Borg].st = "gone" /\ proc'[Borg].end = proc[Borg].end
      BY <2>1, <2>4, WaitedForFields
    <3>2. sup'.borgOk = (proc[Borg].end = "zero")
      BY <1>5, <2>4 DEF Reap, TypeOK, SupState
    <3> QED
      BY <3>1, <3>2 DEF Knows
  <2>5. ASSUME p # Borg PROVE Knows'
    <3>1. proc'[Borg] = proc[Borg] /\ sup' = sup
      BY <1>5, <2>1, <2>5, WaitedForFields, Numbers DEF Reap
    <3> QED
      BY <1>1, <3>1 DEF Knows
  <2>6. Quiet'
    BY <2>1 DEF Quiet
  <2> QED
    BY <1>3, <2>2, <2>3, <2>4, <2>5, <2>6 DEF Processes
<1>6. CASE Reaped
  <2>1. UNCHANGED proc /\ sup'.borgOk = sup.borgOk /\ sup.pc = "reap"
    BY <1>6, SupFields DEF Reaped
  <2>2. sup'.pc \in {"none", "exited"} => Children = {}
    BY <1>6 DEF Reaped, NoChildren, TypeOK, SupState
  <2>3. Quiet'
    BY <1>1, <2>1, <2>2, NoneLeft, SameTree DEF Quiet
  <2>4. Leader' /\ Knows'
    BY <1>1, <2>1 DEF Leader, Knows
  <2> QED
    BY <1>1, <1>3, <2>1, <2>3, <2>4, SameTree DEF Processes
<1>7. CASE Signal
  <2>1. sup'.borgOk = sup.borgOk /\ sup.pc = "signal" /\ sup'.pc = "reap"
    BY <1>7, SupFields DEF Signal
  <2>2. CASE UNCHANGED proc
    BY <1>1, <1>3, <2>1, <2>2, SameTree DEF Processes, Quiet, Leader, Knows
  <2>3. ASSUME NEW dead \in SUBSET Alive, proc' = Died(dead, "killed")
        PROVE  Processes'
    <3>1. ParentsLive' /\ Rooted'
      BY <1>1, <2>3, DiedTree
    <3>2. /\ proc'[Borg].st = IF Borg \in dead THEN "zombie" ELSE proc[Borg].st
          /\ proc'[Borg].end = IF Borg \in dead THEN "killed" ELSE proc[Borg].end
          /\ proc'[Borg].parent = Sup
      BY <1>1, <2>3, DiedFields, Numbers DEF Leader
    <3>3. Borg \in dead => proc[Borg].st = "alive"
      BY DEF Alive
    <3>4. Leader' /\ Knows' /\ Quiet'
      BY <1>1, <2>1, <3>2, <3>3 DEF Leader, Knows, Quiet
    <3> QED
      BY <1>3, <3>1, <3>4 DEF Processes
  <2>4. UNCHANGED proc \/ \E dead \in SUBSET Alive : proc' = Died(dead, "killed")
    BY <1>7, KilledAlive DEF Signal
  <2> QED
    BY <2>2, <2>3, <2>4
<1> QED
  BY <1>4, <1>5, <1>6, <1>7 DEF Supervise

\* How the caller's steps touch the supervisor and the processes.
LEMMA CallTree ==
  ASSUME TypeOK, Processes, Call
  PROVE  Processes'
<1>1. ParentsLive /\ Rooted /\ Fresh /\ Quiet /\ Idle /\ Waited /\ Leader /\ Knows
  BY DEF Processes
<1>2. ASSUME UNCHANGED <<sup, proc>>, Idle', Waited'
      PROVE  Processes'
  BY <1>1, <1>2, SameTree DEF Processes, Fresh, Quiet, Leader, Knows
<1>3. CASE Checks
  <2>1. caller.pc \notin Running
    BY <1>3 DEF Checks, Prepare, InspectPart, Inspected, Gate, Remaining, After, Post, Return,
                At, Running
  <2>2. caller'.status = caller.status /\ caller'.pc \notin Running
    BY <1>3, <2>1, ChecksForms, ZenonT(40) DEF Running, TypeOK, CallerState
  <2> QED
    BY <1>1, <1>2, <1>3, <2>1, <2>2, ChecksForms DEF Idle, Waited
<1>4. CASE Check \/ ReadOut \/ ReadErr
  <2>1. /\ UNCHANGED <<sup, proc>> /\ caller'.pc \in Running /\ caller'.status = caller.status
    BY <1>4, ZenonT(40) DEF Check, ReadOut, ReadErr, Take, Consume, GoTo, Alone, Running, TypeOK, CallerState
  <2> QED
    BY <1>1, <1>2, <2>1 DEF Idle, Waited
<1>5. CASE Spawn /\ UNCHANGED <<sup, proc, pipe>>
  <2>1. caller.pc = "spawn" /\ caller'.status \in {caller.status, None}
    BY <1>5 DEF Spawn, RunEnds, GoTo, Finish, At, TypeOK, CallerState
  <2> QED
    BY <1>1, <1>2, <1>5, <2>1 DEF Idle, Waited, Running
<1>6. CASE Spawn /\ ~UNCHANGED <<sup, proc, pipe>>
  <2>1. /\ caller'.pc = "check" /\ caller'.status = None
        /\ sup' = [NoSup EXCEPT !.pc = "setup"] /\ proc' = [p \in Proc |-> NoProc]
    BY <1>6 DEF Spawn, TypeOK, CallerState
  <2>2. sup'.pc = "setup" /\ ~sup'.borgOk /\ ~sup'.stopping
    BY <2>1 DEF NoSup
  <2>3. \A p \in Proc : /\ proc'[p] = NoProc /\ proc'[p].st = "none"
                        /\ proc'[p].parent = Sup /\ proc'[p].end = "none"
    BY <2>1 DEF NoProc
  <2>4. Living' = {}
    BY <2>3 DEF Living
  <2> QED
    BY <2>1, <2>2, <2>3, <2>4, Numbers
    DEF Processes, ParentsLive, Rooted, Fresh, Quiet, Idle, Waited, Leader, Knows, Running
<1>7. CASE Wait \/ Drop
  <2>1. UNCHANGED proc /\ (sup' = NoSup \/ (UNCHANGED sup /\ sup.pc # "exited"))
        /\ (sup.pc # "exited" => sup'.pc = sup.pc \/ sup'.pc = "none")
    BY <1>7 DEF Wait, Drop, NoSup
  <2>2. sup'.pc = "none" \/ UNCHANGED sup
    BY <2>1 DEF NoSup
  <2>3. sup'.pc = "none" => Living = {}
    BY <1>1, <1>7 DEF Wait, Drop, Quiet
  <2>4. /\ caller'.pc \notin Running => sup'.pc = "none"
        /\ caller'.status # None => sup'.pc = "none"
    <3>1. CASE Drop
      <4>1. sup'.pc = "none"
        BY <3>1 DEF Drop, NoSup
      <4> QED
        BY <4>1
    <3>2. CASE Wait
      <4>1. sup.pc = "exited" => sup'.pc = "none"
        BY <3>2 DEF Wait, NoSup
      <4>2. caller.status # None => sup'.pc = "none"
        BY <1>1, <3>2 DEF Wait, Waited, NoSup
      <4>3. sup.pc # "exited" /\ caller.status = None
             => caller'.pc = "check" /\ caller'.status = None
        BY <3>2 DEF Wait, Ended, StatusOf, TypeOK, CallerState
      <4> QED
        BY <4>1, <4>2, <4>3 DEF Running
    <3> QED
      BY <1>7, <3>1, <3>2
  <2>5. ParentsLive' /\ Rooted' /\ Quiet' /\ Leader'
    BY <1>1, <2>1, <2>2, <2>3, SameTree DEF Quiet, Leader
  <2>6. Fresh' /\ Knows'
    BY <1>1, <2>1, <2>2 DEF Fresh, Knows
  <2> QED
    BY <2>4, <2>5, <2>6 DEF Processes, Idle, Waited
<1> QED
  BY <1>3, <1>4, <1>5, <1>6, <1>7 DEF Call, Checks

LEMMA TreeKept ==
  ASSUME TypeOK, Processes, [Next]_vars
  PROVE  Processes'
<1>1. CASE Cancel \/ Expire \/ Spoil \/ Mend \/ UNCHANGED vars
  <2>1. UNCHANGED <<caller, sup, proc>>
    BY <1>1 DEF Cancel, Expire, Spoil, Mend, vars
  <2> QED
    BY <2>1, SameTree DEF Processes, Fresh, Quiet, Idle, Waited, Leader, Knows
<1> QED
  BY <1>1, ChildTree, SuperviseTree, CallTree DEF Next

-----------------------------------------------------------------------------
(* The transport: what the caller may conclude. *)

\* While a run goes on nothing is said of it.
LEMMA StillRunning ==
  ASSUME Transport, caller.pc \in Running, caller'.pc \in Running,
         caller'.run = caller.run, caller'.result = caller.result
  PROVE  /\ Sealed' /\ MoreProbes' /\ RunOver' /\ Complete' /\ AnswerIsTrue' /\ Clean'
         /\ caller.run = None /\ caller.result = None
<1>1. caller.run = None /\ caller.result = None
  BY DEF Transport, RunOver, Sealed, Late, Running
<1>2. Complete' /\ AnswerIsTrue'
  BY <1>1, Numbers DEF Complete, Happened, AnswerIsTrue, Results, Failures
<1>3. Sealed' /\ MoreProbes' /\ RunOver' /\ Clean'
  BY <1>1 DEF Sealed, MoreProbes, RunOver, Clean, Early, Late, Running
<1> QED
  BY <1>1, <1>2, <1>3

LEMMA ChildLedger ==
  ASSUME TypeOK, Processes, Transport, Child
  PROVE  Transport'
<1>1. PICK p \in Proc : (\E q \in Kid : Fork(p, q)) \/ Exit(p) \/ ParentWaits(p)
                        \/ Escape(p) \/ WriteOut(p) \/ WriteErr(p)
  BY DEF Child
<1>2. proc[p].st \in {"alive", "zombie"} /\ UNCHANGED <<caller, sup, world>> /\ p \in Living
  BY <1>1 DEF Fork, Exit, ParentWaits, Escape, WriteOut, WriteErr, Others, Alive, Living
<1>3. sup.pc \notin {"setup", "none", "exited"}
  BY <1>2 DEF Processes, Fresh, Quiet, NoProc
<1>4. caller.status = None /\ caller.pc \in Running /\ caller.result = None
  BY <1>3 DEF Processes, Idle, Waited, Transport, Sealed, Running
<1>5. /\ proc'[Borg].st = proc[Borg].st \/ proc[Borg].st = "alive"
      /\ proc'[Borg].end \in {proc[Borg].end, "zero", "other"}
  <2>1. CASE \E q \in Kid : Fork(p, q)
    BY <2>1, ForkTree DEF Processes
  <2>2. CASE Exit(p)
    <3>1. PICK how \in {"zero", "other"} : proc' = Died({p}, how)
      BY <2>2 DEF Exit
    <3>2. {p} \in SUBSET Alive
      BY <2>2 DEF Exit
    <3> QED
      BY <3>1, <3>2, DiedFields, Numbers DEF Alive
  <2>3. CASE ParentWaits(p)
    <3>1. p # Borg
      BY <2>3, Numbers DEF ParentWaits, Processes, Leader, Alive
    <3> QED
      BY <2>3, <3>1, WaitedForFields, Numbers DEF ParentWaits
  <2>4. CASE Escape(p)
    BY <2>4, Numbers DEF Escape, TypeOK, ProcState
  <2>5. CASE WriteOut(p) \/ WriteErr(p)
    BY <2>5 DEF WriteOut, WriteErr
  <2> QED
    BY <1>1, <2>1, <2>2, <2>3, <2>4, <2>5
<1>6. pipe'.out - pipe.out = pipe'.written - pipe.written /\ pipe'.out \in Nat
      /\ pipe'.written \in Nat
  <2>1. CASE WriteOut(p)
    BY <2>1, Numbers DEF WriteOut, TypeOK
  <2>2. CASE ~WriteOut(p)
    <3>1. pipe'.out = pipe.out /\ pipe'.written = pipe.written
      BY <1>1, <2>2 DEF Fork, Exit, ParentWaits, Escape, WriteErr, Others, TypeOK
    <3> QED
      BY <3>1, Numbers DEF TypeOK
  <2> QED
    BY <2>1, <2>2
<1>7. Untouched'
  BY <1>2, <1>5 DEF Transport, Untouched, Sound
<1>8. Account'
  BY <1>2, <1>6, Numbers DEF Transport, Account, Sound, TypeOK, CallerState
<1>9. AtEof'
  <2>1. ~(Sound /\ caller.outEof)
    BY <1>3 DEF Transport, AtEof, Writers, TypeOK, SupState
  <2> QED
    BY <1>2, <2>1 DEF AtEof, Sound
<1>10. Told' /\ Cause' /\ Backed'
  BY <1>2, <1>4, Numbers DEF Transport, Told, Sound, Cause, Backed, Results
<1> QED
  BY <1>2, <1>4, <1>7, <1>8, <1>9, <1>10, StillRunning DEF Transport

LEMMA SuperviseLedger ==
  ASSUME TypeOK, Processes, Transport, Supervise
  PROVE  Transport'
<1>1. UNCHANGED <<caller, pipe, world>> /\ sup.pc \in {"setup", "reap", "signal"}
  BY SupFields DEF Supervise, Setup, Reap, Reaped, Signal
<1>2. caller.status = None /\ caller.pc \in Running /\ caller.result = None
  BY <1>1 DEF Processes, Idle, Waited, Transport, Sealed, Running
<1>3. ASSUME Sound
      PROVE  /\ proc'[Borg].end # "killed"
             /\ sup'.stopping => proc'[Borg].st = "gone"
  <2>1. /\ caller.control /\ proc[Borg].end # "killed"
        /\ sup.stopping => proc[Borg].st = "gone"
    BY <1>3 DEF Transport, Untouched
  <2>2. CASE Setup
    <3>1. ~sup.stopping /\ proc[Borg].end = "none" /\ ~sup'.stopping
      BY <2>2, SupFields, Numbers DEF Setup, Processes, Fresh, NoProc
    <3>2. proc'[Borg].end = "none"
      BY <2>2, <3>1, Numbers DEF Setup, TypeOK, ProcState
    <3> QED
      BY <3>1, <3>2
  <2>3. ASSUME NEW p \in Proc, Reap(p)
        PROVE  /\ proc'[Borg].end # "killed"
               /\ sup'.stopping => proc'[Borg].st = "gone"
    <3>1. proc' = WaitedFor(p)
      BY <2>3 DEF Reap
    <3>2. CASE p = Borg
      BY <2>1, <3>1, <3>2, WaitedForFields
    <3>3. CASE p # Borg
      <4>1. proc'[Borg] = proc[Borg] /\ sup' = sup
        BY <2>3, <3>1, <3>3, WaitedForFields, Numbers DEF Reap
      <4> QED
        BY <2>1, <4>1
    <3> QED
      BY <3>2, <3>3
  <2>4. CASE Reaped
    <3>1. UNCHANGED proc /\ sup'.stopping = sup.stopping
      BY <2>4, SupFields DEF Reaped
    <3> QED
      BY <2>1, <3>1
  <2>5. CASE Signal
    <3>1. sup'.stopping = sup.stopping
      BY <2>1, <2>5, SupFields DEF TypeOK, SupState
    <3>2. CASE ~sup.stopping
      <4>1. UNCHANGED proc
        BY <2>1, <2>5, <3>2 DEF Signal
      <4> QED
        BY <2>1, <3>1, <3>2, <4>1
    <3>3. CASE sup.stopping
      <4>1. PICK dead \in SUBSET Alive : proc' = Died(dead, "killed")
        BY <2>5, <3>3, KilledAlive DEF Signal
      <4>2. Borg \notin dead
        BY <2>1, <3>3 DEF Alive
      <4>3. proc'[Borg].st = proc[Borg].st /\ proc'[Borg].end = proc[Borg].end
        BY <4>1, <4>2, DiedFields, Numbers
      <4> QED
        BY <2>1, <4>3, <3>3
    <3> QED
      BY <3>2, <3>3
  <2> QED
    BY <2>2, <2>3, <2>4, <2>5 DEF Supervise
<1>4. Untouched'
  BY <1>1, <1>3 DEF Transport, Untouched, Sound
<1>5. Account' /\ Told'
  BY <1>1, <1>2, Numbers DEF Transport, Account, Told, Sound, Results
<1>6. AtEof'
  <2>1. ~(Sound /\ caller.outEof)
    BY <1>1 DEF Transport, AtEof, Writers
  <2> QED
    BY <1>1, <2>1 DEF AtEof, Sound
<1>7. Cause' /\ Backed'
  BY <1>1 DEF Transport, Cause, Backed
<1> QED
  BY <1>1, <1>2, <1>4, <1>5, <1>6, <1>7, StillRunning DEF Transport

LEMMA Vacuous ==
  ASSUME ~Sound'
  PROVE  Untouched' /\ Account' /\ AtEof' /\ Told'
BY DEF Untouched, Account, AtEof, Told

\* Where a check leads, and what it may say.
LEMMA ChecksSteps ==
  ASSUME TypeOK, RunOver, Checks
  PROVE  /\ caller.pc \in Early \union Late
         /\ caller.pc \in Early => caller'.pc \in {"inspect", "gate", "time", "spawn", "done"}
         /\ caller.pc \in Late => caller'.pc \in {"inspect again", "done"}
         /\ caller'.failure = caller.failure /\ caller'.consumed = caller.consumed
         /\ caller'.run = caller.run /\ (caller.pc # "after" => caller'.n = caller.n)
         /\ caller'.pc # "done" =>
              /\ caller'.result = caller.result
              /\ caller.pc = "prepare" => world.backend # "production"
         /\ caller'.pc = "done" =>
              \/ caller'.result \in {"UnsupportedBackend", "Validation", "UnsafeState",
                                     "UnsupportedBorg"}
              \/ caller'.result = "Timeout" /\ world.late
              \/ caller.pc \in Late /\ caller'.result = caller.run
                 /\ (caller.run = "ok" => Return)
<1>1. /\ caller.pc \in Late => caller.run # None
      /\ caller.pc \in Early => caller.run = None
  BY DEF RunOver, Early, Late
<1>2. ASSUME NEW x \in {"UnsupportedBackend", "Validation", "UnsafeState"}, Refuse(x)
      PROVE  /\ caller' = [caller EXCEPT !.pc = "done", !.result = caller'.result]
             /\ \/ caller'.result = x
                \/ caller.run \notin {None, "ok"} /\ caller'.result = caller.run
  BY <1>2 DEF Refuse, Finish, TypeOK, CallerState
<1>3. CASE Prepare
  BY <1>1, <1>3, StaleErrors, ZenonT(40) DEF Prepare, At, Finish, Early, Late, TypeOK, CallerState
<1>4. CASE \E x \in Parts : InspectPart(x)
  <2>1. PICK x \in Parts : InspectPart(x)
    BY <1>4
  <2>2. CASE caller' = [caller EXCEPT !.left = @ \ {x}]
    BY <1>1, <2>1, <2>2 DEF InspectPart, Early, Late, TypeOK, CallerState
  <2>3. CASE Refuse("UnsafeState")
    BY <1>1, <1>2, <2>1, <2>3 DEF InspectPart, Early, Late, TypeOK, CallerState
  <2> QED
    BY <2>1, <2>2, <2>3 DEF InspectPart
<1>5. CASE Inspected
  BY <1>1, <1>5 DEF Inspected, At, GoTo, Early, Late, TypeOK, CallerState
<1>6. CASE Gate
  BY <1>1, <1>6, StaleErrors DEF Gate, At, GoTo, Finish, Early, Late, TypeOK, CallerState
<1>7. CASE Remaining
  BY <1>1, <1>7 DEF Remaining, At, GoTo, Finish, Early, Late, TypeOK, CallerState
<1>8. CASE After
  <2>1. caller.pc = "after"
    BY <1>8 DEF After, At
  <2>2. CASE caller' = [caller EXCEPT !.pc = "gate", !.n = @ + 1]
    BY <1>1, <2>1, <2>2 DEF Early, Late, TypeOK, CallerState
  <2>3. ASSUME NEW x \in {"UnsupportedBackend", "Validation", "UnsupportedBorg"}, Finish(x)
        PROVE  caller' = [caller EXCEPT !.pc = "done", !.result = x]
    BY <2>3 DEF Finish
  <2>4. ASSUME NEW x \in {"UnsupportedBackend", "Validation", "UnsupportedBorg"},
               caller' = [caller EXCEPT !.pc = "done", !.result = x]
        PROVE  /\ caller'.pc = "done" /\ caller'.result = x /\ caller'.n = caller.n
               /\ caller'.failure = caller.failure /\ caller'.consumed = caller.consumed
               /\ caller'.run = caller.run
    BY <2>4 DEF TypeOK, CallerState
  <2>5. CASE \E x \in {"UnsupportedBackend", "Validation", "UnsupportedBorg"} : Finish(x)
    BY <2>1, <2>3, <2>4, <2>5 DEF Early, Late
  <2>6. \/ caller' = [caller EXCEPT !.pc = "gate", !.n = @ + 1]
        \/ \E x \in {"UnsupportedBackend", "Validation", "UnsupportedBorg"} : Finish(x)
    BY <1>8, StaleErrors DEF After
  <2> QED
    BY <2>2, <2>5, <2>6
<1>9. CASE Post
  <2>1. CASE caller' = [caller EXCEPT !.pc = "inspect again", !.left = Parts]
    BY <1>1, <1>9, <2>1 DEF Post, At, Early, Late, TypeOK, CallerState
  <2>2. CASE Refuse(Stale) /\ Stale # None
    BY <1>1, <1>2, <1>9, <2>2, StaleErrors DEF Post, At, Early, Late, TypeOK, CallerState
  <2> QED
    BY <1>9, <2>1, <2>2 DEF Post
<1>10. CASE Return
  BY <1>1, <1>10 DEF Return, At, Finish, Early, Late, TypeOK, CallerState
<1> QED
  BY <1>3, <1>4, <1>5, <1>6, <1>7, <1>8, <1>9, <1>10 DEF Checks

\* Before and between the runs, and after the last one.
LEMMA ChecksLedger ==
  ASSUME TypeOK, Processes, Transport, Checks
  PROVE  Transport'
<1>1. UNCHANGED <<sup, proc, pipe, world>> /\ RunOver
  BY ChecksForms DEF Transport
<1>2. /\ caller.result = None
      /\ caller.pc \in Early => caller.run = None /\ caller.failure = None
      /\ caller.pc \in Late => caller.run # None
      /\ caller.pc # "prepare" => world.backend = "mock"
  BY <1>1, ChecksSteps DEF Early, Late, Transport, RunOver, Clean, Backed, Sealed
<1>3. Untouched' /\ Account' /\ AtEof' /\ Told'
  BY <1>1, ChecksSteps, Vacuous DEF Sound, Running, Early, Late
<1>4. Cause' /\ Clean' /\ MoreProbes' /\ RunOver'
  BY <1>1, <1>2, ChecksSteps DEF Cause, Clean, MoreProbes, RunOver, Early, Late, Transport
<1>5. Backed'
  BY <1>1, <1>2, ChecksSteps DEF Backed, TypeOK
<1>6. Sealed'
  BY <1>1, <1>2, ChecksSteps DEF Sealed
<1>7. Complete'
  <2>1. caller.pc = "after" => caller.run = None
    BY <1>2 DEF Early
  <2> QED
    BY <1>1, <2>1, ChecksSteps DEF Complete, Happened, Transport
<1>8. AnswerIsTrue'
  <2>1. CASE caller'.pc # "done"
    BY <1>1, <1>2, <2>1, ChecksSteps, Numbers DEF AnswerIsTrue, Results, Failures
  <2>2. CASE caller'.pc = "done" /\ caller.pc \in Late /\ caller'.result = caller.run
    BY <1>1, <1>2, <2>2, ChecksSteps DEF AnswerIsTrue, Complete, Happened, Transport, Late
  <2>3. CASE \/ caller'.result \in {"UnsupportedBackend", "Validation", "UnsafeState",
                                    "UnsupportedBorg"}
             \/ caller'.result = "Timeout" /\ world.late
    BY <1>1, <2>3 DEF AnswerIsTrue
  <2> QED
    BY <1>1, <2>1, <2>2, <2>3, ChecksSteps
<1> QED
  BY <1>3, <1>4, <1>5, <1>6, <1>7, <1>8 DEF Transport

\* A run that ends, with what its outcome says.
LEMMA EndsLedger ==
  ASSUME TypeOK, Transport, caller.pc \in {"spawn", "wait"}, UNCHANGED <<proc, pipe>>,
         NEW outcome \in Results, RunEnds(outcome), Happened(outcome),
         outcome = "ok" => caller.failure = None
  PROVE  Transport'
<1>1. caller.result = None /\ caller.run = None /\ world.backend = "mock"
  BY DEF Transport, Sealed, RunOver, Backed, Late
<1>2. /\ caller'.pc \in {"post", "after", "done"} /\ caller'.failure = caller.failure
      /\ caller'.consumed = caller.consumed /\ caller'.n = caller.n
      /\ caller'.run \in {caller.run, outcome} /\ caller'.result \in {caller.result, outcome}
      /\ caller'.pc = "post" => caller'.run = outcome /\ caller'.result = None /\ caller.n = Probes
      /\ caller'.pc = "after" => caller'.run = None /\ caller'.result = None /\ caller.n < Probes
                                /\ outcome = "ok"
      /\ caller'.pc = "done" => caller'.run = None /\ outcome # "ok" /\ caller'.result = outcome
      /\ world'.cancel = world.cancel /\ world'.late = world.late
      /\ world'.backend = world.backend
  <2>1. CASE caller.n = Probes /\ caller' = [caller EXCEPT !.pc = "post", !.run = outcome]
    BY <1>1, <2>1, RunEndsForms DEF TypeOK, CallerState
  <2>2. CASE /\ caller.n < Probes /\ outcome = "ok"
             /\ caller' = [caller EXCEPT !.pc = "after"]
    BY <1>1, <2>2, RunEndsForms DEF TypeOK, CallerState
  <2>3. CASE /\ outcome # "ok"
             /\ caller' = [caller EXCEPT !.pc = "done", !.result = outcome]
    BY <1>1, <2>3, RunEndsForms DEF TypeOK, CallerState
  <2> QED
    BY <2>1, <2>2, <2>3, RunEndsForms
<1>3. Untouched' /\ Account' /\ AtEof' /\ Told'
  BY <1>2, Vacuous DEF Sound, Running
<1>4. Happened(outcome)'
  BY <1>2 DEF Happened
<1>5. outcome # None
  BY Numbers
<1>6. Cause' /\ Clean' /\ Backed' /\ Sealed' /\ MoreProbes' /\ RunOver'
  BY <1>1, <1>2, <1>5
  DEF Transport, Cause, Clean, Backed, Sealed, MoreProbes, RunOver, Early, Late
<1>7. Complete'
  BY <1>1, <1>2, <1>4, Numbers DEF Complete, Happened, Results, Failures
<1>8. AnswerIsTrue'
  BY <1>1, <1>2, <1>4, Numbers DEF AnswerIsTrue, Happened, Results, Failures
<1> QED
  BY <1>3, <1>6, <1>7, <1>8 DEF Transport

LEMMA SpawnLedger ==
  ASSUME TypeOK, Processes, Transport, Spawn
  PROVE  Transport'
<1>1. caller.pc = "spawn" /\ caller.failure = None /\ caller.result = None
      /\ caller.run = None /\ world.backend = "mock"
  BY DEF Spawn, At, Transport, Clean, Sealed, Backed, Running, RunOver, Late
<1> DEFINE outcome == IF world.cancel THEN "Cancelled" ELSE "Spawn"
<1>2. CASE RunEnds(outcome) /\ UNCHANGED <<sup, proc, pipe>>
  <2>1. outcome \in Results /\ Happened(outcome) /\ outcome # "ok"
    BY DEF Happened, Results, Failures
  <2> HIDE DEF outcome
  <2> QED
    BY <1>1, <1>2, <2>1, EndsLedger
<1>3. CASE ~(RunEnds(outcome) /\ UNCHANGED <<sup, proc, pipe>>)
  <2>1. /\ caller' = [caller EXCEPT !.pc = "check", !.control = TRUE, !.outEof = FALSE,
                         !.errEof = FALSE, !.consumed = 0, !.status = None]
        /\ sup' = [NoSup EXCEPT !.pc = "setup"]
        /\ proc' = [p \in Proc |-> NoProc]
        /\ pipe' = [out |-> 0, err |-> 0, written |-> 0] /\ UNCHANGED world
    BY <1>3 DEF Spawn
  <2> HIDE DEF outcome
  <2>2. /\ caller'.pc = "check" /\ caller'.control /\ ~caller'.outEof /\ caller'.consumed = 0
        /\ caller'.status = None /\ caller'.failure = None /\ caller'.result = None
        /\ caller'.run = None
    BY <1>1, <2>1 DEF TypeOK, CallerState
  <2>3. ~sup'.stopping /\ proc'[Borg].end = "none" /\ pipe'.out = 0 /\ pipe'.written = 0
    BY <2>1, Numbers DEF NoSup, NoProc
  <2>4. Untouched' /\ Account' /\ AtEof' /\ Told'
    BY <2>2, <2>3, Numbers DEF Untouched, Account, AtEof, Told, Results
  <2>5. Cause' /\ Clean' /\ Backed' /\ Sealed' /\ MoreProbes' /\ RunOver'
    BY <1>1, <2>1, <2>2, Numbers
    DEF Cause, Clean, Backed, Sealed, MoreProbes, RunOver, Early, Late, Results, Failures
  <2>6. Complete' /\ AnswerIsTrue'
    BY <2>2, Numbers DEF Complete, Happened, AnswerIsTrue, Results, Failures
  <2> QED
    BY <2>4, <2>5, <2>6 DEF Transport
<1> QED
  BY <1>2, <1>3

LEMMA CheckLedger ==
  ASSUME TypeOK, Processes, Transport, Check
  PROVE  Transport'
<1>1. caller.pc = "check" /\ caller.result = None /\ UNCHANGED <<sup, proc, pipe, world>>
  BY DEF Check, At, Alone, Transport, Sealed
<1> DEFINE control == caller.control /\ Failure = None
<1>2. caller' = [caller EXCEPT !.pc = "out", !.failure = Failure, !.control = control]
  BY DEF Check
<1>3. /\ Failure = None => caller.failure = None
      /\ Failure = "Cancelled" => caller.failure = "Cancelled" \/ world.cancel
      /\ Failure = "Timeout" => caller.failure = "Timeout" \/ world.late
  BY Numbers DEF Failure, Results, Failures
<1>4. /\ control <=> (caller.control /\ Failure = None)
      /\ control \in BOOLEAN
  OBVIOUS
<1> HIDE DEF control
<1>5. /\ caller'.pc = "out" /\ caller'.failure = Failure /\ caller'.control = control
      /\ caller'.outEof = caller.outEof /\ caller'.consumed = caller.consumed
      /\ caller'.status = caller.status /\ caller'.result = None /\ caller'.run = caller.run
  BY <1>1, <1>2, <1>4 DEF TypeOK, CallerState
<1>6. Sound' => Sound
  BY <1>1, <1>3, <1>5 DEF Sound, Running
<1>7. Untouched' /\ Account'
  BY <1>1, <1>3, <1>4, <1>5, <1>6 DEF Transport, Untouched, Account, Sound
<1>8. AtEof' /\ Told'
  BY <1>1, <1>5, <1>6 DEF Transport, AtEof, Told, Writers, Alive
<1>9. Cause' /\ Backed'
  BY <1>1, <1>3, <1>5 DEF Transport, Cause, Backed
<1> QED
  BY <1>1, <1>5, <1>7, <1>8, <1>9, StillRunning DEF Transport, Running

LEMMA ReadOutLedger ==
  ASSUME TypeOK, Processes, Transport, ReadOut
  PROVE  Transport'
<1>1. caller.pc = "out" /\ caller.result = None /\ UNCHANGED <<sup, proc, world>>
  BY DEF ReadOut, At, Transport, Sealed
<1>2. /\ caller'.pc \in {"err", "drop"} /\ caller'.control \in {caller.control, FALSE}
      /\ caller'.failure \in {caller.failure, "OutputLimit", "Consumer", "Pipe"}
      /\ caller'.status = caller.status /\ caller'.result = None /\ caller'.run = caller.run
      /\ caller'.pc = "err" => caller'.control = caller.control
  <2>1. CASE Take
    <3>1. CASE caller' = [caller EXCEPT !.pc = "err", !.failure = "OutputLimit"]
      BY <1>1, <3>1 DEF TypeOK, CallerState
    <3>2. CASE caller' = [caller EXCEPT !.pc = "err", !.failure = "Consumer"]
      BY <1>1, <3>2 DEF TypeOK, CallerState
    <3>3. CASE caller' = [caller EXCEPT !.pc = "drop", !.control = FALSE]
      BY <1>1, <3>3 DEF TypeOK, CallerState
    <3>4. CASE caller' = [caller EXCEPT !.pc = "err", !.consumed = @ + 1]
      BY <1>1, <3>4 DEF TypeOK, CallerState
    <3> QED
      BY <2>1, <3>1, <3>2, <3>3, <3>4 DEF Take, Consume
  <2>2. CASE ~Take
    BY <1>1, <2>2, ZenonT(40) DEF ReadOut, GoTo, TypeOK, CallerState
  <2> QED
    BY <2>1, <2>2
<1>3. ASSUME Sound'
      PROVE  /\ Sound /\ caller'.control = caller.control
             /\ \/ /\ ~caller.outEof /\ caller'.outEof = caller.outEof
                   /\ caller'.consumed = caller.consumed + 1
                   /\ pipe'.out = pipe.out - 1 /\ pipe'.written = pipe.written
                \/ /\ caller'.consumed = caller.consumed /\ UNCHANGED pipe
                   /\ caller'.outEof = caller.outEof \/ (pipe.out = 0 /\ ~Writers)
  <2>1. caller'.pc = "err" /\ caller'.failure = None
    BY <1>2, <1>3 DEF Sound, Running
  <2>2. caller.failure = None
    BY <1>2, <2>1, Numbers DEF Results, Failures
  <2>3. Sound /\ caller'.control = caller.control
    BY <1>1, <1>2, <2>1, <2>2 DEF Sound, Running
  <2>4. CASE ~caller.outEof /\ pipe.out > 0 /\ Take /\ pipe' = [pipe EXCEPT !.out = @ - 1]
    <3>1. caller' = [caller EXCEPT !.pc = "err", !.consumed = @ + 1]
      <4>1. caller' # [caller EXCEPT !.pc = "err", !.failure = "OutputLimit"]
        BY <2>1, Numbers DEF TypeOK, CallerState, Results, Failures
      <4>2. caller' # [caller EXCEPT !.pc = "err", !.failure = "Consumer"]
        BY <2>1, Numbers DEF TypeOK, CallerState, Results, Failures
      <4>3. caller' # [caller EXCEPT !.pc = "drop", !.control = FALSE]
        BY <2>1 DEF TypeOK, CallerState
      <4> QED
        BY <2>4, <4>1, <4>2, <4>3 DEF Take, Consume
    <3> QED
      BY <2>3, <2>4, <3>1 DEF TypeOK, CallerState
  <2>5. CASE /\ ~caller.outEof /\ pipe.out = 0 /\ ~Writers /\ UNCHANGED pipe
             /\ caller' = [caller EXCEPT !.pc = "err", !.outEof = TRUE]
    BY <2>3, <2>5 DEF TypeOK, CallerState
  <2>6. CASE GoTo("err") /\ UNCHANGED pipe
    BY <2>3, <2>6 DEF GoTo, TypeOK, CallerState
  <2>7. CASE caller' = [caller EXCEPT !.pc = "err", !.failure = "Pipe", !.outEof = TRUE]
    BY <2>1, <2>7, Numbers DEF TypeOK, CallerState, Results, Failures
  <2> QED
    BY <2>2, <2>4, <2>5, <2>6, <2>7 DEF ReadOut
<1>4. Untouched'
  BY <1>1, <1>3 DEF Transport, Untouched
<1>5. Account'
  <2>1. ASSUME Sound' PROVE caller.consumed + pipe.out = pipe.written
    BY <1>3, <2>1 DEF Transport, Account
  <2>2. caller.consumed \in Nat /\ pipe.out \in Nat /\ pipe.written \in Nat
    BY Numbers DEF TypeOK, CallerState
  <2> QED
    BY <1>3, <2>1, <2>2 DEF Account
<1>6. AtEof'
  BY <1>1, <1>3 DEF Transport, AtEof, Writers, Alive
<1>7. Told'
  BY <1>1, <1>2, <1>3 DEF Transport, Told
<1>8. Cause' /\ Backed'
  BY <1>1, <1>2 DEF Transport, Cause, Backed
<1> QED
  BY <1>1, <1>2, <1>4, <1>5, <1>6, <1>7, <1>8, StillRunning DEF Transport, Running

LEMMA ReadErrLedger ==
  ASSUME TypeOK, Processes, Transport, ReadErr
  PROVE  Transport'
<1>1. caller.pc = "err" /\ caller.result = None /\ UNCHANGED <<sup, proc, world>>
  BY DEF ReadErr, At, Transport, Sealed
<1>2. /\ caller'.pc = "wait" /\ caller'.control = caller.control
      /\ caller'.failure \in {caller.failure, "Pipe"} /\ caller'.outEof = caller.outEof
      /\ caller'.consumed = caller.consumed
      /\ caller'.status = caller.status /\ caller'.result = None /\ caller'.run = caller.run
  BY <1>1, ZenonT(40) DEF ReadErr, GoTo, TypeOK, CallerState
<1>3. pipe'.out = pipe.out /\ pipe'.written = pipe.written
  BY DEF ReadErr, TypeOK
<1>4. Sound' => Sound
  BY <1>1, <1>2, Numbers DEF Sound, Running, Results, Failures
<1>5. Untouched' /\ Account' /\ Told'
  BY <1>1, <1>2, <1>3, <1>4 DEF Transport, Untouched, Account, Told
<1>6. AtEof'
  BY <1>1, <1>2, <1>3, <1>4 DEF Transport, AtEof, Writers, Alive
<1>7. Cause' /\ Backed'
  BY <1>1, <1>2 DEF Transport, Cause, Backed
<1> QED
  BY <1>1, <1>2, <1>5, <1>6, <1>7, StillRunning DEF Transport, Running

LEMMA DropLedger ==
  ASSUME TypeOK, Processes, Transport, Drop
  PROVE  Transport'
<1>1. /\ caller'.pc = "done" /\ caller'.failure = caller.failure /\ caller'.result = "panic"
      /\ caller'.run = caller.run /\ UNCHANGED world
  BY DEF Drop, Finish, TypeOK, CallerState
<1>2. caller.run = None
  BY DEF Drop, At, Transport, RunOver, Late
<1>3. Untouched' /\ Account' /\ AtEof' /\ Told'
  BY <1>1, Vacuous DEF Sound, Running
<1>4. Complete' /\ AnswerIsTrue'
  BY <1>1, <1>2, Numbers DEF Complete, Happened, AnswerIsTrue, Results, Failures
<1> QED
  BY <1>1, <1>2, <1>3, <1>4
  DEF Transport, Cause, Clean, Backed, Sealed, MoreProbes, RunOver, Early, Late

LEMMA WaitLedger ==
  ASSUME TypeOK, Processes, Transport, Wait
  PROVE  Transport'
<1>1. /\ caller.pc = "wait" /\ caller.result = None /\ UNCHANGED <<proc, pipe>>
      /\ world.backend = "mock"
  BY DEF Wait, At, Transport, Sealed, Backed
\* What the supervisor tells, if run has met no failure.
<1>3. ASSUME caller.failure = None
      PROVE  /\ StatusOf = "ok" => proc[Borg].end = "zero"
             /\ StatusOf = "ChildFailed" => proc[Borg].end \in {"none", "other"}
  <2>1. Sound
    BY <1>1, <1>3 DEF Sound, Running
  <2>2. CASE caller.status # None
    BY <2>1, <2>2 DEF Transport, Told, StatusOf
  <2>3. CASE caller.status = None /\ sup.pc = "exited"
    <3>1. Living = {} /\ (sup.borgOk <=> proc[Borg].st = "gone" /\ proc[Borg].end = "zero")
      BY <2>3 DEF Processes, Quiet, Knows
    <3>2. proc[Borg].st \in {"none", "gone"} /\ proc[Borg].end \in {"none", "zero", "other", "killed"}
      BY <3>1, Numbers DEF Living, TypeOK, ProcState
    <3>3. proc[Borg].end # "killed" /\ (proc[Borg].st = "none" => proc[Borg].end = "none")
      BY <2>1 DEF Transport, Untouched, Processes, Leader
    <3> QED
      BY <2>3, <3>1, <3>2, <3>3 DEF StatusOf
  <2>4. CASE caller.status = None /\ sup.pc # "exited"
    BY <2>4, Numbers DEF StatusOf, Results
  <2> QED
    BY <2>2, <2>3, <2>4
<1>4. StatusOf \in {None, "ok", "ChildFailed"} /\ (Ended => StatusOf # None)
  BY Numbers DEF StatusOf, Ended, TypeOK, CallerState, Results
<1>5. ASSUME caller.failure = None, caller.outEof
      PROVE  caller.consumed = pipe.written
  <2>1. Sound
    BY <1>1, <1>5 DEF Sound, Running
  <2>2. caller.consumed + pipe.out = pipe.written /\ pipe.out = 0
    BY <1>5, <2>1 DEF Transport, Account, AtEof
  <2> QED
    BY <2>2, Numbers DEF TypeOK, CallerState
<1>6. CASE ~Ended /\ UNCHANGED world
           /\ caller' = [caller EXCEPT !.pc = "check", !.status = StatusOf]
  <2>1. /\ caller'.pc = "check" /\ caller'.status = StatusOf /\ caller'.result = None
        /\ caller'.run = caller.run /\ caller'.failure = caller.failure
        /\ caller'.consumed = caller.consumed /\ caller'.n = caller.n
        /\ caller'.outEof = caller.outEof /\ caller'.control = caller.control
    BY <1>1, <1>4, <1>6 DEF TypeOK, CallerState
  <2>2. Sound' => Sound
    BY <1>1, <2>1 DEF Sound, Running
  <2>3. sup' = sup \/ (sup.pc = "exited" /\ sup'.pc = "none" /\ ~sup'.stopping)
    BY DEF Wait, NoSup
  <2>4. Untouched' /\ Account'
    BY <1>1, <2>1, <2>2, <2>3 DEF Transport, Untouched, Account
  <2>5. AtEof'
    BY <1>1, <2>1, <2>2, <2>3 DEF Transport, AtEof, Writers, Alive
  <2>6. Told'
    BY <1>1, <1>3, <2>1 DEF Told, Sound
  <2>7. Cause' /\ Backed'
    BY <1>1, <1>6, <2>1 DEF Transport, Cause, Backed
  <2> QED
    BY <1>1, <2>1, <2>4, <2>5, <2>6, <2>7, StillRunning DEF Transport, Running
<1>7. ASSUME NEW outcome \in Results, RunEnds(outcome),
             \/ outcome = caller.failure /\ Ended
             \/ outcome = StatusOf /\ caller.failure = None /\ Ended
             \/ outcome = "Pipe" /\ sup.pc = "exited"
      PROVE  Transport'
  <2>1. Happened(outcome)
    <3>1. caller.failure \in {None, "Cancelled", "Timeout", "OutputLimit", "Consumer", "Pipe"}
      BY DEF TypeOK, CallerState, Failures
    <3>2. CASE outcome = StatusOf /\ caller.failure = None /\ Ended
      BY <1>3, <1>4, <1>5, <3>2, Numbers DEF Ended, Happened
    <3>3. CASE outcome = caller.failure
      BY <3>1, <3>3, Numbers DEF Happened, Transport, Cause
    <3>4. CASE outcome = "Pipe"
      BY <3>4 DEF Happened
    <3> QED
      BY <1>7, <3>2, <3>3, <3>4
  <2>2. outcome = "ok" => caller.failure = None
    BY <1>7, Numbers DEF TypeOK, CallerState, Results, Failures
  <2> QED
    BY <1>1, <1>7, <2>1, <2>2, EndsLedger
<1> QED
  BY <1>6, <1>7, WaitForms

-----------------------------------------------------------------------------
(* What has been in order. *)

\* A step of the caller within a run.
LEMMA RunTrusts ==
  ASSUME Trusted, OkOnlyOnTrusted, UNCHANGED world, caller.pc \in Running \union {"spawn"},
         caller'.pc \in Running, caller'.run = caller.run, caller'.n = caller.n,
         caller'.result = caller.result
  PROVE  Trusted' /\ OkOnlyOnTrusted'
<1>1. world.before = Things
  BY DEF Trusted, Running
<1>2. Trusted'
  BY <1>1 DEF Trusted, Started, Running
<1> QED
  BY <1>1, <1>2 DEF OkOnlyOnTrusted

\* The end of a run: what is in order then, is in order since.
LEMMA EndTrusts ==
  ASSUME TypeOK, Transport, Trusted, OkOnlyOnTrusted, caller.pc \in Running \union {"spawn"},
         NEW outcome \in Results, RunEnds(outcome)
  PROVE  Trusted' /\ OkOnlyOnTrusted'
<1>1. world.before = Things /\ caller.run = None /\ caller.result = None
  BY DEF Trusted, Running, Transport, RunOver, Sealed, Late
<1>2. /\ world'.before = Things /\ world'.trust = world.trust
      /\ caller'.pc \in {"post", "after", "done"}
      /\ caller'.result # "ok" /\ caller'.run # None => world'.since = world.since \union world.trust
  <2>1. CASE /\ caller' = [caller EXCEPT !.pc = "post", !.run = outcome]
             /\ world'.since = world.since \union world.trust
    BY <1>1, <2>1, RunEndsForms DEF TypeOK, CallerState
  <2>2. CASE UNCHANGED world /\ caller' = [caller EXCEPT !.pc = "after"]
    BY <1>1, <2>2, RunEndsForms DEF TypeOK, CallerState
  <2>3. CASE /\ UNCHANGED world /\ outcome # "ok"
             /\ caller' = [caller EXCEPT !.pc = "done", !.result = outcome]
    BY <1>1, <2>3, RunEndsForms DEF TypeOK, CallerState
  <2> QED
    BY <2>1, <2>2, <2>3, RunEndsForms
<1>3. caller'.result # "ok"
  <2>1. CASE caller' = [caller EXCEPT !.pc = "post", !.run = outcome]
    BY <1>1, <2>1, Numbers DEF TypeOK, CallerState, Results
  <2>2. CASE caller' = [caller EXCEPT !.pc = "after"]
    BY <1>1, <2>2, Numbers DEF TypeOK, CallerState, Results
  <2>3. CASE /\ outcome # "ok"
             /\ caller' = [caller EXCEPT !.pc = "done", !.result = outcome]
    BY <2>3 DEF TypeOK, CallerState
  <2> QED
    BY <2>1, <2>2, <2>3, RunEndsForms
<1>4. world.trust \subseteq Things
  BY DEF TypeOK
<1> QED
  BY <1>2, <1>3, <1>4 DEF Trusted, OkOnlyOnTrusted, Started

\* The looks, one after another.
LEMMA ChecksTrust ==
  ASSUME TypeOK, Transport, Trusted, OkOnlyOnTrusted, Checks
  PROVE  Trusted' /\ OkOnlyOnTrusted'
<1>1. UNCHANGED world /\ RunOver
  BY ChecksForms DEF Transport
<1>2. /\ caller.pc \in Early => caller.run = None
      /\ caller.pc \in Late => caller.run # None /\ world.before = Things
      /\ caller.pc \in Early \ {"prepare", "inspect"} => world.before = Things
      /\ caller.result = None
  BY <1>1, ChecksSteps DEF RunOver, Early, Late, Trusted, Transport, Sealed
<1>3. ~Started => world.trust \subseteq world.before
  BY DEF Trusted
<1>4. caller'.run = caller.run /\ caller'.pc \notin Running
  BY <1>1, ChecksSteps DEF Early, Late, Running
<1>5. Started' <=> caller.run # None
  BY <1>4 DEF Started
<1>6. Started <=> caller.run # None
  BY <1>1, ChecksSteps DEF Started, Early, Late, Running
<1>7. /\ ~Started' => world.trust \subseteq world.before
      /\ caller'.run # None => world.trust \subseteq world.since
      /\ Started' => world.before = Things
  BY <1>4, <1>5, <1>6 DEF Trusted, OkOnlyOnTrusted
<1>8. caller'.pc = "inspect" => Things \ caller'.left \subseteq world.before
  <2>1. CASE Prepare
    <3>1. CASE Stale = None
      <4>1. caller'.left = Parts /\ caller.pc = "prepare"
        BY <2>1, <3>1 DEF Prepare, At, TypeOK, CallerState
      <4>2. Snapshot \in world.trust /\ world.trust \subseteq world.before
        BY <1>2, <1>3, <1>6, <3>1, <4>1, StaleErrors DEF Early
      <4> QED
        BY <4>1, <4>2 DEF Things
    <3>2. CASE Stale # None
      BY <2>1, <3>2 DEF Prepare, Finish, TypeOK, CallerState
    <3> QED
      BY <3>1, <3>2
  <2>2. ASSUME NEW x \in Parts, InspectPart(x), caller'.pc = "inspect"
        PROVE  Things \ caller'.left \subseteq world.before
    <3>1. caller' = [caller EXCEPT !.left = @ \ {x}] /\ x \in world.trust
      <4>1. ~Refuse("UnsafeState")
        BY <2>2 DEF Refuse, Finish, TypeOK, CallerState
      <4> QED
        BY <2>2, <4>1 DEF InspectPart
    <3>2. caller.pc = "inspect" /\ caller'.left = caller.left \ {x}
      BY <2>2, <3>1 DEF TypeOK, CallerState
    <3>3. Things \ caller.left \subseteq world.before /\ x \in world.before
      BY <1>2, <1>3, <1>6, <3>1, <3>2 DEF Trusted, Early
    <3> QED
      BY <3>2, <3>3
  <2>3. CASE ~Prepare /\ ~(\E x \in Parts : InspectPart(x))
    <3>1. caller'.pc # "inspect"
      <4>1. CASE Inspected \/ Gate \/ Remaining
        BY <4>1 DEF Inspected, Gate, Remaining, GoTo, Finish, TypeOK, CallerState
      <4>2. CASE After \/ Post \/ Return
        BY <4>2, ZenonT(40) DEF After, Post, Return, Refuse, Finish, TypeOK, CallerState
      <4> QED
        BY <2>3, <4>1, <4>2 DEF Checks
    <3> QED
      BY <3>1
  <2> QED
    BY <2>1, <2>2, <2>3
<1>9. caller'.pc = "inspect again" => Things \ caller'.left \subseteq world.since
  <2>1. CASE Post
    <3>1. CASE Stale = None
      <4>1. caller'.left = Parts /\ caller.pc = "post"
        BY <2>1, <3>1 DEF Post, At, TypeOK, CallerState
      <4>2. Snapshot \in world.trust /\ world.trust \subseteq world.since
        BY <1>2, <3>1, <4>1, StaleErrors DEF Late, Trusted
      <4> QED
        BY <4>1, <4>2 DEF Things
    <3>2. CASE Stale # None
      BY <2>1, <3>2 DEF Post, Refuse, Finish, TypeOK, CallerState
    <3> QED
      BY <3>1, <3>2
  <2>2. ASSUME NEW x \in Parts, InspectPart(x), caller'.pc = "inspect again"
        PROVE  Things \ caller'.left \subseteq world.since
    <3>1. caller' = [caller EXCEPT !.left = @ \ {x}] /\ x \in world.trust
      <4>1. ~Refuse("UnsafeState")
        BY <2>2 DEF Refuse, Finish, TypeOK, CallerState
      <4> QED
        BY <2>2, <4>1 DEF InspectPart
    <3>2. caller.pc = "inspect again" /\ caller'.left = caller.left \ {x}
      BY <2>2, <3>1 DEF TypeOK, CallerState
    <3>3. Things \ caller.left \subseteq world.since /\ x \in world.since
      BY <1>2, <3>1, <3>2 DEF Trusted, Late
    <3> QED
      BY <3>2, <3>3
  <2>3. CASE ~Post /\ ~(\E x \in Parts : InspectPart(x))
    <3>1. caller'.pc # "inspect again"
      <4>1. CASE Inspected \/ Gate \/ Remaining
        BY <4>1 DEF Inspected, Gate, Remaining, GoTo, Finish, TypeOK, CallerState
      <4>2. CASE After \/ Prepare \/ Return
        BY <4>2, ZenonT(40) DEF After, Prepare, Return, Refuse, Finish, TypeOK, CallerState
      <4> QED
        BY <2>3, <4>1, <4>2 DEF Checks
    <3> QED
      BY <3>1
  <2> QED
    BY <2>1, <2>2, <2>3
<1>10. caller'.pc \notin {"prepare", "inspect", "done"} => world.before = Things
  <2>1. CASE Inspected
    <3>1. caller.left = {} /\ caller.pc = "inspect"
      BY <2>1 DEF Inspected, At
    <3> QED
      BY <3>1 DEF Trusted, TypeOK
  <2>2. CASE ~Inspected /\ caller.pc \in {"prepare", "inspect"}
    <3>1. caller'.pc \in {"inspect", "done"}
      <4>1. CASE Prepare
        BY <4>1 DEF Prepare, Finish, TypeOK, CallerState
      <4>2. ASSUME NEW x \in Parts, InspectPart(x) PROVE caller'.pc \in {"inspect", "done"}
        BY <2>2, <4>2 DEF InspectPart, Refuse, Finish, TypeOK, CallerState
      <4> QED
        BY <2>2, <4>1, <4>2 DEF Checks, Gate, Remaining, After, Post, Return, At
    <3> QED
      BY <3>1
  <2>3. CASE caller.pc \notin {"prepare", "inspect"}
    BY <1>1, <1>2, <2>3, ChecksSteps
  <2> QED
    BY <2>1, <2>2, <2>3
<1>11. caller'.result = "ok" => world.since = Things
  <2>1. SUFFICES ASSUME caller'.result = "ok" PROVE world.since = Things
    OBVIOUS
  <2>2. Return
    <3>1. caller'.pc = "done"
      BY <1>1, <1>2, <2>1, ChecksSteps, Numbers DEF Results
    <3> QED
      BY <1>1, <2>1, <3>1, ChecksSteps
  <2>3. caller.pc = "inspect again" /\ caller.left = {}
    BY <2>2 DEF Return, At
  <2> QED
    BY <2>3 DEF Trusted, TypeOK
<1> QED
  BY <1>1, <1>7, <1>8, <1>9, <1>10, <1>11 DEF Trusted, OkOnlyOnTrusted

LEMMA TrustKept ==
  ASSUME TypeOK, Transport, Trusted, OkOnlyOnTrusted, [Next]_vars
  PROVE  Trusted' /\ OkOnlyOnTrusted'
<1>1. CASE UNCHANGED <<caller, world>>
  <2>1. Started' <=> Started
    BY <1>1 DEF Started
  <2> QED
    BY <1>1, <2>1 DEF Trusted, OkOnlyOnTrusted
<1>2. CASE Child \/ Supervise \/ UNCHANGED vars
  <2>1. UNCHANGED <<caller, world>>
    BY <1>2 DEF Child, Fork, Exit, ParentWaits, Escape, WriteOut, WriteErr, Others, Supervise,
                Setup, Reap, Reaped, Signal, vars
  <2> QED
    BY <1>1, <2>1
<1>3. CASE Cancel \/ Expire \/ Spoil
  <2>1. /\ UNCHANGED caller /\ world'.trust \subseteq world.trust
        /\ world'.before = world.before /\ world'.since = world.since
    BY <1>3 DEF Cancel, Expire, Spoil, TypeOK
  <2>2. Started' <=> Started
    BY <2>1 DEF Started
  <2> QED
    BY <2>1, <2>2 DEF Trusted, OkOnlyOnTrusted
<1>4. CASE Mend
  <2>1. /\ UNCHANGED caller /\ world'.trust = Things
        /\ world'.before = IF Started THEN world.before ELSE Things
        /\ world'.since = IF caller.run = None THEN world.since ELSE Things
    BY <1>4 DEF Mend, TypeOK
  <2>2. Started' <=> Started
    BY <2>1 DEF Started
  <2>3. caller.result = None
    BY <1>4 DEF Mend, At, Transport, Sealed
  <2>4. caller.pc = "inspect again" => caller.run # None
    BY DEF Transport, RunOver, Late
  <2>5. Trusted'
    BY <2>1, <2>2, <2>4 DEF Trusted, OkOnlyOnTrusted
  <2> QED
    BY <2>1, <2>2, <2>3, <2>5, Numbers DEF OkOnlyOnTrusted, Results
<1>5. CASE Call
  <2>1. CASE Spawn
    <3>1. CASE RunEnds(IF world.cancel THEN "Cancelled" ELSE "Spawn")
      <4>1. (IF world.cancel THEN "Cancelled" ELSE "Spawn") \in Results
        BY DEF Results, Failures
      <4> QED
        BY <2>1, <3>1, <4>1, EndTrusts DEF Spawn, At
    <3>2. CASE ~RunEnds(IF world.cancel THEN "Cancelled" ELSE "Spawn")
      <4>1. /\ UNCHANGED world /\ caller.pc = "spawn" /\ caller'.pc = "check"
            /\ caller'.run = caller.run /\ caller'.n = caller.n
            /\ caller'.result = caller.result
        BY <2>1, <3>2 DEF Spawn, At, TypeOK, CallerState
      <4> QED
        BY <4>1, RunTrusts DEF Running
    <3> QED
      BY <3>1, <3>2
  <2>2. CASE Check \/ ReadOut \/ ReadErr
    <3>1. /\ UNCHANGED world /\ caller.pc \in Running /\ caller'.pc \in Running
          /\ caller'.run = caller.run /\ caller'.n = caller.n
          /\ caller'.result = caller.result
      BY <2>2, ZenonT(40) DEF Check, ReadOut, ReadErr, Take, Consume, GoTo, At, Alone, Running,
                              TypeOK, CallerState
    <3> QED
      BY <3>1, RunTrusts
  <2>3. CASE Wait
    <3>1. caller.pc \in Running
      BY <2>3 DEF Wait, At, Running
    <3>2. CASE UNCHANGED world /\ caller' = [caller EXCEPT !.pc = "check", !.status = StatusOf]
      <4>1. /\ caller'.pc \in Running /\ caller'.run = caller.run /\ caller'.n = caller.n
            /\ caller'.result = caller.result
        BY <3>2 DEF Running, TypeOK, CallerState
      <4> QED
        BY <3>1, <3>2, <4>1, RunTrusts
    <3>3. ASSUME NEW outcome \in Results, RunEnds(outcome)
          PROVE  Trusted' /\ OkOnlyOnTrusted'
      BY <3>1, <3>3, EndTrusts
    <3> QED
      BY <2>3, <3>2, <3>3, WaitForms
  <2>4. CASE Drop
    <3>1. /\ UNCHANGED world /\ caller.pc = "drop" /\ caller'.pc = "done"
          /\ caller'.run = caller.run /\ caller'.result = "panic"
      BY <2>4 DEF Drop, At, Finish, TypeOK, CallerState
    <3>2. world.before = Things /\ caller.run = None /\ world.trust \subseteq Things
      BY <3>1 DEF Trusted, Transport, RunOver, Late, TypeOK
    <3> QED
      BY <3>1, <3>2 DEF Trusted, OkOnlyOnTrusted
  <2> QED
    BY <1>5, <2>1, <2>2, <2>3, <2>4, ChecksTrust DEF Call, Checks
<1> QED
  BY <1>2, <1>3, <1>4, <1>5 DEF Next

-----------------------------------------------------------------------------
(* The theorems. *)

LEMMA LedgerKept ==
  ASSUME TypeOK, Processes, Transport, [Next]_vars
  PROVE  Transport'
<1>1. CASE Cancel \/ Expire \/ Spoil \/ Mend
  <2>1. /\ UNCHANGED <<caller, sup, proc, pipe>> /\ caller.pc # "done"
        /\ world.cancel => world'.cancel
        /\ world.late => world'.late
        /\ world'.backend = world.backend
    BY <1>1 DEF Cancel, Expire, Spoil, Mend, At, TypeOK
  <2>2. caller.result = None
    BY <2>1 DEF Transport, Sealed
  <2>3. Untouched' /\ Account' /\ AtEof' /\ Told' /\ MoreProbes' /\ RunOver' /\ Sealed' /\ Clean'
    BY <2>1 DEF Transport, Untouched, Account, AtEof, Told, Sound, MoreProbes, RunOver, Sealed,
                Clean, Writers, Alive
  <2>4. Cause' /\ Backed' /\ AnswerIsTrue'
    BY <2>1, <2>2, Numbers DEF Transport, Cause, Backed, AnswerIsTrue, Results, Failures
  <2>5. Complete'
    BY <2>1 DEF Transport, Complete, Happened
  <2> QED
    BY <2>3, <2>4, <2>5 DEF Transport
<1>2. CASE UNCHANGED vars
  BY <1>2 DEF vars, Transport, Untouched, Account, AtEof, Told, Sound, Cause, Clean, Backed,
              Sealed, MoreProbes, RunOver, Complete, Happened, AnswerIsTrue, Writers, Alive
<1> QED
  BY <1>1, <1>2, ChildLedger, SuperviseLedger, ChecksLedger, SpawnLedger, CheckLedger,
     ReadOutLedger, ReadErrLedger, WaitLedger, DropLedger DEF Next, Call, Checks

LEMMA InitHolds == Init => RunInv
<1> SUFFICES ASSUME Init PROVE RunInv
  OBVIOUS
<1>1. TypeOK
  BY InitTyped
<1>2. /\ caller.pc = "prepare" /\ caller.failure = None /\ caller.status = None
      /\ caller.result = None /\ caller.run = None /\ sup.pc = "none"
      /\ world.trust = world.before
  BY DEF Init, NoSup
<1>3. \A p \in Proc : proc[p].st = "none" /\ proc[p].parent = Sup /\ proc[p].end = "none"
  BY DEF Init, NoProc
<1>4. Living = {}
  BY <1>3 DEF Living
<1>5. Processes
  BY <1>2, <1>3, <1>4, Numbers
  DEF Processes, ParentsLive, Rooted, Fresh, Quiet, Idle, Waited, Leader, Knows
<1>6. Transport
  BY <1>2, Numbers
  DEF Transport, Untouched, Account, AtEof, Told, Sound, Running, Cause, Clean, Backed, Sealed,
      MoreProbes, RunOver, Early, Late, Complete, Happened, AnswerIsTrue, Results, Failures
<1>7. Trusted /\ OkOnlyOnTrusted
  BY <1>2, Numbers DEF Trusted, OkOnlyOnTrusted, Started, Running, Results
<1> QED
  BY <1>1, <1>5, <1>6, <1>7 DEF RunInv

\* RunInv is an invariant of an execution, whatever Borg and its descendants do
\* and however many processes, probes and chunks there are.
THEOREM RunInvariant == Spec => []RunInv
<1>1. RunInv /\ [Next]_vars => RunInv'
  BY TypesKept, TreeKept, LedgerKept, TrustKept DEF RunInv, Transport
<1> QED
  BY <1>1, InitHolds, PTL DEF Spec

\* The variables hold what the code can put there; the callback never sees more
\* than the output limit.
THEOREM RunTypes == Spec => []TypeOK
<1>1. RunInv => TypeOK
  BY DEF RunInv
<1> QED
  BY <1>1, RunInvariant, PTL

\* run (process.rs) returns or unwinds only when the supervisor, Borg and all
\* that Borg started are dead and waited for, also what left Borg's group.
THEOREM RunsLeaveNothing == Spec => []NothingOutlives
<1>1. RunInv => NothingOutlives
  BY DEF RunInv, Processes, Idle, Quiet, NothingOutlives
<1> QED
  BY <1>1, RunInvariant, PTL

\* The result of execute (runtime.rs) says what happened to Borg and to its
\* output.
THEOREM RunsTellTheTruth == Spec => []AnswerIsTrue
<1>1. RunInv => AnswerIsTrue
  BY DEF RunInv, Transport
<1> QED
  BY <1>1, RunInvariant, PTL

\* The operation's Borg runs only after each thing was in order, and ok is
\* answered only after each was in order again since Borg ended: execute
\* (runtime.rs) and validate_source (state.rs), one look at a time.
THEOREM RunsTrustNothingStale == Spec => []OkOnlyOnTrusted
<1>1. RunInv => OkOnlyOnTrusted
  BY DEF RunInv
<1> QED
  BY <1>1, RunInvariant, PTL
=============================================================================
