------------------------------ MODULE BorgRun ------------------------------
(***************************************************************************)
(* One execution of a Borg operation (src/core/borg/runtime.rs) and the    *)
(* supervised processes under it (src/core/borg/process.rs): the caller,   *)
(* which reads the pipes and watches the deadline; the supervisor, a       *)
(* subreaper in a session of its own; Borg itself, which leads a process   *)
(* group; and whatever Borg starts.  Nothing is assumed of Borg and its    *)
(* descendants: they may ignore SIGTERM, write without end or never exit.  *)
(***************************************************************************)
EXTENDS Naturals

CONSTANTS
  Borg,      \* the leader of the process group
  Kid,       \* processes that may be started below it
  Sup,       \* the supervisor, as the parent of a process
  None,      \* no failure, no status
  Escapers,  \* processes that may leave the group
  Probes,    \* number of runs that check Borg's profile before the operation
  Limit,     \* output limit, in chunks
  Cap,       \* capacity of a pipe, in chunks
  Grace,     \* signals sent as SIGTERM before SIGKILL
  MaxWritten,\* bound on the chunks written to stdout in one run
  Backends,  \* which backends the snapshot may come from
  Snapshot,  \* the pinned source
  Parts,     \* what validate_source looks at, one after another
  Fragile    \* things that may go out of order

Proc == {Borg} \union Kid
Things == {Snapshot} \union Parts

ASSUME BorgAssumption ==
  /\ Probes \in Nat /\ Limit \in Nat /\ MaxWritten \in Nat /\ Grace \in Nat
  /\ Cap \in Nat \ {0}
  /\ Borg \notin Kid /\ Sup \notin Proc
  /\ Escapers \subseteq Proc
  /\ Backends \subseteq {"production", "mock"}
  /\ Snapshot \notin Parts /\ Fragile \subseteq Things

\* What makes run give up, and the other errors.
Failures == {"Cancelled", "Timeout", "OutputLimit", "Consumer", "Pipe"}
Results == Failures \union
  {"UnsupportedBackend", "Validation", "UnsafeState", "Spawn", "UnsupportedBorg",
   "ChildFailed", "ok", "panic"}
ASSUME NotAnError == None \notin Results

VARIABLES
  caller,  \* Runtime::execute and process::run
  sup,     \* the supervisor
  proc,    \* Borg and its descendants
  pipe,    \* chunks in stdout and stderr, and all that was written to stdout
  world    \* cancellation, the deadline, what validation would find, and has
           \* been in order before the operation's Borg and since its end

vars == <<caller, sup, proc, pipe, world>>

-----------------------------------------------------------------------------
(***************************************************************************)
(* Borg and its descendants.  A process that ends is a zombie until its    *)
(* parent has waited for it; its children pass to the subreaper.           *)
(***************************************************************************)
Alive == {p \in Proc : proc[p].st = "alive"}
Living == {p \in Proc : proc[p].st \in {"alive", "zombie"}}
Children == {p \in Living : proc[p].parent = Sup}
Group == {p \in Alive : proc[p].grouped}

NoProc == [st |-> "none", parent |-> Sup, grouped |-> TRUE, end |-> "none"]

\* Only how Borg ended is of interest to anyone.
Died(dead, how) ==
  [p \in Proc |->
     [proc[p] EXCEPT !.st = IF p \in dead THEN "zombie" ELSE @,
                     !.end = IF p \in dead \intersect {Borg} THEN how ELSE @,
                     !.parent = IF @ \in dead THEN Sup ELSE @]]

WaitedFor(p) == [proc EXCEPT ![p] = [NoProc EXCEPT !.st = "gone", !.end = proc[p].end]]

Others == <<caller, sup, world>>

Fork(p, q) ==
  /\ p \in Alive /\ proc[q].st = "none"
  /\ proc' = [proc EXCEPT ![q] = [NoProc EXCEPT !.st = "alive", !.parent = p,
                                                 !.grouped = proc[p].grouped]]
  /\ UNCHANGED <<Others, pipe>>

Exit(p) ==
  /\ p \in Alive
  /\ \E how \in {"zero", "other"} : proc' = Died({p}, how)
  /\ UNCHANGED <<Others, pipe>>

ParentWaits(p) ==
  /\ proc[p].st = "zombie" /\ proc[p].parent \in Alive
  /\ proc' = WaitedFor(p)
  /\ UNCHANGED <<Others, pipe>>

\* setpgid or setsid.
Escape(p) ==
  /\ p \in Alive \intersect Escapers /\ proc[p].grouped
  /\ proc' = [proc EXCEPT ![p].grouped = FALSE]
  /\ UNCHANGED <<Others, pipe>>

\* A write waits while the pipe is full.
WriteOut(p) ==
  /\ p \in Alive /\ pipe.out < Cap /\ pipe.written < MaxWritten
  /\ pipe' = [pipe EXCEPT !.out = @ + 1, !.written = @ + 1]
  /\ UNCHANGED <<Others, proc>>

WriteErr(p) ==
  /\ p \in Alive /\ pipe.err < Cap
  /\ pipe' = [pipe EXCEPT !.err = @ + 1]
  /\ UNCHANGED <<Others, proc>>

Child ==
  \E p \in Proc : \/ \E q \in Kid : Fork(p, q)
                  \/ Exit(p) \/ ParentWaits(p) \/ Escape(p) \/ WriteOut(p) \/ WriteErr(p)

-----------------------------------------------------------------------------
(***************************************************************************)
(* supervise.                                                              *)
(***************************************************************************)
NoSup == [pc |-> "none", borgOk |-> FALSE, stopping |-> FALSE, ticks |-> 0]

\* Descriptors, setsid, subreaper and fork; any of them may fail.
Setup ==
  /\ sup.pc = "setup"
  /\ \/ /\ sup' = [sup EXCEPT !.pc = "exited"]
        /\ UNCHANGED proc
     \/ /\ sup' = [sup EXCEPT !.pc = "reap"]
        /\ proc' = [proc EXCEPT ![Borg].st = "alive"]
  /\ UNCHANGED <<caller, pipe, world>>

\* waitpid(-1, WNOHANG) found a process.
Reap(p) ==
  /\ sup.pc = "reap" /\ p \in Children /\ proc[p].st = "zombie"
  /\ proc' = WaitedFor(p)
  /\ sup' = IF p = Borg THEN [sup EXCEPT !.borgOk = proc[p].end = "zero", !.stopping = TRUE]
            ELSE sup
  /\ UNCHANGED <<caller, pipe, world>>

\* Faulty variant: the supervisor leaves with Borg.
NoChildrenButBorg == proc[Borg].st = "gone"

\* ECHILD.
NoChildren == Children = {}

\* waitpid found nothing: leave, or look at the control pipe.
Reaped ==
  /\ sup.pc = "reap" /\ \A p \in Children : proc[p].st # "zombie"
  /\ sup' = [sup EXCEPT !.pc = IF NoChildren THEN "exited" ELSE "signal"]
  /\ UNCHANGED <<caller, proc, pipe, world>>

\* Whom kill(-leader) ends: with SIGTERM those that do not ignore it.
Killed(dead) == dead \subseteq Group /\ (sup.ticks >= Grace => dead = Group)

\* The control pipe is closed when the caller has given up.
Signal ==
  /\ sup.pc = "signal"
  /\ LET stopping == sup.stopping \/ ~caller.control
     IN /\ sup' = [sup EXCEPT !.pc = "reap", !.stopping = stopping,
                     !.ticks = IF stopping /\ @ < Grace THEN @ + 1 ELSE @]
        /\ IF stopping THEN \E dead \in SUBSET Proc : Killed(dead) /\ proc' = Died(dead, "killed")
           ELSE UNCHANGED proc
  /\ UNCHANGED <<caller, pipe, world>>

Supervise == Setup \/ (\E p \in Proc : Reap(p)) \/ Reaped \/ Signal

-----------------------------------------------------------------------------
(***************************************************************************)
(* The caller.  Its deadline is one for all runs (remaining).              *)
(***************************************************************************)
Running == {"check", "out", "err", "wait", "drop"}
CallerPC == Running \union
  {"prepare", "inspect", "gate", "time", "spawn", "after", "post", "inspect again", "done"}
At(pc) == caller.pc = pc
GoTo(pc) == caller' = [caller EXCEPT !.pc = pc]
Finish(result) == caller' = [caller EXCEPT !.pc = "done", !.result = result]
Alone == UNCHANGED <<sup, proc, pipe, world>>

\* The error of the operation's run goes before one of the checks after it.
Refuse(error) == Finish(IF caller.run \in {None, "ok"} THEN error ELSE caller.run)

\* revalidate.
Stale ==
  IF world.backend = "production" THEN "UnsupportedBackend"
  ELSE IF Snapshot \notin world.trust THEN "Validation" ELSE None

\* revalidate and child_policy_ready, which asks for the backend once more.
Prepare ==
  /\ At("prepare")
  /\ IF Stale # None THEN Finish(Stale)
     ELSE caller' = [caller EXCEPT !.pc = "inspect", !.left = Parts]
  /\ Alone

\* validate_source: a walk, which looks at one part at a time.
InspectPart(x) ==
  /\ caller.pc \in {"inspect", "inspect again"} /\ x \in caller.left
  /\ IF x \in world.trust THEN caller' = [caller EXCEPT !.left = @ \ {x}]
     ELSE Refuse("UnsafeState")
  /\ Alone

Inspected == At("inspect") /\ caller.left = {} /\ GoTo("gate") /\ Alone

\* Before each run: revalidate, then the time that is left.
Gate ==
  /\ At("gate") /\ (IF Stale # None THEN Finish(Stale) ELSE GoTo("time")) /\ Alone

Remaining ==
  /\ At("time") /\ (IF world.late THEN Finish("Timeout") ELSE GoTo("spawn")) /\ Alone

\* The end of a run: of a probe with an error, that of the execution; the
\* operation's is kept for after the last checks.
RunEnds(outcome) ==
  IF caller.n = Probes
  THEN /\ caller' = [caller EXCEPT !.pc = "post", !.run = outcome]
       /\ world' = [world EXCEPT !.since = @ \union world.trust]
  ELSE /\ IF outcome = "ok" THEN GoTo("after") ELSE Finish(outcome)
       /\ UNCHANGED world

\* run up to the fork of the supervisor.
Spawn ==
  /\ At("spawn")
  /\ \/ /\ RunEnds(IF world.cancel THEN "Cancelled" ELSE "Spawn")
        /\ UNCHANGED <<sup, proc, pipe>>
     \/ /\ ~world.cancel /\ UNCHANGED world
        /\ caller' = [caller EXCEPT !.pc = "check", !.control = TRUE, !.outEof = FALSE,
                        !.errEof = FALSE, !.consumed = 0, !.status = None]
        /\ sup' = [NoSup EXCEPT !.pc = "setup"]
        /\ proc' = [p \in Proc |-> NoProc]
        /\ pipe' = [out |-> 0, err |-> 0, written |-> 0]

\* Cancellation before the deadline; either closes the control pipe.
Failure ==
  IF caller.failure # None THEN caller.failure
  ELSE IF world.cancel THEN "Cancelled" ELSE IF world.late THEN "Timeout" ELSE None
Check ==
  /\ At("check")
  /\ caller' = [caller EXCEPT !.pc = "out", !.failure = Failure,
                  !.control = @ /\ Failure = None]
  /\ Alone

\* Faulty variant: run keeps its own write ends.
WritersKept == TRUE

\* The write ends of the pipes are held by the supervisor and by every
\* process below it.
Writers == sup.pc \in {"setup", "reap", "signal"} \/ Alive # {}

\* The callback: it takes the chunk, or, once it is the caller's own and not a
\* probe's, refuses it or panics, and unwinding drops the supervisor.
Consume ==
  \/ caller' = [caller EXCEPT !.pc = "err", !.consumed = @ + 1]
  \/ caller.n = Probes /\ caller' = [caller EXCEPT !.pc = "err", !.failure = "Consumer"]
  \/ caller.n = Probes /\ caller' = [caller EXCEPT !.pc = "drop", !.control = FALSE]

\* Faulty variant: the limit is not looked at.
TakeAll == Consume

\* A chunk of stdout, which may be over the limit.
Take ==
  IF caller.consumed + 1 > Limit
  THEN caller' = [caller EXCEPT !.pc = "err", !.failure = "OutputLimit"]
  ELSE Consume

ReadOut ==
  /\ At("out")
  /\ \/ /\ ~caller.outEof /\ pipe.out > 0
        /\ IF caller.failure = None THEN Take ELSE GoTo("err")
        /\ pipe' = [pipe EXCEPT !.out = @ - 1]
     \/ /\ ~caller.outEof /\ pipe.out = 0 /\ ~Writers
        /\ caller' = [caller EXCEPT !.pc = "err", !.outEof = TRUE]
        /\ UNCHANGED pipe
     \/ /\ caller.outEof \/ (pipe.out = 0 /\ Writers)
        /\ GoTo("err") /\ UNCHANGED pipe
     \/ /\ ~caller.outEof
        /\ caller' = [caller EXCEPT !.pc = "err", !.failure = "Pipe", !.outEof = TRUE]
        /\ UNCHANGED pipe
  /\ UNCHANGED <<sup, proc, world>>

\* stderr is drained and forgotten.
ReadErr ==
  /\ At("err")
  /\ \/ /\ ~caller.errEof /\ pipe.err > 0
        /\ GoTo("wait") /\ pipe' = [pipe EXCEPT !.err = @ - 1]
     \/ /\ ~caller.errEof /\ pipe.err = 0 /\ ~Writers
        /\ caller' = [caller EXCEPT !.pc = "wait", !.errEof = TRUE]
        /\ UNCHANGED pipe
     \/ /\ caller.errEof \/ (pipe.err = 0 /\ Writers)
        /\ GoTo("wait") /\ UNCHANGED pipe
     \/ /\ ~caller.errEof
        /\ caller' = [caller EXCEPT !.pc = "wait", !.failure = "Pipe", !.errEof = TRUE]
        /\ UNCHANGED pipe
  /\ UNCHANGED <<sup, proc, world>>

\* Faulty variant: what is left in the pipes is not awaited.
EndedNow == caller.status # None \/ sup.pc = "exited"

\* The supervisor has been waited for and both streams are at their end.
Ended == (caller.status # None \/ sup.pc = "exited") /\ caller.outEof /\ caller.errEof

StatusOf == IF caller.status # None THEN caller.status
            ELSE IF sup.pc # "exited" THEN None
            ELSE IF sup.borgOk THEN "ok" ELSE "ChildFailed"

\* poll: the supervisor's status, and the end of the run; waitpid itself
\* fails if someone else has waited for the supervisor.
Wait ==
  /\ At("wait")
  /\ \/ Ended /\ RunEnds(IF caller.failure # None THEN caller.failure ELSE StatusOf)
     \/ /\ ~Ended /\ UNCHANGED world
        /\ caller' = [caller EXCEPT !.pc = "check", !.status = StatusOf]
     \/ sup.pc = "exited" /\ RunEnds("Pipe")
  /\ sup' = IF sup.pc = "exited" THEN NoSup ELSE sup
  /\ UNCHANGED <<proc, pipe>>

\* Drop of the supervisor: a waitpid that blocks.
Drop ==
  /\ At("drop") /\ sup.pc \in {"exited", "none"}
  /\ Finish("panic") /\ sup' = NoSup
  /\ UNCHANGED <<proc, pipe, world>>

\* After a probe: revalidate, and what Borg said must be as expected.
After ==
  /\ At("after")
  /\ IF Stale # None THEN Finish(Stale)
     ELSE \/ caller' = [caller EXCEPT !.pc = "gate", !.n = @ + 1]
          \/ Finish("UnsupportedBorg")
  /\ Alone

\* Faulty variant: revalidate is all that is done after the operation.
PostRevalidates == At("post") /\ Refuse(IF Stale # None THEN Stale ELSE "ok") /\ Alone

\* After the operation's run, whatever became of it: revalidate, and
\* validate_source unless that failed.
Post ==
  /\ At("post")
  /\ IF Stale # None THEN Refuse(Stale)
     ELSE caller' = [caller EXCEPT !.pc = "inspect again", !.left = Parts]
  /\ Alone

\* result.and(post), with nothing to object to.
Return == At("inspect again") /\ caller.left = {} /\ Finish(caller.run) /\ Alone

Call ==
  \/ Prepare \/ (\E x \in Parts : InspectPart(x)) \/ Inspected \/ Gate \/ Remaining \/ Spawn
  \/ Check \/ ReadOut \/ ReadErr \/ Wait \/ Drop \/ After \/ Post \/ Return

-----------------------------------------------------------------------------
(***************************************************************************)
(* The world: a cancellation, the clock, a snapshot or a part of the       *)
(* private state that goes out of order, and may be put in order again.    *)
(* What comes after the end is left out.                                   *)
(***************************************************************************)
Cancel ==
  /\ ~At("done") /\ ~world.cancel /\ world' = [world EXCEPT !.cancel = TRUE]
  /\ UNCHANGED <<caller, sup, proc, pipe>>

Expire ==
  /\ ~At("done") /\ ~world.late /\ world' = [world EXCEPT !.late = TRUE]
  /\ UNCHANGED <<caller, sup, proc, pipe>>

\* The operation's Borg has been started, or could not be.
Started == caller.run # None \/ (caller.n = Probes /\ caller.pc \in Running)

\* One thing at a time is out of order: bounds the model.
Spoil ==
  /\ ~At("done") /\ world.trust = Things
  /\ \E x \in Fragile : world' = [world EXCEPT !.trust = @ \ {x}]
  /\ UNCHANGED <<caller, sup, proc, pipe>>

Mend ==
  /\ ~At("done") /\ world.trust # Things
  /\ world' = [world EXCEPT !.trust = Things,
                  !.before = IF Started THEN @ ELSE Things,
                  !.since = IF caller.run = None THEN @ ELSE Things]
  /\ UNCHANGED <<caller, sup, proc, pipe>>

Init ==
  /\ caller = [pc |-> "prepare", n |-> 0, control |-> TRUE, failure |-> None,
               outEof |-> FALSE, errEof |-> FALSE, consumed |-> 0, status |-> None,
               run |-> None, left |-> {}, result |-> None]
  /\ sup = NoSup
  /\ proc = [p \in Proc |-> NoProc]
  /\ pipe = [out |-> 0, err |-> 0, written |-> 0]
  /\ \E backend \in Backends, trust \in {Things} \union {Things \ {x} : x \in Fragile} :
       world = [cancel |-> FALSE, late |-> FALSE, trust |-> trust, before |-> trust,
                since |-> {}, backend |-> backend]

Next == Call \/ Supervise \/ Child \/ Cancel \/ Expire \/ Spoil \/ Mend

\* The caller and the supervisor run, and time passes; Borg and its
\* descendants owe nothing.
Fairness ==
  /\ WF_vars(Call) /\ WF_vars(Supervise) /\ WF_vars(Expire)

Spec == Init /\ [][Next]_vars
FairSpec == Spec /\ Fairness

-----------------------------------------------------------------------------
(***************************************************************************)
(* Properties.                                                             *)
(***************************************************************************)
CallerState ==
  [pc : CallerPC, n : 0..Probes, control : BOOLEAN, failure : Failures \union {None},
   outEof : BOOLEAN, errEof : BOOLEAN, consumed : 0..Limit,
   status : {None, "ok", "ChildFailed"}, run : Results \union {None},
   left : SUBSET Parts, result : Results \union {None}]
SupState ==
  [pc : {"none", "setup", "reap", "signal", "exited"}, borgOk : BOOLEAN,
   stopping : BOOLEAN, ticks : 0..Grace]
ProcState ==
  [st : {"none", "alive", "zombie", "gone"}, parent : Proc \union {Sup},
   grouped : BOOLEAN, end : {"none", "zero", "other", "killed"}]

\* Every variable holds what the code can put there; no more output than the
\* limit is handed to the callback.
TypeOK ==
  /\ caller \in CallerState
  /\ sup \in SupState
  /\ proc \in [Proc -> ProcState]
  /\ pipe \in [out : 0..Cap, err : 0..Cap, written : 0..MaxWritten]
  /\ world \in [cancel : BOOLEAN, late : BOOLEAN, trust : SUBSET Things, before : SUBSET Things,
                since : SUBSET Things, backend : {"production", "mock"}]

\* run returns, or unwinds, only when the supervisor, Borg and every process
\* below it are dead and waited for, those that left the group included.
NothingOutlives ==
  caller.pc \notin Running => Living = {} /\ sup.pc = "none"

\* The answer is true: ok means Borg exited with 0 after every probe and
\* everything written to stdout was handed over; ChildFailed means Borg was not
\* stopped by us; Cancelled and Timeout have happened.
AnswerIsTrue ==
  /\ caller.result = "ok" =>
       /\ proc[Borg].end = "zero" /\ caller.consumed = pipe.written
       /\ world.backend = "mock" /\ caller.n = Probes
  /\ caller.result = "ChildFailed" => proc[Borg].end \in {"none", "other"}
  /\ caller.result = "Cancelled" => world.cancel
  /\ caller.result = "Timeout" => world.late

\* The operation's Borg is not started unless each of the things it relies on
\* has been in order at a moment of the execution, and ok is not answered unless
\* each has been in order at a moment since Borg and everything below it were
\* waited for.  The things are looked at one after another, and any of them may
\* change before, between and after the looks.
OkOnlyOnTrusted ==
  /\ Started => world.before = Things
  /\ caller.result = "ok" => world.since = Things

\* Whatever Borg and its descendants do, an execution ends, unless a process
\* leaves the group and stays.
EveryRunEnds == []<>(Alive = Group) => <>At("done")
=============================================================================
