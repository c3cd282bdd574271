----------------------------- MODULE IndexSlot -----------------------------
(***************************************************************************)
(* What building and reading index files promises, without staging,        *)
(* sidecars, locks or stamps: a build publishes one whole index in one     *)
(* step or changes nothing, and an answer shows one committed state that   *)
(* is at the path when the answer is given.                                *)
(***************************************************************************)
EXTENDS Integers

CONSTANTS Path, Builder, Reader, Content, None, MaxVer, Commands, Accidents,
          DestsOf(_), WholeOf(_), Settled(_)

VARIABLES
  slot,     \* the file at each path
  outcome,  \* of each build: "none", "building", "ok", "failed", "cancelled"
  answer,   \* what each reader was shown, by its two statements
  budget    \* how often each kind of event may still happen

vars == <<slot, outcome, answer, budget>>

NoAnswer == <<None, None>>

Init ==
  /\ slot = [p \in Path |-> None]
  /\ outcome = [b \in Builder |-> "none"]
  /\ answer = [r \in Reader |-> NoAnswer]
  /\ budget \in [Commands \union Accidents -> Nat]

Spend(kind) == budget[kind] > 0 /\ budget' = [budget EXCEPT ![kind] = @ - 1]

Begin(b) ==
  /\ outcome[b] # "building" /\ Spend("build")
  /\ outcome' = [outcome EXCEPT ![b] = "building"]
  /\ UNCHANGED <<slot, answer>>

Publish(b) ==
  /\ outcome[b] = "building"
  /\ \E p \in DestsOf(b) : slot' = [slot EXCEPT ![p] = WholeOf(b)]
  /\ outcome' = [outcome EXCEPT ![b] = "ok"]
  /\ UNCHANGED <<answer, budget>>

Abandon(b) ==
  /\ outcome[b] = "building"
  /\ \E o \in {"failed", "cancelled"} : outcome' = [outcome EXCEPT ![b] = o]
  /\ UNCHANGED <<slot, answer, budget>>

Answer(r) ==
  /\ \E p \in Path : /\ Settled(slot[p])
                     /\ answer' = [answer EXCEPT ![r] = <<slot[p], slot[p]>>]
  /\ UNCHANGED <<slot, outcome, budget>>

Ask(r) ==
  /\ Spend("read")
  /\ answer' = [answer EXCEPT ![r] = NoAnswer]
  /\ UNCHANGED <<slot, outcome>>

\* A program that respects SQLite's locks changes the file at p in place.
Rewrite(p) ==
  /\ slot[p] # None
  /\ \E v \in 0..MaxVer, m \in BOOLEAN :
       slot' = [slot EXCEPT ![p] = [@ EXCEPT !.ver = v, !.mid = m]]
  /\ UNCHANGED <<outcome, answer, budget>>

\* Users and other programs do with the files what they like; a killed
\* build has no outcome.
Outside ==
  /\ \E k \in Accidents : Spend(k)
  /\ slot' \in [Path -> Content \union {None}]
  /\ \/ UNCHANGED outcome
     \/ \E b \in Builder : outcome' = [outcome EXCEPT ![b] = "none"]
  /\ UNCHANGED answer

Next ==
  \/ \E b \in Builder : Begin(b) \/ Publish(b) \/ Abandon(b)
  \/ \E r \in Reader : Ask(r) \/ Answer(r)
  \/ \E p \in Path : Rewrite(p)
  \/ Outside

Spec == Init /\ [][Next]_vars
=============================================================================
