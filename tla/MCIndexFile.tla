---------------------------- MODULE MCIndexFile ----------------------------
(* Finite instances of IndexFile for TLC. *)
EXTENDS IndexFile, TLC

CONSTANTS b1, b2, r1, near, cwd, srcA

\* b1 indexes an archive with the default destination, b2 with --db.
DefaultAndExplicit == [b \in Builder |-> IF b = b1 THEN <<near, cwd>> ELSE <<near>>]
SameSource == [b \in Builder |-> srcA]

\* What happens in one behaviour.
Times(build, read, events) ==
  [k \in Commands \union Accidents |->
     IF k = "build" THEN build ELSE IF k = "read" THEN read
     ELSE IF k \in events THEN 1 ELSE 0]
Scenes == {Times(2, 0, {"replace", "kill", "cancel"}), Times(2, 1, {"replace"}), Times(2, 1, {"write"})}
          \union {Times(1, 1, {"write", "crash", e}) : e \in {"replace", "link", "overwrite", "stray"}}
=============================================================================
