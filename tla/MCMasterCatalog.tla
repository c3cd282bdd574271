-------------------------- MODULE MCMasterCatalog --------------------------
(* Finite instances of MasterCatalog for TLC. *)
EXTENDS MasterCatalog, TLC

CONSTANTS a, b, p1, p2, u1, u2, u3, u4, tarSrc, dirSrc, v1, v2, v3

Everyone(cmds) == [s \in Session |-> cmds]
SessionCommands == Everyone({"add", "sync", "rm"})
CatalogCommands == Everyone(AllCommands)
SyncCommands == Everyone({"add", "sync"})
PruneCommands == Everyone({"add", "sync", "prune"})
VerifyCommands == Everyone({"add", "sync", "verify"})

OneSource == [u \in Uuid |-> tarSrc]
TarAndDir == [u \in Uuid |-> IF u = u3 THEN dirSrc ELSE tarSrc]
\* v1 and v2 have the same size and mtime.
StatByVersion == [v \in Version |-> IF v = v3 THEN 1 ELSE 0]

IndexSymmetry == Permutations({u1, u2, u3}) \union Permutations({a, b})
                 \union Permutations({p1, p2})
=============================================================================
