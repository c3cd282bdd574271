---------------------------- MODULE MCWorkbench ----------------------------
(***************************************************************************)
(* The components that share no state with another, explored one at a      *)
(* time: one works, the others are idle.                                   *)
(***************************************************************************)
EXTENDS MCDedup, MCPlan, MCDirectory, MCTar, MCOutput, MCOpening, MCReports

WorkbenchInit ==
  \/ PlanIdle /\ DirectoryIdle /\ TarIdle /\ OutputIdle /\ OpeningIdle /\ ReportsIdle /\ DedupInit
  \/ DedupIdle /\ DirectoryIdle /\ TarIdle /\ OutputIdle /\ OpeningIdle /\ ReportsIdle /\ PlanInit
  \/ DedupIdle /\ PlanIdle /\ TarIdle /\ OutputIdle /\ OpeningIdle /\ ReportsIdle /\ DirectoryInit
  \/ DedupIdle /\ PlanIdle /\ DirectoryIdle /\ OutputIdle /\ OpeningIdle /\ ReportsIdle /\ TarInit
  \/ DedupIdle /\ PlanIdle /\ DirectoryIdle /\ TarIdle /\ OpeningIdle /\ ReportsIdle /\ OutputInit
  \/ DedupIdle /\ PlanIdle /\ DirectoryIdle /\ TarIdle /\ OutputIdle /\ ReportsIdle /\ OpeningInit
  \/ DedupIdle /\ PlanIdle /\ DirectoryIdle /\ TarIdle /\ OutputIdle /\ OpeningIdle /\ Init

Works(run) == run.step # "none"

WorkbenchNext ==
  \/ Works(found) /\ DedupNext /\ UNCHANGED <<planVars, dirVars, tarVars, outVars, openVars, vars>>
  \/ Works(plan) /\ PlanNext /\ UNCHANGED <<dedupVars, dirVars, tarVars, outVars, openVars, vars>>
  \/ Works(dirRun) /\ DirectoryNext /\ UNCHANGED <<dedupVars, planVars, tarVars, outVars, openVars, vars>>
  \/ Works(tarRun) /\ TarNext /\ UNCHANGED <<dedupVars, planVars, dirVars, outVars, openVars, vars>>
  \/ Works(outRun) /\ OutputNext /\ UNCHANGED <<dedupVars, planVars, dirVars, tarVars, openVars, vars>>
  \/ OpeningNext /\ UNCHANGED <<dedupVars, planVars, dirVars, tarVars, outVars, vars>>
  \/ Next /\ UNCHANGED <<dedupVars, planVars, dirVars, tarVars, outVars, openVars>>

workVars == <<dedupVars, planVars, dirVars, tarVars, outVars, openVars, vars>>

\* Whoever makes a report goes on while it can.
WorkbenchSpec == WorkbenchInit /\ [][WorkbenchNext]_workVars /\ WF_vars(Command)
=============================================================================
