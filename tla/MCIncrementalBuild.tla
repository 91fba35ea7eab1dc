------------------------- MODULE MCIncrementalBuild -------------------------
(* The repository's recipe cut down to the nested checkpoint of             *)
(* InstallDependencies, two tasks without declared outputs, and the task    *)
(* that prepares a staging area; one builder's recipe has an ALWAYS_RUN     *)
(* task inside the checkpoint.                                              *)
EXTENDS IncrementalBuild, TaskGraph

CONSTANTS b1, b2, old, new

MCPlan == PlanOf(ShortKlibGenGt)
MCN == Len(MCPlan.leaves)
MCBuilders == {b1, b2}
MCBoundaries == Closed(MCPlan)
MCAlways == [b \in MCBuilders |-> IF b = b2 THEN {2} ELSE {}]
MCChecked == TasksWithOutputs(MCPlan)
MCNesting == StagingTasks(MCPlan)
MCVersions == {old, new}
=============================================================================
