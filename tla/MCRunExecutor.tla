---------------------------- MODULE MCRunExecutor ----------------------------
(* Small instances of RunExecutor.                                           *)
EXTENDS RunExecutor

\* A pipeline p over b and the chain a, c.
PipelineTasks == {"a", "b", "c", "p"}
PipelineUpstream == [t \in PipelineTasks |->
  CASE t = "c" -> {"a"} [] t = "p" -> {"b", "c"} [] OTHER -> {}]
PipelineChildren == [t \in PipelineTasks |->
  IF t = "p" THEN {"a", "b", "c"} ELSE {}]

\* A pipeline p over two independent tasks.
PairTasks == {"a", "b", "p"}
PairUpstream == [t \in PairTasks |-> IF t = "p" THEN {"a", "b"} ELSE {}]
PairChildren == PairUpstream
=============================================================================
