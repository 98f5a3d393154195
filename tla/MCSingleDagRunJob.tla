-------------------------- MODULE MCSingleDagRunJob --------------------------
(* Small instances of SingleDagRunJob.                                       *)
EXTENDS SingleDagRunJob

\* A pipeline p over two tasks, one of them after a task r that ran before.
PairOrder == <<"r", "a", "b", "p">>
PairTasks == {"r", "a", "b", "p"}
PairUpstream == [t \in PairTasks |->
  CASE t = "a" -> {"r"} [] t = "p" -> {"a", "b"} [] OTHER -> {}]
PairChildren == [t \in PairTasks |-> IF t = "p" THEN {"r", "a", "b"} ELSE {}]
JobModes == {<<"in_process", TRUE>>, <<"in_process", FALSE>>, <<"remote", FALSE>>}
PairRetries == [t \in PairTasks |-> IF t = "a" THEN 1 ELSE 0]

\* A pipeline p over a chain of three tasks.
ChainOrder == <<"a", "b", "c", "p">>
ChainTasks == {"a", "b", "c", "p"}
ChainUpstream == [t \in ChainTasks |->
  CASE t = "a" -> {} [] t = "b" -> {"a"} [] t = "c" -> {"b"} [] t = "p" -> {"c"}]
ChainModes == {<<"in_process", FALSE>>}
ChainRetries == [t \in ChainTasks |-> 0]
ChainChildren == [t \in ChainTasks |-> IF t = "p" THEN {"a", "b", "c"} ELSE {}]
==============================================================================
