----------------------- MODULE MCKubernetesScheduler -----------------------
(***************************************************************************)
(* Small instances of KubernetesScheduler for TLC.                         *)
(***************************************************************************)
EXTENDS KubernetesScheduler

CONSTANT t1
MCTasks == {t1}
==============================================================================
