------------------------- MODULE MCTaskRunsBuilder -------------------------
(* Graphs over four tasks; the tuple gives the upstream tasks of each.      *)
EXTENDS TaskRunsBuilder

\* A chain, a fan, diamonds with and without a shortcut, triangles, all edges.
Dags ==
  { <<{2}, {3}, {4}, {}>>, <<{2, 3, 4}, {}, {}, {}>>, <<{2, 3}, {4}, {4}, {}>>,
    <<{2, 3, 4}, {4}, {4}, {}>>, <<{2, 3}, {3}, {4}, {}>>, <<{2, 3, 4}, {3, 4}, {4}, {}>> }

\* A loop, a cycle behind a diamond, a cycle through the root, a cycle that the
\* root does not lead to.
CyclicGraphs ==
  { <<{1, 2}, {}, {}, {}>>, <<{2, 3}, {4}, {4}, {2}>>, <<{2}, {3}, {1}, {}>>,
    <<{4}, {3}, {2}, {}>> }

SmallGraphs == Dags \cup CyclicGraphs
=============================================================================
