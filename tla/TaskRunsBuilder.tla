--------------------------- MODULE TaskRunsBuilder ---------------------------
(***************************************************************************)
(* From the graph of a pipeline to the tasks that the executor runs, and   *)
(* their order: _TaskDagNode._get_all_tasks, topological_sort, the search  *)
(* for completed tasks (depth first in one thread, breadth first with a    *)
(* pool) and TaskRunsBuilder.build_task_runs.  Init takes each graph and   *)
(* every choice of disabled and completed tasks.                           *)
(***************************************************************************)
EXTENDS Naturals, Sequences, FiniteSets, SequencesExt

CONSTANTS Tasks,       \* tasks of the pipeline
          Root,        \* the root task
          Graphs,      \* the graphs: functions from a task to its upstream tasks
          MaxSelected  \* bound: tasks that run.selected_tasks_regex selects

ASSUME TasksAssumption == IsFiniteSet(Tasks)
ASSUME RootAssumption == Root \in Tasks
ASSUME GraphsAssumption == Graphs \subseteq [Tasks -> SUBSET Tasks]
ASSUME SelectedAssumption == MaxSelected \in Nat

VARIABLES
  upstream,    \* the graph
  disabled,    \* tasks whose should_run() is false
  complete,    \* tasks whose _complete() is true
  skip_completed,  \* run.skip_completed
  parallel,    \* run.task_complete_parallelism_level > 1
  roots,       \* the tasks the run was asked for
  pc,
  to_process,  \* _get_all_tasks: the list, the ids seen, the result
  seen,
  found,
  all_tasks, tasks_to_run,  \* what the two calls of it returned
  unsorted,    \* topological_sort: graph_unsorted, the rest of this pass over
  pass,        \* the copy of it, whether the pass took a node, graph_sorted
  acyclic,
  sorted,
  todo,        \* roots whose search has not begun
  checked,     \* completed_status: the tasks that the ended searches checked
  status,      \* completed_status of the search under way
  stack,       \* the calls of check_if_completed_dfs under way
  level,       \* tasks_to_check_list of check_if_completed_bfs: each entry is the
               \* path from the root by which the search came to a task
  futures,     \* the entries of the list whose futures are not done yet
  completed, not_required, skipped  \* tasks_completed, ... of build_task_runs

graphVars == <<upstream, disabled, complete, skip_completed, parallel>>
subdagVars == <<to_process, seen, found>>
sortVars == <<unsorted, pass, acyclic, sorted>>
checkVars == <<todo, checked, status, stack, level, futures>>
planVars == <<all_tasks, tasks_to_run, completed, not_required, skipped>>
vars == <<graphVars, roots, pc, subdagVars, sortVars, checkVars, planVars>>

Init ==
  /\ upstream \in Graphs
  /\ disabled \in SUBSET Tasks
  /\ complete \in SUBSET Tasks
  /\ skip_completed \in BOOLEAN
  /\ parallel \in BOOLEAN
  /\ skip_completed \/ (complete = {} /\ ~parallel)  \* nobody looks at them then
  /\ roots = {Root}
  /\ pc = "subdag_all"
  /\ to_process = <<Root>>
  /\ seen = {}
  /\ found = {}
  /\ all_tasks = {} /\ tasks_to_run = {}
  /\ unsorted = {} /\ pass = {} /\ acyclic = FALSE /\ sorted = <<>>
  /\ todo = {} /\ checked = {} /\ status = {} /\ stack = <<>> /\ level = {} /\ futures = {}
  /\ completed = {} /\ not_required = {} /\ skipped = {}

-----------------------------------------------------------------------------
(***************************************************************************)
(* _get_all_tasks(upstream=True, should_run_only)                          *)
(***************************************************************************)

\* Fault: a disabled task is left out, the search goes on behind it.
SubdagStepPast(should_run_only) ==
  /\ to_process # <<>>
  /\ LET c == Head(to_process) IN
       /\ seen' = seen \cup {c}
       /\ found' = IF should_run_only /\ c \in disabled THEN found ELSE found \cup {c}
       /\ to_process' = Tail(to_process) \o SetToSeq(upstream[c] \ seen')
  /\ UNCHANGED <<graphVars, roots, pc, sortVars, checkVars, planVars>>

SubdagStep(should_run_only) ==
  /\ to_process # <<>>
  /\ LET c == Head(to_process) IN
       /\ seen' = seen \cup {c}
       /\ IF should_run_only /\ c \in disabled
            THEN to_process' = Tail(to_process) /\ UNCHANGED found
            ELSE /\ found' = found \cup {c}
                 /\ to_process' = Tail(to_process) \o SetToSeq(upstream[c] \ seen')
  /\ UNCHANGED <<graphVars, roots, pc, sortVars, checkVars, planVars>>

CollectAll == pc = "subdag_all" /\ SubdagStep(FALSE)
CollectRunnable == pc = "subdag_run" /\ SubdagStep(TRUE)

SubdagAgain ==
  /\ to_process' = <<Root>>
  /\ seen' = {}
  /\ found' = {}

StartSort(tasks) ==
  /\ unsorted' = tasks
  /\ pass' = tasks
  /\ acyclic' = FALSE
  /\ sorted' = <<>>

\* run_driver sorts the whole graph to assert that it is a DAG.
AllCollected ==
  /\ pc = "subdag_all"
  /\ to_process = <<>>
  /\ all_tasks' = found
  /\ SubdagAgain
  /\ StartSort(found)
  /\ pc' = "sort_all"
  /\ UNCHANGED <<graphVars, roots, checkVars, tasks_to_run, completed, not_required, skipped>>

-----------------------------------------------------------------------------
(***************************************************************************)
(* topological_sort: passes over a copy of graph_unsorted, in any order    *)
(***************************************************************************)
Sorting == pc \in {"sort_all", "sort_run"}

\* Fault: only the rest of the pass is looked at for unresolved upstream tasks.
SortNodeInPass(n) ==
  /\ Sorting
  /\ n \in pass
  /\ pass' = pass \ {n}
  /\ IF upstream[n] \cap pass = {}
       THEN /\ acyclic' = TRUE
            /\ unsorted' = unsorted \ {n}
            /\ sorted' = Append(sorted, n)
       ELSE UNCHANGED <<acyclic, unsorted, sorted>>
  /\ UNCHANGED <<graphVars, roots, pc, subdagVars, checkVars, planVars>>

SortNode(n) ==
  /\ Sorting
  /\ n \in pass
  /\ pass' = pass \ {n}
  /\ IF upstream[n] \cap unsorted = {}
       THEN /\ acyclic' = TRUE
            /\ unsorted' = unsorted \ {n}
            /\ sorted' = Append(sorted, n)
       ELSE UNCHANGED <<acyclic, unsorted, sorted>>
  /\ UNCHANGED <<graphVars, roots, pc, subdagVars, checkVars, planVars>>

\* Fault: a pass that took no node is not the end.
NextPassAlways ==
  /\ Sorting
  /\ pass = {}
  /\ unsorted # {}
  /\ pass' = unsorted
  /\ acyclic' = FALSE
  /\ UNCHANGED <<graphVars, roots, pc, subdagVars, unsorted, sorted, checkVars, planVars>>

NextPass ==
  /\ Sorting
  /\ pass = {}
  /\ unsorted # {}
  /\ IF acyclic
       THEN pass' = unsorted /\ acyclic' = FALSE /\ UNCHANGED pc
       ELSE pc' = "cyclic" /\ UNCHANGED <<pass, acyclic>>
  /\ UNCHANGED <<graphVars, roots, subdagVars, unsorted, sorted, checkVars, planVars>>

IsDag ==
  /\ pc = "sort_all"
  /\ unsorted = {}
  /\ pc' = "subdag_run"
  /\ UNCHANGED <<graphVars, roots, subdagVars, sortVars, checkVars, planVars>>

-----------------------------------------------------------------------------
(***************************************************************************)
(* build_task_runs: selected tasks and the search for completed ones       *)
(***************************************************************************)

\* Fault: the selected tasks without what they need.
SubdagOnlyRoots(r) == r

\* x has r and, with each task at which a search does not stop, its upstream tasks.
Closed(x, r, stop) == r \subseteq x /\ \A t \in x \ stop : upstream[t] \subseteq x

\* The least such set: what a search from r that goes on behind the tasks outside stop
\* must visit.
IsSearch(s, r, stop) ==
  /\ Closed(s, r, stop)
  /\ \A x \in SUBSET s : Closed(x, r, stop) => x = s

\* all_subdags(roots), by the result of the search that _get_all_tasks makes.
Subdag(r) == CHOOSE s \in SUBSET Tasks : IsSearch(s, r, {})

\* The depth first search calls itself on the first upstream task not yet in the
\* status; a frame is a task and the upstream tasks its loop has still to visit.
Frame(t) == <<t, IF t \in complete THEN {} ELSE upstream[t]>>

\* select_by_task_names looks in all tasks when no task is left to run, and raises
\* when no name matches.
RunnableCollected(r) ==
  /\ pc = "subdag_run"
  /\ to_process = <<>>
  /\ tasks_to_run' = found
  /\ \/ r = {Root}
     \/ /\ r \subseteq (IF found = {} THEN all_tasks ELSE found)
        /\ Cardinality(r) <= MaxSelected
  /\ roots' = r
  /\ skipped' = found \ Subdag(r)
  /\ todo' = IF skip_completed THEN r ELSE {}
  /\ pc' = IF r = {} THEN "failed" ELSE "check"
  /\ UNCHANGED <<graphVars, subdagVars, sortVars, checked, status, stack, level, futures,
                 all_tasks, completed, not_required>>

\* find_tasks_to_skip_complete searches from one root after the other, each time
\* with an empty status, and merges the results.
NextRoot(t) ==
  /\ pc = "check"
  /\ stack = <<>> /\ level = {}
  /\ t \in todo
  /\ todo' = todo \ {t}
  /\ checked' = checked \cup status
  /\ IF parallel
       THEN level' = {<<t>>} /\ futures' = level' /\ status' = {} /\ UNCHANGED stack
       ELSE stack' = <<Frame(t)>> /\ status' = {t} /\ UNCHANGED <<level, futures>>
  /\ UNCHANGED <<graphVars, roots, pc, subdagVars, sortVars, planVars>>

FutureDone(p) ==
  /\ parallel
  /\ pc = "check"
  /\ p \in futures
  /\ futures' = futures \ {p}
  /\ status' = status \cup {Last(p)}
  /\ UNCHANGED <<graphVars, roots, pc, subdagVars, sortVars, todo, checked, stack, level,
                 planVars>>

\* The entries of the next level that come from the entry p.
Entries(p) ==
  IF Last(p) \in complete THEN {} ELSE {Append(p, u) : u \in upstream[Last(p)] \ status}

\* The next level, in which a task may appear more than once.
NextLevel ==
  /\ parallel
  /\ pc = "check"
  /\ futures = {}
  /\ level # {}
  /\ level' = UNION {Entries(p) : p \in level}
  /\ futures' = level'
  /\ UNCHANGED <<graphVars, roots, pc, subdagVars, sortVars, todo, checked, status, stack,
                 planVars>>

\* Fault: the loop over the upstream tasks ends at a completed one.
DfsStepReturns ==
  /\ ~parallel
  /\ pc = "check"
  /\ stack # <<>>
  /\ LET frame == Last(stack) IN
       IF frame[2] = {}
         THEN stack' = Front(stack) /\ UNCHANGED status
         ELSE \E u \in frame[2] :
                LET rest == Append(Front(stack),
                                   <<frame[1], IF u \in complete THEN {} ELSE frame[2] \ {u}>>) IN
                IF u \in status
                  THEN stack' = rest /\ UNCHANGED status
                  ELSE stack' = Append(rest, Frame(u)) /\ status' = status \cup {u}
  /\ UNCHANGED <<graphVars, roots, pc, subdagVars, sortVars, todo, checked, level, futures,
                 planVars>>

DfsStep ==
  /\ ~parallel
  /\ pc = "check"
  /\ stack # <<>>
  /\ LET frame == Last(stack) IN
       IF frame[2] = {}
         THEN stack' = Front(stack) /\ UNCHANGED status
         ELSE \E u \in frame[2] :
                LET rest == Append(Front(stack), <<frame[1], frame[2] \ {u}>>) IN
                IF u \in status
                  THEN stack' = rest /\ UNCHANGED status
                  ELSE stack' = Append(rest, Frame(u)) /\ status' = status \cup {u}
  /\ UNCHANGED <<graphVars, roots, pc, subdagVars, sortVars, todo, checked, level, futures,
                 planVars>>

\* _complete() of a task raises, which ends the run.
CheckFails ==
  /\ pc = "check"
  /\ IF parallel THEN futures # {}
     ELSE IF stack = <<>> THEN todo # {} ELSE Last(stack)[2] \ status # {}
  /\ pc' = "failed"
  /\ UNCHANGED <<graphVars, roots, subdagVars, sortVars, checkVars, planVars>>

ToExecute == tasks_to_run \ (skipped \cup completed \cup not_required)

\* The flags of the task runs; the executor sorts the ones that are not skipped.
\* With no task run for the root, the driver fails on its banner.
Build ==
  /\ pc = "check"
  /\ stack = <<>> /\ level = {}
  /\ todo = {}
  /\ checked' = checked \cup status
  /\ LET enabled == tasks_to_run \ skipped IN
       /\ completed' = IF skip_completed THEN enabled \cap checked' \cap complete ELSE {}
       /\ not_required' = IF skip_completed THEN enabled \ checked' ELSE {}
       /\ StartSort(enabled)
  /\ pc' = IF Root \in tasks_to_run THEN "sort_run" ELSE "failed"
  /\ UNCHANGED <<graphVars, roots, subdagVars, todo, status, stack, level, futures, all_tasks,
                 tasks_to_run, skipped>>

Sorted ==
  /\ pc = "sort_run"
  /\ unsorted = {}
  /\ pc' = "done"
  /\ UNCHANGED <<graphVars, roots, subdagVars, sortVars, checkVars, planVars>>

Over == pc \in {"done", "cyclic", "failed"} /\ UNCHANGED vars

Step ==
  \/ CollectAll
  \/ CollectRunnable
  \/ AllCollected
  \/ \E n \in Tasks : SortNode(n)
  \/ NextPass
  \/ IsDag
  \/ \E r \in SUBSET Tasks : RunnableCollected(r)
  \/ \E p \in futures : FutureDone(p)
  \/ NextLevel
  \/ DfsStep
  \/ \E t \in Tasks : NextRoot(t)
  \/ CheckFails
  \/ Build
  \/ Sorted

Next == Step \/ Over

Spec == Init /\ [][Next]_vars

\* One thread runs the algorithms to the end; the pool's futures complete.
FairSpec == Spec /\ WF_vars(Step)

-----------------------------------------------------------------------------
TypeOK ==
  /\ upstream \in Graphs
  /\ disabled \in SUBSET Tasks /\ complete \in SUBSET Tasks
  /\ skip_completed \in BOOLEAN /\ parallel \in BOOLEAN
  /\ roots \in SUBSET Tasks
  /\ pc \in {"subdag_all", "sort_all", "subdag_run", "check", "sort_run", "done", "cyclic",
            "failed"}
  /\ to_process \in Seq(Tasks)
  /\ seen \in SUBSET Tasks /\ found \in SUBSET Tasks
  /\ all_tasks \in SUBSET Tasks /\ tasks_to_run \in SUBSET Tasks
  /\ unsorted \in SUBSET Tasks /\ pass \in SUBSET unsorted
  /\ acyclic \in BOOLEAN
  /\ sorted \in Seq(Tasks)
  /\ todo \in SUBSET Tasks /\ checked \in SUBSET Tasks /\ status \in SUBSET Tasks
  /\ stack \in Seq(Tasks \X SUBSET Tasks)
  /\ level \subseteq Seq(Tasks) \ {<<>>}
  /\ futures \subseteq level
  /\ completed \in SUBSET Tasks /\ not_required \in SUBSET Tasks /\ skipped \in SUBSET Tasks

\* The graph has a cycle among the tasks s.
HasCycle(s) == \E x \in SUBSET s : x # {} /\ \A t \in x : upstream[t] \cap x # {}

\* Both searches of _get_all_tasks find every task once, whatever paths lead to it.
\* The second one stops at disabled tasks.
SubdagRight ==
  /\ pc # "subdag_all" => IsSearch(all_tasks, {Root}, {})
  /\ pc \in {"check", "sort_run", "done"} =>
       /\ tasks_to_run \cap disabled = {}
       /\ \E s \in SUBSET disabled : IsSearch(tasks_to_run \cup s, {Root}, disabled)

\* The order is topological and has every task exactly once; the sort fails
\* exactly for a graph with a cycle.
SortRight ==
  /\ (Sorting /\ unsorted = {}) \/ pc = "done" =>
       /\ IsInjective(sorted)
       /\ Range(sorted) = IF pc = "sort_all" THEN all_tasks ELSE tasks_to_run \ skipped
       /\ \A i \in DOMAIN sorted : \A j \in i..Len(sorted) : sorted[j] \notin upstream[sorted[i]]
  /\ pc = "cyclic" => HasCycle(all_tasks)
  /\ pc \in {"subdag_run", "check", "sort_run", "done"} => ~HasCycle(all_tasks)

\* The tasks that were checked are the ones a search from the roots meets that
\* stops at completed tasks, in either mode and in any order of the futures.
StatusRight ==
  pc \in {"sort_run", "done"} /\ skip_completed => IsSearch(checked, roots, complete)

\* Each upstream task of a task that will be executed is complete, disabled or
\* will be executed too: none was dropped as not required or not selected.
UpstreamCovered ==
  pc \in {"sort_run", "done"} =>
    \A t \in ToExecute : \A u \in upstream[t] :
      u \in complete \/ u \in disabled \/ u \in ToExecute

\* The algorithms end, on graphs with cycles too.
Ends == <>(pc \in {"done", "cyclic", "failed"})
=============================================================================
