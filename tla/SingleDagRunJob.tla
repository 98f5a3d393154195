--------------------------- MODULE SingleDagRunJob ---------------------------
(***************************************************************************)
(* The job that runs one Airflow DAG run: a loop that reads the states of  *)
(* the task instances, sends the tasks whose upstream tasks succeeded to   *)
(* an executor, reconciles what the executor says of a try with what the   *)
(* try wrote to the database itself, puts failed tries back for a retry,   *)
(* and, at the end, closes the DAG run and whatever is left open in it.    *)
(* Tries run in processes of their own (remote executors), or inside the   *)
(* loop (InProcessExecutor).                                               *)
(***************************************************************************)
EXTENDS Integers, Sequences, FiniteSets

CONSTANTS Tasks,
          Order,     \* the tasks, as dag.topological_sort gives them
          Upstream,  \* Upstream[t]: the direct upstream tasks of t
          Children,  \* Children[t]: the tasks a pipeline task t is made of
          Reused,    \* tasks whose outputs existed before the run
          Retries,   \* Retries[t]: retries of task t
          MaxRetries,\* bound of Retries
          Modes,     \* the pairs of a kind of executor ("in_process", "remote") and a value of fail_fast
          Skippable, \* tasks that may end as skipped
          Killable,  \* the kinds of executor for which the Databand context may be killed
          AllowRaise,\* the loop may be left by an exception
          AllowCrash,\* the process of the job may die
          MaxFaults  \* bound: tries that die or meet a concurrency limit, instances cleared by a user

Leaf(t) == \A u \in Tasks : t \notin Upstream[u]
Tries == 1..(MaxRetries + 1)

ASSUME GraphAssumption ==
  /\ Tasks # {}
  /\ Upstream \in [Tasks -> SUBSET Tasks] /\ Children \in [Tasks -> SUBSET Tasks]
  /\ Reused \subseteq Tasks /\ Skippable \subseteq Tasks
  /\ Order \in Seq(Tasks) /\ \A t \in Tasks : \E i \in DOMAIN Order : Order[i] = t
  /\ \A i, j \in DOMAIN Order : Order[i] = Order[j] => i = j
ASSUME ModeAssumption ==
  /\ Modes \subseteq {"in_process", "remote"} \X BOOLEAN
  /\ {AllowRaise, AllowCrash} \subseteq BOOLEAN
ASSUME BoundsAssumption == MaxRetries \in Nat /\ Retries \in [Tasks -> 0..MaxRetries] /\ MaxFaults \in Nat

VARIABLES
  ti,        \* database: state of each task instance
  try,       \* database: _try_number of each task instance
  resting,   \* database: tasks whose retry delay has not passed
  dag_run,   \* database: state of the DAG run
  task_run_state, \* job: what Databand knows of each task run
  attempt,   \* tracking service: attempt_number of each task run
  queued,    \* executor: queued_tasks
  procs,     \* executor: the process of each try of each task
  events,    \* executor: event_buffer
  task_failed, \* InProcessExecutor.sync: a task of this batch failed
  status,    \* ti_state_manager: the states read last
  mem,       \* job: state of each TaskInstance object
  ti_status, \* job: the lists of tasks
  waiting,   \* job: waiting_for_executor_result
  active,    \* job: dag_run is in active_runs
  scan,      \* job: tasks that this pass over to_run has still to look at
  pc,        \* job: where the loop is
  outcome,   \* how the job ended
  executor, fail_fast, killed, faults,
  cleared,   \* history: tasks cleared by a user
  closed_early \* history: Airflow closed the DAG run though it found task instances open

db == <<ti, try, resting, dag_run>>
tracking == <<task_run_state, attempt>>
exec == <<queued, procs, events, task_failed>>
env == <<executor, fail_fast, killed, faults, cleared>>
job == <<status, mem, ti_status, waiting, active, scan, pc, outcome, closed_early>>
vars == <<db, tracking, exec, job, env>>

OpenStates == {"none", "scheduled", "queued", "running", "up_for_retry"}
States == OpenStates \cup {"success", "failed", "upstream_failed", "skipped"}
END_STATES == {"success", "failed", "upstream_failed"}
FailedStates == {"failed", "upstream_failed"}
Lists == {"to_run", "running", "succeeded", "skipped", "failed", "not_ready", "deadlocked"}
ProcStates == {"none", "launched", "running", "wrote", "exited"}
\* What the executor says of a try: the job treats SUCCESS and FAILED alike ("finished").
Results == {"finished", "upstream_failed"}

\* _get_dag_run and create_dagrun_from_dbnd_run: instances of reused tasks are successes.
Init ==
  /\ ti = [t \in Tasks |-> IF t \in Reused THEN "success" ELSE "none"]
  /\ try = [t \in Tasks |-> IF t \in Reused THEN 1 ELSE 0] /\ resting = {} /\ dag_run = "running"
  /\ task_run_state = [t \in Tasks |-> IF t \in Reused THEN "success" ELSE "open"]
  /\ attempt = [t \in Tasks |-> 1]
  /\ queued = {} /\ procs = [t \in Tasks |-> [k \in Tries |-> "none"]]
  /\ events = {} /\ task_failed = FALSE
  /\ status = ti /\ mem = ti
  /\ ti_status = [l \in Lists |-> {}]
  /\ waiting = {} /\ active = TRUE /\ scan = {} /\ pc = "start" /\ outcome = "none"
  /\ \E m \in Modes : executor = m[1] /\ fail_fast = m[2]
  /\ killed = FALSE /\ faults = 0 /\ cleared = {} /\ closed_early = FALSE
----------------------------------------------------------------------------
(* Airflow's rules, as the job uses them *)

\* TaskInstance.try_number, of an instance in state s
TryNumber(t, s) == IF s = "running" THEN try[t] ELSE try[t] + 1

\* TaskInstance.handle_failure
Failure(t, s) == IF TryNumber(t, s) <= Retries[t] THEN "up_for_retry" ELSE "failed"

\* Fault: skipped upstream tasks count as successes.
TriggerDone(t) ==
  LET up == {status[u] : u \in Upstream[t]} IN
  IF up \cap FailedStates # {} THEN "upstream_failed"
  ELSE IF up \subseteq {"success", "skipped"} THEN "met" ELSE "unmet"

\* TriggerRuleDepOptimizied, rule all_success: it looks at the states the state manager
\* read last.  "met", "unmet", or the state that flag_upstream_failed gives the task.
Trigger(t) ==
  LET up == {status[u] : u \in Upstream[t]} IN
  IF up \cap FailedStates # {} THEN "upstream_failed"
  ELSE IF "skipped" \in up THEN "skipped"
  ELSE IF up \subseteq {"success"} THEN "met" ELSE "unmet"

\* ValidStateDep, NotInRetryPeriodDep
Runnable == {"none", "scheduled", "queued", "up_for_retry"}
Ready(t, s) == s \in Runnable /\ (s = "up_for_retry" => t \notin resting)

\* executor.has_task: by the key of the task instance, which holds the number of the try
has_task(t) == \/ t \in queued
               \/ /\ try[t] + 1 \in Tries
                  /\ procs[t][try[t] + 1] # "none"
----------------------------------------------------------------------------
(* _execute and _process_dag_task_instances *)

\* _task_instances_for_dag_run
Start ==
  /\ pc = "start" /\ pc' = "top"
  /\ ti' = [t \in Tasks |-> IF ti[t] = "none" THEN "scheduled" ELSE ti[t]]
  /\ ti_status' = [ti_status EXCEPT !["to_run"] = Tasks]
  /\ mem' = ti'
  /\ UNCHANGED <<try, resting, dag_run, tracking, exec, env, status, waiting, active, scan, outcome, closed_early>>

\* refresh_task_instances_state
Refresh == status' = ti /\ mem' = ti

Busy == ti_status["to_run"] \cup ti_status["running"] # {} /\ ti_status["deadlocked"] = {}

LoopTop ==
  /\ pc = "top" /\ Busy /\ ~killed
  /\ ti_status' = [ti_status EXCEPT !["not_ready"] = {}]
  /\ Refresh
  /\ scan' = ti_status["to_run"]
  /\ pc' = "scan"
  /\ UNCHANGED <<db, tracking, exec, env, waiting, active, outcome, closed_early>>

\* databand_context_killed
LoopKilled ==
  /\ pc = "top" /\ Busy /\ killed
  /\ outcome' = "error" /\ pc' = "finally"
  /\ UNCHANGED <<db, tracking, exec, env, status, mem, ti_status, waiting, active, scan, closed_early>>

\* Fault: only a deadlock is an error.
LoopEndsFailed ==
  /\ pc = "top" /\ ~Busy
  /\ outcome' = IF ti_status["deadlocked"] = {} THEN "success" ELSE "error"
  /\ pc' = "finally"
  /\ UNCHANGED <<db, tracking, exec, env, status, mem, ti_status, waiting, active, scan, closed_early>>

\* The loop is over: _collect_errors.
LoopEnds ==
  /\ pc = "top" /\ ~Busy
  /\ outcome' = IF ti_status["failed"] \cup ti_status["deadlocked"] = {} THEN "success" ELSE "error"
  /\ pc' = "finally"
  /\ UNCHANGED <<db, tracking, exec, env, status, mem, ti_status, waiting, active, scan, closed_early>>

Listed(t, l) ==
  [k \in Lists |-> IF k = l THEN ti_status[k] \cup {t}
                   ELSE IF k \in {"to_run", "running"} THEN ti_status[k] \ {t}
                   ELSE ti_status[k]]

ListOf(s) == CASE s = "success" -> "succeeded" [] s = "skipped" -> "skipped"
               [] s \in FailedStates -> "failed"

Before(t, u) == \E i, j \in DOMAIN Order : i < j /\ Order[i] = t /\ Order[j] = u

\* The task that the pass looks at, in topological order, and its state: none becomes scheduled.
Scanned(t) == pc = "scan" /\ t \in scan /\ (\A u \in scan \ {t} : Before(t, u)) /\ scan' = scan \ {t}
Seen(t) == IF status[t] = "none" THEN "scheduled" ELSE status[t]
Stored(t) == IF status[t] = "none" THEN "scheduled" ELSE ti[t]

\* Finished, whoever finished it.
ScanFinished(t) ==
  /\ Scanned(t)
  /\ status[t] \notin OpenStates
  /\ ti_status' = Listed(t, ListOf(status[t]))
  /\ UNCHANGED <<db, tracking, exec, env, status, mem, waiting, active, pc, outcome, closed_early>>

\* are_dependencies_met sets the state of a task whose upstream tasks failed or were skipped.
ScanFlagged(t) ==
  /\ Scanned(t)
  /\ status[t] \in OpenStates /\ Trigger(t) \in {"upstream_failed", "skipped"}
  /\ ti' = [ti EXCEPT ![t] = Trigger(t)]
  /\ ti_status' = IF Trigger(t) = "upstream_failed"
                  THEN Listed(t, "failed")
                  ELSE [ti_status EXCEPT !["not_ready"] = @ \cup {t}]
  /\ mem' = [mem EXCEPT ![t] = Trigger(t)]
  /\ UNCHANGED <<try, resting, dag_run, tracking, exec, env, status, waiting, active, pc, outcome, closed_early>>

\* The dependencies are met: the instance, read again, goes to the executor unless it is
\* in another state by now, or there already.
ScanMet(t) ==
  LET send == Stored(t) \in {"scheduled", "up_for_retry"} /\ ~has_task(t) IN
  /\ Scanned(t)
  /\ status[t] \in OpenStates /\ Trigger(t) = "met" /\ Ready(t, Seen(t))
  /\ ti' = [ti EXCEPT ![t] = IF send THEN "queued" ELSE Stored(t)]
  /\ mem' = [mem EXCEPT ![t] = ti'[t]]
  /\ queued' = IF send THEN queued \cup {t} ELSE queued
  /\ ti_status' = IF send THEN Listed(t, "running") ELSE ti_status
  /\ waiting' = IF send THEN waiting \cup {t} ELSE waiting
  /\ UNCHANGED <<try, resting, dag_run, tracking, procs, events, task_failed, env, status, active, pc, outcome, closed_early>>

\* Not yet: a task that waits for its retry stays in to_run, any other is not ready.
ScanUnmet(t) ==
  /\ Scanned(t)
  /\ status[t] \in OpenStates
  /\ Trigger(t) \in {"met", "unmet"} /\ ~(Trigger(t) = "met" /\ Ready(t, Seen(t)))
  /\ ti' = [ti EXCEPT ![t] = Stored(t)]
  /\ mem' = [mem EXCEPT ![t] = Seen(t)]
  /\ ti_status' = IF Seen(t) = "up_for_retry" THEN Listed(t, "to_run")
                  ELSE [ti_status EXCEPT !["not_ready"] = @ \cup {t}]
  /\ UNCHANGED <<try, resting, dag_run, tracking, exec, env, status, waiting, active, pc, outcome, closed_early>>

\* Fault: the attempt is the number of tries that were begun.
AfTryBegun(t) == try[t]

\* get_af_task_try_number
AfTry(t) == IF ti[t] \in {"success", "failed", "skipped"}
            THEN TryNumber(t, ti[t]) - 1 ELSE TryNumber(t, ti[t])

\* sync_task_run_attempts_retries
SyncAttempts ==
  /\ pc = "scan" /\ scan = {} /\ pc' = "heartbeat"
  /\ attempt' = IF active THEN [t \in Tasks |-> AfTry(t)] ELSE attempt
  /\ task_failed' = FALSE
  /\ UNCHANGED <<db, task_run_state, queued, procs, events, env, status, mem, ti_status, waiting, active, scan, outcome, closed_early>>
----------------------------------------------------------------------------
(* executor.heartbeat *)

\* A remote executor starts the queued tries and collects the results of those that ended.
Heartbeat ==
  /\ pc = "heartbeat" /\ executor = "remote"
  /\ procs' = [t \in Tasks |-> [k \in Tries |->
       IF procs[t][k] = "exited" THEN "none"
       ELSE IF t \in queued /\ k = try[t] + 1 THEN "launched" ELSE procs[t][k]]]
  /\ events' = events \cup {<<t, "finished">> : t \in {u \in Tasks : \E k \in Tries : procs[u][k] = "exited"}}
  /\ queued' = {}
  /\ pc' = "check"
  /\ UNCHANGED <<db, tracking, task_failed, env, status, mem, ti_status, waiting, active, scan, outcome, closed_early>>

\* InProcessExecutor.sync, one task of the batch: with fail_fast, what follows a failed
\* task is given up; once the context is killed, so is everything; else the task runs.
RunInProcess(t) ==
  /\ pc = "heartbeat" /\ executor = "in_process" /\ t \in queued
  /\ queued' = queued \ {t}
  /\ IF fail_fast /\ task_failed
     THEN /\ ti' = [ti EXCEPT ![t] = "upstream_failed"]
          /\ events' = events \cup {<<t, "upstream_failed">>}
          /\ UNCHANGED <<try, resting, task_failed>>
     ELSE IF killed
     THEN /\ ti' = [ti EXCEPT ![t] = "failed"]
          /\ events' = events \cup {<<t, "finished">>}
          /\ UNCHANGED <<try, resting, task_failed>>
     ELSE /\ try' = [try EXCEPT ![t] = @ + 1]
          /\ \E s \in {"success", "failed"} \cup (IF t \in Skippable THEN {"skipped"} ELSE {}) :
               LET end == IF s = "failed" /\ try'[t] <= Retries[t] THEN "up_for_retry" ELSE s IN
               /\ ti' = [ti EXCEPT ![t] = end]
               /\ resting' = IF end = "up_for_retry" THEN resting \cup {t} ELSE resting
               /\ events' = events \cup {<<t, "finished">>}
               /\ task_failed' = (task_failed \/ s = "failed")
  /\ UNCHANGED <<dag_run, tracking, procs, job, env>>

InProcessDone ==
  /\ pc = "heartbeat" /\ executor = "in_process" /\ queued = {}
  /\ pc' = "check"
  /\ UNCHANGED <<db, tracking, exec, env, status, mem, ti_status, waiting, active, scan, outcome, closed_early>>
----------------------------------------------------------------------------
(* The rest of an iteration *)

\* Deadlock, if nothing runs and everything left is not ready; then the states are read again.
DeadlockCheck ==
  LET dead == /\ ti_status["not_ready"] # {} /\ ti_status["not_ready"] = ti_status["to_run"]
              /\ ti_status["running"] = {} IN
  /\ pc = "check" /\ pc' = "events"
  /\ ti_status' = IF dead THEN [ti_status EXCEPT !["deadlocked"] = ti_status["to_run"], !["to_run"] = {}]
                  ELSE ti_status
  /\ Refresh
  /\ UNCHANGED <<db, tracking, exec, env, waiting, active, scan, outcome, closed_early>>

\* _manage_executor_state, a result for a task that is not waited for
IgnoreEvent(e) ==
  /\ pc = "events" /\ e \in events
  /\ e[1] \notin ti_status["running"] \cap waiting
  /\ events' = events \ {e}
  /\ UNCHANGED <<db, tracking, queued, procs, task_failed, env, job>>

\* _manage_executor_state, the result that is waited for: it decides if the task itself is
\* still on its way, by a fresh look.
ManageEvent(e) ==
  LET t == e[1]
      seen == IF mem[t] \in {"running", "queued"} THEN ti[t] ELSE mem[t]
      lost == e[2] = "finished" /\ seen \in {"running", "queued"} IN
  /\ pc = "events" /\ e \in events
  /\ t \in ti_status["running"] \cap waiting
  /\ events' = events \ {e}
  /\ waiting' = waiting \ {t}
  /\ mem' = [mem EXCEPT ![t] = IF lost THEN Failure(t, seen) ELSE seen]
  /\ ti' = IF lost THEN [ti EXCEPT ![t] = Failure(t, seen)] ELSE ti
  /\ resting' = IF lost /\ ti'[t] = "up_for_retry" THEN resting \cup {t} ELSE resting
  /\ ti_status' = IF e[2] = "upstream_failed" THEN [ti_status EXCEPT !["running"] = @ \ {t}] ELSE ti_status
  /\ UNCHANGED <<try, dag_run, tracking, queued, procs, task_failed, env, status, active, scan, pc, outcome, closed_early>>

\* Fault: a retry does not wait for the executor's result.
BackAtOnce(t) == mem[t] \in {"none", "up_for_retry"}

\* Fault: a task that asked to be scheduled again is not put back.
BackRetryOnly(t) == mem[t] = "up_for_retry" /\ t \notin waiting

\* _update_counters: where the tasks in running go, by the states read last.
Back(t) == mem[t] = "none" \/ (mem[t] = "up_for_retry" /\ t \notin waiting)
UpdateCounters ==
  LET run == ti_status["running"]
      in(s) == {t \in run : mem[t] \in s}
      back == {t \in run : Back(t)} IN
  /\ pc = "events" /\ events = {} /\ pc' = "state"
  /\ ti_status' = [ti_status EXCEPT
       !["succeeded"] = @ \cup in({"success"}), !["skipped"] = @ \cup in({"skipped"}),
       !["failed"] = @ \cup in({"failed"}), !["to_run"] = @ \cup back,
       !["running"] = @ \ (in({"success", "skipped", "failed"}) \cup back)]
  /\ ti' = [t \in Tasks |-> IF t \in in({"none"}) THEN "scheduled" ELSE ti[t]]
  /\ mem' = [t \in Tasks |-> IF t \in in({"none"}) THEN "scheduled" ELSE mem[t]]
  /\ UNCHANGED <<try, resting, dag_run, tracking, exec, env, status, waiting, active, scan, outcome, closed_early>>

\* _update_databand_task_run_states, when the task instances are in the states s.  A pipeline
\* that could not run is failed if one of its tasks is: its task run is looked at before or
\* after theirs.
TaskRunStates(s, before) ==
  LET own(t) == IF s[t] \in {"success", "failed"} THEN s[t] ELSE task_run_state[t]
      known(t) == IF before THEN task_run_state[t] ELSE own(t) IN
  [t \in Tasks |-> IF s[t] = "upstream_failed" /\ task_run_state[t] # "upstream_failed"
                   THEN IF \E c \in Children[t] : known(c) = "failed" THEN "failed" ELSE "upstream_failed"
                   ELSE own(t)]

\* dag_run.update_state: it flags tasks whose upstream tasks failed (all or some, by the release
\* of Airflow), closes the DAG run if it had found no task instance open before, and takes it for
\* deadlocked (older releases: only if it flagged nothing) when none of them can run by the states
\* that the state manager holds.
Flaggable == {t \in Tasks : ti[t] \in Runnable /\ Trigger(t) \in {"upstream_failed", "skipped"}}
AirflowState(flagged, s, d) ==
  LET unfinished == {t \in Tasks : ti[t] \in OpenStates}
      runnable == {t \in unfinished : Trigger(t) = "met"} IN
  /\ flagged \subseteq Flaggable
  /\ flagged = {} => Flaggable = {} \/ runnable # {}
  /\ s = [t \in Tasks |-> IF t \in flagged THEN Trigger(t) ELSE ti[t]]
  /\ d \in IF unfinished = {}
           THEN {IF \E t \in Tasks : Leaf(t) /\ ti[t] \in FailedStates THEN "failed" ELSE "success"}
           ELSE IF runnable # {} THEN {"running"}
           ELSE IF flagged = {} THEN {"failed"} ELSE {"running", "failed"}

\* Close of an iteration: Airflow looks at the DAG run, as long as the job counts it as active.
UpdateState ==
  /\ pc = "state" /\ pc' = "databand"
  /\ IF active
     THEN \E flagged \in SUBSET Flaggable, d \in {"running", "failed", "success"} :
            /\ AirflowState(flagged, ti', d)
            /\ dag_run' = d
            /\ closed_early' = (d # "running" /\ \E t \in Tasks : ti[t] \in OpenStates)
     ELSE UNCHANGED <<ti, dag_run, closed_early>>
  /\ UNCHANGED <<try, resting, tracking, exec, env, status, mem, ti_status, waiting, active, scan, outcome>>

\* Then Databand hears of the task instances, and fail_fast ends the job once a task failed.
UpdateDataband ==
  /\ pc = "databand"
  /\ IF active
     THEN \E before \in BOOLEAN : task_run_state' = TaskRunStates(ti, before)
     ELSE UNCHANGED task_run_state
  /\ active' = (active /\ dag_run = "running")
  /\ IF fail_fast /\ ti_status["failed"] # {}
     THEN outcome' = "error" /\ pc' = "finally"
     ELSE pc' = "top" /\ UNCHANGED outcome
  /\ UNCHANGED <<db, attempt, exec, env, status, mem, ti_status, waiting, scan, closed_early>>

\* Nothing looks any more at the lists of the job, nor at the states that it had read.
Forget ==
  /\ ti_status' = [l \in Lists |-> {}] /\ waiting' = {} /\ scan' = {}
  /\ status' = ti' /\ mem' = ti'

\* An exception leaves the loop wherever it is: SIGTERM, Ctrl-C, the database, a tracking call.
\* InProcessExecutor keeps the batch that it was at; what is queued elsewhere is not started.
JobRaises ==
  LET sync == pc = "heartbeat" /\ executor = "in_process" IN
  /\ AllowRaise
  /\ pc \in {"start", "top", "scan", "heartbeat", "check", "events", "state", "databand"}
  /\ outcome' = "raised" /\ pc' = "finally"
  /\ queued' = (IF sync THEN queued ELSE {})
  /\ events' = (IF sync THEN events ELSE {})
  /\ UNCHANGED <<db, tracking, procs, task_failed, env, active, closed_early>>
  /\ Forget

\* Fault: only running instances are failed.
FixedRunning == [t \in Tasks |-> IF ti[t] = "running" THEN "failed" ELSE ti[t]]

\* Fault: every instance is failed.
FixedAll == [t \in Tasks |-> "failed"]

\* fix_zombie_dagrun_task_instances: an instance without a state is not "not in" the list for SQL.
Fixed == [t \in Tasks |-> IF ti[t] \in END_STATES \cup {"none"} THEN ti[t] ELSE "failed"]

\* The tasks of an interrupted batch that InProcessExecutor.end marks as not run.  It goes over the
\* whole batch: a task that has run is marked as well, but is no longer in the executor's running,
\* and the KeyError ends the marking at the first one.
Marked ==
  LET ran == {e[1] : e \in events} IN
  IF ran = {} THEN SUBSET queued ELSE {{}} \cup {{t} : t \in ran}

\* executor.end, whose failure is swallowed: it leaves no try at work but those it failed to end.
EndExecutor ==
  /\ pc = "finally" /\ pc' = "clean"
  /\ \E alive \in SUBSET {t \in Tasks : \E k \in Tries : procs[t][k] # "none"} :
       procs' = [t \in Tasks |-> IF t \in alive THEN procs[t] ELSE [k \in Tries |-> "none"]]
  /\ \E marked \in Marked : ti' = [t \in Tasks |-> IF t \in marked THEN "upstream_failed" ELSE ti[t]]
  /\ queued' = {} /\ events' = {}
  /\ UNCHANGED <<try, resting, dag_run, tracking, task_failed, env, status, mem, ti_status, waiting, active, scan,
                 outcome, closed_early>>

\* A DAG run that is still open is failed, with its instances; but this may fail too, before the
\* instances are (the commit before it, or the statement) or after.
Finally ==
  /\ pc = "clean" /\ pc' = "done"
  /\ \/ dag_run = "running" /\ ti' = Fixed /\ dag_run' = "failed"
     \/ dag_run = "running" /\ ti' \in {Fixed, ti} /\ UNCHANGED dag_run
     \/ dag_run # "running" /\ UNCHANGED <<ti, dag_run>>
  /\ UNCHANGED <<try, resting, tracking, exec, env, active, outcome, closed_early>>
  /\ Forget
----------------------------------------------------------------------------
(* The processes of the tries (external), and the rest of the world *)

\* The process of a try starts to work, unless its task instance may not run any more.
ProcBoots(t, k) ==
  /\ procs[t][k] = "launched"
  /\ IF ti[t] \in {"queued", "up_for_retry", "none"}
     THEN /\ procs' = [procs EXCEPT ![t][k] = "running"]
          /\ ti' = [ti EXCEPT ![t] = "running"]
          /\ try' = [try EXCEPT ![t] = @ + 1]
     ELSE /\ procs' = [procs EXCEPT ![t][k] = "wrote"]
          /\ UNCHANGED <<ti, try>>
  /\ UNCHANGED <<resting, dag_run, tracking, queued, events, task_failed, job, env>>

\* A concurrency limit: the try gives up and asks to be scheduled again.
ProcMeetsLimit(t, k) ==
  /\ procs[t][k] = "launched" /\ ti[t] = "queued" /\ faults < MaxFaults
  /\ procs' = [procs EXCEPT ![t][k] = "wrote"]
  /\ ti' = [ti EXCEPT ![t] = "none"]
  /\ faults' = faults + 1
  /\ UNCHANGED <<try, resting, dag_run, tracking, queued, events, task_failed, job,
                 executor, fail_fast, killed, cleared>>

\* The task is over, and its process writes how.
ProcWrites(t, k) ==
  /\ procs[t][k] = "running"
  /\ procs' = [procs EXCEPT ![t][k] = "wrote"]
  /\ \E s \in {"success", Failure(t, "running")} \cup (IF t \in Skippable THEN {"skipped"} ELSE {}) :
       /\ ti' = [ti EXCEPT ![t] = s]
       /\ resting' = IF s = "up_for_retry" THEN resting \cup {t} ELSE resting
  /\ UNCHANGED <<try, dag_run, tracking, queued, events, task_failed, job, env>>

\* The process ends.
ProcExits(t, k) ==
  /\ procs[t][k] = "wrote"
  /\ procs' = [procs EXCEPT ![t][k] = "exited"]
  /\ UNCHANGED <<db, tracking, queued, events, task_failed, job, env>>

\* The process ends without a word to the database.
ProcDies(t, k) ==
  /\ procs[t][k] \in {"launched", "running"} /\ faults < MaxFaults
  /\ procs' = [procs EXCEPT ![t][k] = "exited"]
  /\ faults' = faults + 1
  /\ UNCHANGED <<db, tracking, queued, events, task_failed, job, executor, fail_fast, killed, cleared>>

DelayPasses(t) ==
  /\ t \in resting /\ resting' = resting \ {t}
  /\ UNCHANGED <<ti, try, dag_run, tracking, exec, job, env>>

\* A user clears a task that waits for its retry.
Clear(t) ==
  /\ ti[t] = "up_for_retry" /\ faults < MaxFaults
  /\ pc \notin {"finally", "clean", "done", "crashed"}
  /\ ti' = [ti EXCEPT ![t] = "none"]
  /\ cleared' = cleared \cup {t} /\ faults' = faults + 1
  /\ UNCHANGED <<try, resting, dag_run, tracking, exec, job, executor, fail_fast, killed>>

\* The job looks for a kill at the top of the loop and before each task it runs itself.
Kill ==
  /\ executor \in Killable /\ ~killed /\ killed' = TRUE
  /\ pc = "top" \/ (pc = "heartbeat" /\ executor = "in_process")
  /\ UNCHANGED <<db, tracking, exec, job, executor, fail_fast, faults, cleared>>

\* The process of the job dies, with all it held in memory; tries go on.
JobCrashes ==
  /\ AllowCrash /\ pc \notin {"done", "crashed"}
  /\ pc' = "crashed" /\ outcome' = "crash"
  /\ queued' = {} /\ events' = {} /\ task_failed' = FALSE /\ active' = FALSE
  /\ UNCHANGED <<db, tracking, procs, env, closed_early>>
  /\ Forget

\* find_and_kill_dagrun_zombies, in a job that starts after this one failed, or its heartbeat is too old
KillZombies ==
  /\ pc \in {"done", "crashed"} /\ dag_run = "running"
  /\ ti' = Fixed /\ dag_run' = "failed"
  /\ UNCHANGED <<try, resting, tracking, exec, job, env>>
----------------------------------------------------------------------------
JobNext ==
  \/ Start \/ LoopTop \/ LoopKilled \/ LoopEnds
  \/ \E t \in Tasks : ScanFinished(t) \/ ScanFlagged(t) \/ ScanMet(t) \/ ScanUnmet(t)
  \/ SyncAttempts \/ Heartbeat \/ InProcessDone
  \/ \E t \in Tasks : RunInProcess(t)
  \/ DeadlockCheck \/ UpdateCounters \/ UpdateState \/ UpdateDataband \/ EndExecutor \/ Finally
  \/ \E e \in events : IgnoreEvent(e) \/ ManageEvent(e)

ProcNext(t) == \E k \in Tries : ProcBoots(t, k) \/ ProcWrites(t, k) \/ ProcExits(t, k)

Next ==
  \/ JobNext
  \/ \E t \in Tasks : ProcNext(t) \/ DelayPasses(t) \/ Clear(t)
  \/ \E t \in Tasks, k \in Tries : ProcMeetsLimit(t, k) \/ ProcDies(t, k)
  \/ Kill \/ JobRaises \/ JobCrashes \/ KillZombies

Spec == Init /\ [][Next]_vars

\* The loop goes on, and a new job looks for the remains of one that ended; processes end and delays
\* pass (each try does so once).
FairSpec ==
  Spec /\ WF_vars(JobNext \/ KillZombies) /\ WF_vars(\E t \in Tasks : ProcNext(t) \/ DelayPasses(t))
----------------------------------------------------------------------------
(* Properties *)

\* Every variable keeps its type.
TypeOK ==
  /\ ti \in [Tasks -> States] /\ status \in [Tasks -> States] /\ mem \in [Tasks -> States]
  /\ try \in [Tasks -> 0..(MaxRetries + 1)] /\ attempt \in [Tasks -> 0..(MaxRetries + 2)]
  /\ dag_run \in {"running", "failed", "success"}
  /\ task_run_state \in [Tasks -> {"open", "success", "failed", "upstream_failed"}]
  /\ procs \in [Tasks -> [Tries -> ProcStates]]
  /\ events \subseteq Tasks \X Results
  /\ ti_status \in [Lists -> SUBSET Tasks]
  /\ resting \subseteq Tasks /\ queued \subseteq Tasks /\ waiting \subseteq Tasks
  /\ scan \subseteq Tasks /\ cleared \subseteq Tasks
  /\ task_failed \in BOOLEAN /\ active \in BOOLEAN /\ closed_early \in BOOLEAN
  /\ fail_fast \in BOOLEAN /\ killed \in BOOLEAN
  /\ executor \in {"in_process", "remote"} /\ outcome \in {"none", "success", "error", "raised", "crash"}
  /\ pc \in {"start", "top", "scan", "heartbeat", "check", "events", "state", "databand",
             "finally", "clean", "done", "crashed"}
  /\ faults \in 0..MaxFaults

AtWork == {"launched", "running"}

\* A task is never at work twice, and as long as there is a job it never takes a try that runs for
\* over: a retry waits for the executor's result for the try before, though the instance is up for
\* retry earlier, so that a late result cannot fail the new try.  (A user who clears the instance
\* between the two defeats this.  What is left of a dead job, or of one whose executor could not
\* end a try, may be failed while it runs.)
OneTryAtWork ==
  \A t \in Tasks \ cleared : \A i, k \in Tries :
    /\ procs[t][i] \in AtWork /\ procs[t][k] \in AtWork => i = k
    /\ procs[t][k] = "running" /\ pc \notin {"done", "crashed"} => ti[t] = "running"

\* The tracking service knows an attempt before its process is started, and holds no later
\* attempt while that process is at work.  (An upstream task that was cleared may end twice, and
\* flag a task whose process is launched.)
AttemptKnown ==
  \A t \in Tasks : \A k \in Tries :
    active /\ procs[t][k] \in AtWork /\ ({t} \cup Upstream[t]) \cap cleared = {} => attempt[t] = k

\* A try begins only after every upstream task of its task has succeeded, though the job
\* decides by states it read earlier.  (A task that was cleared may end twice.)
UpstreamFirst ==
  [][\A t \in Tasks : try'[t] # try[t] => \A u \in Upstream[t] \ cleared : ti[u] = "success"]_vars

\* Every task of the DAG was run to success, or was skipped, and the DAG run is a success, unless
\* Airflow had closed it before.
AllDone ==
  /\ \A t \in Tasks : ti[t] \in {"success", "skipped"}
  /\ dag_run = "success" \/ closed_early

\* A job that ends without an error has run every task.  Not so if a user cleared tasks, which may
\* end twice, nor for fail_fast in the process of the job: it gives up the rest of a batch for good
\* when a task of it fails, though the task may be retried and succeed.
SuccessMeansDone ==
  outcome = "success" /\ cleared = {} /\ ~(executor = "in_process" /\ fail_fast) => AllDone

\* Whatever ends the job (success, failed tasks, fail fast, deadlock, a kill, an exception), once it
\* or a later one has closed the DAG run no task instance is left on its way, but for one whose
\* process the executor failed to end; and if the loop came to its end, Databand knows of every task
\* that was not run because of others.  Not if Airflow had closed the DAG run before, or a user had
\* cleared the task.  (The end of the whole run reports what an exception leaves: RunExecutor.)
LeftSettled ==
  pc = "done" /\ dag_run # "running" /\ ~closed_early => \A t \in Tasks \ cleared :
    /\ (\A k \in Tries : procs[t][k] = "none") => ti[t] \notin {"scheduled", "queued", "running", "up_for_retry"}
    /\ outcome # "raised" /\ ti[t] = "upstream_failed" => task_run_state[t] \in FailedStates

\* How a task ended is kept as long as there is a job: by late results of the executor, by states
\* read earlier and by Airflow.  The clean-up keeps it too, except that it fails skipped tasks; and
\* an in-process batch that was interrupted may lose how one of its tasks ended.
FinalKept ==
  [][\A t \in Tasks \ cleared :
       /\ pc \notin {"clean", "done", "crashed"} /\ ~(pc = "finally" /\ \E e \in events : e[1] = t)
            => (ti[t] \notin OpenStates => ti'[t] = ti[t])
       /\ pc = "clean" => (ti[t] \in END_STATES => ti'[t] = ti[t])]_vars

\* Every DAG run is closed in the end: the loop neither waits for a result that cannot come nor
\* forgets a task that asked to be scheduled again, and what a dead job leaves is cleaned.
DagRunCloses == <>(dag_run # "running")

\* A DAG of tasks without limits on their concurrency has no deadlock: a task that waits for its
\* upstream tasks is not declared dead.
NoFalseDeadlock == ti_status["deadlocked"] = {}
==============================================================================
