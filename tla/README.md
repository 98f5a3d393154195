# Verification of dbnd

TLA+ models of the parts of dbnd in which several threads, processes or servers
take steps in an order nobody controls: the asynchronous tracking channel, the
composite tracking store, the run executor with its heartbeat process, the search
and sort that plan a run, the Airflow monitor (its loop over servers, its error
reports, its syncer and fixer), the Kubernetes executor and the job that runs one
Airflow DAG run. TLC checks them on small instances; TLAPS proves the safety
properties of all eight for every value of the constants, and TLC alone checks what must
eventually happen.

Paths below are relative to `src/`. `D` stands for
`modules/dbnd/src/dbnd/_core`, `M` for
`modules/dbnd-airflow-monitor/src/airflow_monitor`, `A` for
`modules/dbnd-airflow/src/dbnd_airflow`.

## 1. Inventory

dbnd runs data pipelines and reports what they do. A *run* is planned from a graph
of tasks, executed by a driver process, and followed by a tracking server. A
second program, the Airflow monitor, copies what an Airflow server does to the
same tracking server.

| Component | State it keeps | Operations | What makes it correct |
|---|---|---|---|
| Asynchronous web channel (`D/tracking/backends/channels/tracking_async_web_channel.py`) | a `queue.Queue` with its unfinished count, one daemon thread and the pid it belongs to, a lock, `_shutting_down` | `_handle`/`submit`, `start`, the worker's loop, `shutdown`, life after `fork` | one consumer; no event lost, reordered or resent; every path does one `task_done`; shutdown drains, and returns |
| Composite tracking store (`D/tracking/backends/tracking_store_composite.py`, `D/tracking/registry.py`) | a dict of stores shared by all threads | `_invoke` with retries, removal of failed stores, `shutdown`, `disable_tracking_api` | all stores get every call although one fails; only failed stores go, and they are shut down |
| Run executor, local task executor, task run runner, heartbeat sender (`D/task_executor/*`, `D/task_run/*`) | states of the run and of each task run, here and in the server; a process-wide kill event; batched states; a subprocess | the run, the driver, the loop over tasks, SIGTERM, Ctrl-C, `kill`, `kill_run`, the heartbeat | upstream order; nothing starts after a kill; the run's state tells the truth; the server ends with the same states; a stop reaches a hanging driver |
| Task graph and task runs builder (`D/task_ctrl/task_dag.py`, `D/task_executor/task_runs_builder.py`) | work lists, the graph being sorted, futures of a pool | search of the graph, topological sort, search for completed tasks | equal to their reference definitions on every graph; they end on cyclic ones |
| Airflow monitor syncer and fixer (`M/syncer/runtime_syncer.py`, `M/fixer/runtime_fixer.py`), export plugin (`A/export_plugin/*`) | two cursors and the dag runs in the tracking service; the syncer's work lists | one sync, chunk by chunk; one fix | no run or log entry is passed over; both sides end equal |
| Multi-server monitor and component manager (`M/shared/base_multiserver.py`, `M/shared/base_monitor_component_manager.py`, `M/shared/runners/*`, `M/multiserver/*`) | managers per server, the components each holds, child processes, the status on the web server | read the configuration, start, stop and clean components, heartbeat, sync in turn; stop and restart of the monitor | what runs converges to the configuration; nothing runs that no manager holds |
| Error aggregation (`M/shared/error_aggregator.py`, `error_handler.py`) | active errors per function, one copy per process | report | the server shows no error that nobody holds |
| Kubernetes executor, scheduler, watcher, zombie cleaner (`A/executors/kubernetes_executor/*`) | submitted pods, watcher queue, result queue, task queue, running tries | run and delete pods, process events, retry crashed pods, clean zombies, terminate | no pod forgotten, no new pod before the deletion of the old one was asked for, tries bounded, the outcome tracked; the job ends |
| Single DAG run job (`A/scheduler/single_dag_run_job.py`, `A/executors/*`) | `to_run`, `running`, `failed`, `not_ready`, `deadlocked`, the states it read last, results it waits for | the scheduling loop, in-process and remote tries, fail fast, kill, clean-up, zombie jobs | one try at a time; upstream first; nothing left open; the DAG run is closed |
| API client (`modules/dbnd/src/dbnd/utils/api_client.py`) | a session with its age | requests with authentication and retries | an expired session is renewed, retries are bounded |
| Tasks, parameters, configuration, targets, decorators, command line, plugins, Java client | | | sequential data transformation or adapters |

Interactions. User code in a task run makes tracking calls; the composite store
hands each to its stores; the web store's channel queues it for its worker, which
makes the HTTP request. The run executor makes the same calls for states of tasks
and runs, sometimes in batches, and a failing call may come back as
`TrackerPanicError` in the middle of an exception handler. The heartbeat sender, a
subprocess, polls the server and sends SIGTERM to the driver. The syncer and the
fixer share nothing but the tracking service and the Airflow server they read; the
monitor's loop starts and stops them. The DAG run job gives tries to an executor and
learns their end twice: from the executor's results and from the database, which the
tries write themselves. The Kubernetes scheduler learns of pods three times: from the
watcher's events, from the database and from its search for zombies.

What is hard: threads against `shutdown` and `fork` in the channel; a dict iterated
and changed at once in the composite store; signals at any point of nested
exception handlers, and state kept in memory but not yet sent, in the executor;
calls that fail after they took effect, a process dying between two chunks and two
writers with stale data in the syncer; a fork that copies the error aggregator, and
failures between the steps of starting a component, in the monitor; a pod that dies
after its task has stored a state, lost and repeated events and a creation that is
reported as failed but happened, in Kubernetes; a late result for a try that is
already followed by another, in the DAG run job. `PROJECT.json` lists these under `hazards`,
at their lines, with the properties that watch them.

## 2. Modules

Each module's variables carry the names of the attributes they stand for; `map` in
`PROJECT.json` gives the lines of each definition. Operators whose comment begins
with `Fault:` are deliberate faults, used to see that a property can fail; the
specifications do not use them.

- `AsyncWebChannel`: clients (threads) submit, start the worker, put, shut down and
  fork; the worker gets, calls the web channel, retries, fails and stops. Steps are
  cut where the code releases the interpreter between a test and its use: between
  the `_shutting_down` test, `ensure_thread`, `start` under the lock and
  `queue.put`, and at the `join` inside `shutdown`. An event is its position in the
  order of acceptance; `accepted`, `outcome`, `calls` and `leaked` are history. A
  fork continues in the child.
- `EventLog`: the abstract specification of the channel: a log that grows at the end
  and is settled from the front, one event at a time.
- `CompositeTrackingStore`: threads run `_invoke`, `shutdown` and
  `disable_tracking_api` on the shared dict; the iterator's position and the dict's
  size at its start are state, since CPython raises when the size changed.
- `RunExecutor`: `run_execute`, the driver task, `do_run`'s loop, `execute` of one
  task and every exception handler on the way, with the exception in flight in `ex`.
  Python delivers SIGTERM and Ctrl-C between any two steps; where it surfaces is
  `RaisedInTask`, `RaisedInDriver`, `RaisedInRun`, `RaisedOutside`. `tracked` and
  `srv_run` are what the server knows. The heartbeat process is two actions. An error may
  also come from the preparation after the task runs were tracked, from the entry into a
  task's contexts, from the look at a disabled upstream task (whose task run is None: the
  loop is left and its batch dropped), and from the exit of the driver's contexts after
  the driver's SUCCESS.
- `TaskRunsBuilder`: `_get_all_tasks`, `topological_sort`, the depth-first and the
  breadth-first search for completed tasks, and `build_task_runs`, as steps on their
  work lists. The stack of the depth-first search is a sequence; the list of the
  breadth-first search is the set of paths that lead to its entries, since a task is
  entered once for each of them and their futures complete in any order. `Init` ranges over graphs, disabled and completed tasks.
- `RuntimeSyncer`: an Airflow server that changes at any time, the queries of the
  export plugin, the tracking service, and the calls of `_sync_once`, `init_dagruns`,
  `update_dagruns` and of the fixer, one action per call. A call works, fails before
  it takes effect, or takes effect and fails.
- `MultiServerMonitor`: one pass of `run_once` cut at its calls: read the configuration,
  stop disabled servers, per server `start` or `update_config` of its manager (clean the
  dead, start and stop components in the order of `SERVICES_COMPONENTS`), then the
  heartbeats. `errors` is the aggregator of each process; a child process gets a copy at
  the fork (`Forked`). Both runners are modelled: components inside the loop (`seq`) and
  child processes (`mp`). Every captured call may fail, and so may the call that reports
  the failure (`lost` remembers it until a later report gets through). The environment of
  the monitor may have tracking errors, which the status Running carries to the web
  server, and the source whose name the monitor was given may be renamed. What a sync does
  is `RuntimeSyncer`.
- `KubernetesScheduler`: pods that start, write the state of their task, exit, are
  evicted or vanish; the watcher and its queue; the scheduler's `run_next`, the handling
  of events, the count of retries for a crash, `delete_pod`; the executor's `sync`; the
  zombie cleaner; `terminate`. The job around it is reduced to scheduling a task whose
  retry delay is over and waiting for the executor's result. `terminate` throws away the
  results that are left; newer releases of Airflow handle them in the executor's `end`,
  which deletes the same pods a moment earlier.
- `SingleDagRunJob`: the scheduling loop of `_process_dag_task_instances`, the two
  kinds of executor, tries as processes, the results, retries, fail fast, kill, an
  exception that leaves the loop at any of its steps (`JobRaises`), the `finally` with the
  end of the executor and the clean-up, each of which may fail, a crash of the job and the
  cleaner of zombie jobs. An in-process executor that is ended over an unfinished batch
  marks tasks of it UPSTREAM_FAILED until one is no longer in its dict.
  `ti` is the database, `status` and `mem` what the job remembers of it.
- `MC...`: the small instances. `...Proofs`, one for each of the eight modules: proofs.

Left out inside these modules: contents of events and of tasks' data, log texts,
`dag_ids` and `start_time_window` filters of the syncer, remote engines and
sub-process task engines of the executor, the tracking calls of metrics (they have
no state of their own), pools, priorities and the texts of pod errors. The tracking
server, the Airflow database, the Kubernetes cluster, operating-system signals and
`fork` are external and modelled from how the code uses them.

## 3. Runs

| Run | Checks | Instance |
|---|---|---|
| `async_threads` | types, `NoEventLost`, `DeliveryOrder`, `SettledNotResent`, `ShutdownDrains`, and `ImplementsEventLog` | 2 threads, 2 events and 1 shutdown each, forks; threads symmetric |
| `async_single` | `ShutdownReturns`, `EventsSettle` | 1 thread, 4 events, 2 shutdowns, no fork |
| `composite_threads` | `EveryStoreServed`, `OnlyFailedRemoved`, `InvokeEnds` | 2 threads with 2 calls, 2 stores, 2 tries, with `disable_tracking_api` |
| `run_pipeline` | types, `UpstreamRespected`, `ShutdownHonoured`, `NoOrphanSender` | a chain and a reused task under a pipeline task; kills, 2 SIGTERMs, 1 Ctrl-C, 2 failing tracking calls, a crash |
| `run_outcome` | `SuccessMeansDone`, `ServerSettled`, `DriverAgrees` | the same pipeline, `fail_fast`, no kill, 3 SIGTERMs, 2 Ctrl-Cs, a crash |
| `builder_graphs` | `SubdagRight`, `SortRight`, `StatusRight`, `UpstreamCovered`, `Ends` | ten graphs over 4 tasks, four of them cyclic; all disabled and completed sets; up to 2 selected tasks |
| `syncer_fixer` | `NothingSkipped`, `Converges` | 2 dag runs, one of them possibly older than the monitor, 3 changes, 1 failure or death, chunks of 1, the fixer |
| `monitor_servers` | `NoOrphans`, `NoGhostError`, `Converges` | 1 server, 2 components, both runners, 2 changes, 2 failures or deaths, 1 stop and restart |
| `kube_pods` | `PodsTracked`, `OnePodSubmitted`, `TriesBounded`, `OutcomeTracked`, `JobTerminates` | 1 task with no retry or one, retry counts 0 and 1 for reasons of failure, 3 faults |
| `kube_retry_lost` | violation of `RetryKept` | 1 task with 1 retry, 1 fault |
| `dagrun_job` | `OneTryAtWork`, `AttemptKnown`, `UpstreamFirst`, `SuccessMeansDone`, `LeftSettled`, `FinalKept`, `DagRunCloses` | a pipeline over a reused task, a task after it with a retry and a task that may be skipped; both kinds of executor, in process with and without fail fast, a kill (in process), an exception at any point, failures at the end, a crash, 1 fault |
| `dagrun_deadlock` | violation of `NoFalseDeadlock` | a chain of 3 tasks under a pipeline task, in process, no fault |

Type invariants of the modules whose run does not list one (`TypeOK` in each) are
proved.

The two violations are disagreements between the code and its comments; `findings`
quotes both sides.

- *Retry lost.* A pod that fails after Airflow stored UP_FOR_RETRY fails the task again,
  whose try number is by then one higher: a task with a retry left becomes FAILED.
- *False deadlock.* Whether upstream tasks failed is read from states fetched before the
  pass; a task whose upstream was flagged UPSTREAM_FAILED in the same pass, and which is
  all that is left, is declared deadlocked.

### Disagreements met while modelling, without a run of their own

- Channel: a thread that passed the `_shutting_down` test before `shutdown` set it puts
  its item behind the terminator. No worker takes it, and `join` waits for ever with the
  lock held, though the comments say the worker is written "to avoid hanging on
  queue.join()". `ShutdownReturns` is therefore checked with one thread only; with two
  clients TLC finds this behaviour.
- Channel: an item that the parent's worker had in hand at a fork stays in the child's
  count for ever, and a later `shutdown` of the child waits for it (`leaked`).
- Run executor: after `kill()` the loop sets the remaining tasks to FAILED without
  setting `task_failed`, and the driver reports success; and a task that was set
  SCHEDULED before the kill may keep that state in the server for ever.
  `SuccessMeansDone` and `ServerSettled` are checked and proved without kills.
- Run executor: `execute` enters the task's contexts before its `try`. An error there goes
  to `do_run`, which logs it and sets no state: the task blocks nobody, since only tasks
  with a failed state do, and the run may end as SUCCESS. The properties name these tasks
  (`NeverBegan`). The same error in the look at a disabled upstream task leaves the loop,
  the batch of states is dropped, and the end of the run sets all that is unreported to
  FAILED in the server (`Unreported`).
- Run executor: the driver task is SUCCESS before its contexts are left. A SIGTERM, a
  Ctrl-C or an error in that window makes the run CANCELLED or FAILED and leaves the
  driver task SUCCESS; `DriverAgrees` says the converse only.
- Run executor: the SIGTERM that `kill_run`'s own request brings about may reach the task
  that called it while its exception unwinds: it becomes CANCELLED, where the comment
  wants FAILED.
- Monitor: the status goes from Scheduled to Running only in an iteration that started a
  component; if that one call fails, Scheduled is shown until a component dies.
- Monitor: when no source has the name the monitor was given, each iteration raises before
  anything is stopped: the components of a source that was renamed or switched off go on
  until the name is back, so `Converges` leaves this out.
- Syncer: a log entry on a finished dag run is found by every sync and answered with
  `init_dagruns`, which moves no log cursor. The plugin's lower-case states are compared
  with "RUNNING", so that known running dag runs are sent again in each sync.
- DAG run job: Airflow's `update_state` may close the DAG run by a stale snapshot while
  instances are open (`closed_early`); in-process fail fast gives up tasks for a try that
  will be retried; the fix of zombie jobs fails SKIPPED instances and leaves those
  without a state; `get_af_task_try_number` gives 0 for a task that failed before it ran.
- DAG run job: the clean-up is meant for instances that have not ended, but `END_STATES`
  lacks SKIPPED, and it sets skipped ones to FAILED. The end of an in-process executor after
  an interrupt sets the first task of the batch that has run to UPSTREAM_FAILED, whatever it
  was, and stops at the second with a `KeyError`. `FinalKept` states both exceptions.
- DAG run job: if the end of the executor fails, the process of a try may go on after the
  clean-up and write the database then. `LeftSettled` speaks of tasks without a process.
- DAG run job: a task that a user clears while it waits for its retry can be sent a
  second time while its first process still works, and end twice. `AttemptKnown`,
  `UpstreamFirst`, `SuccessMeansDone` and `LeftSettled` speak of tasks nobody cleared; the
  attempt to prove them for the others led to the counterexamples.
- DAG run job: with the in-process executor, `fail_fast` and retries, a DAG with several
  leaves can end with success although a task was given up. dbnd makes one root task that
  needs all the others, and without skips that root cannot succeed then
  (`RootedSuccessMeansDone`). With a skip it can still happen under one root: TLC finds it
  on a DAG of five tasks, whose root needs a task that skips itself, one that is to be
  retried and one that is given up for the latter's failed try; the root is skipped because
  of the first, and the task that was given up is in no list when the loop ends.
  `SuccessMeansDone` therefore leaves out the in-process executor with `fail_fast`.
- Kubernetes: a failed pod of a task that is up for retry or still queued, whose events are
  lost, is found by nobody (`Stuck`): `JobTerminates` says the job ends or is in that gap.
- Kubernetes: the next try is submitted when the deletion of the last pod was asked for, not
  when it is done, so that two pods of a task may be alive, and may both write, for as long
  as the cluster takes to delete one. `OnePodSubmitted` says what the executor ensures.
- Kubernetes: a pod whose creation ended in a conflict or an error is put back into the
  queue; if it is found as a pending zombie meanwhile, its task is cleared and may be sent
  to a new pod while the old entry is submitted as well. `Clean` excepts these tasks.

### Bounds, and why they are enough

The channel's and the composite store's races take two threads: one that changes
what the other tested. Two events per thread give a queue with events of both on
either side of a terminator, and two tries give a retry and a last try. The
pipeline has a chain, a task beside it, a reused task and a parent, so each branch of
the loop is met, and a second SIGTERM meets the handler of the first. Four tasks hold
a diamond with a shortcut, where a task is queued twice, and a cycle beyond it. Two
dag runs with chunks of one leave a chunk unsent when a call fails; three changes
start a run, log on it and finish it. A component of the monitor is independent of those
of other servers but for the loop that visits them; two components are needed for one to
be started after another failed, two changes for off and on again, two failures for a
report that is lost while another error is shown. (Two servers with one change and one
failure were run as well.) Tasks of the Kubernetes scheduler share its queues and nothing
else; three faults give a lost event with a dead pod and a failed deletion, and a lost answer
counts as two. In the DAG run job the retry, the skip and the reused task each meet the
pipeline task that waits for them. Kills of the remote executor are left to the proofs,
which cover every mode, to keep the run within its time; so is remote `fail_fast`.
Constants named `Max...` are bounds; all others are configuration values or inputs.
`CHECK_DEADLOCK FALSE` is given for the channel and the composite store, whose clients may
stop calling, and for the Kubernetes scheduler and the DAG run job, which end.

### Fairness

- Channel: weak fairness of the worker and of each client *inside* a call: they are
  threads that nothing stops, and a request has a timeout. No client must call again.
- Composite store: weak fairness of a thread inside a call, for the same reason.
- Run executor: weak fairness of dbnd's own steps, of the delivery of a pending
  signal and of the heartbeat loop. User code (`UserStep`) has none: it may hang.
- Builder: weak fairness of the one thread; the pool's futures complete.
- Syncer and fixer: weak fairness of each loop: `BaseMonitorSyncer.run` calls
  `sync_once` for ever, and a runner restarts a dead process. Airflow has none. A bounded
  number of failures stands for calls that work in the end.
- Monitor: weak fairness of the loop, which goes on and is started again by its
  supervisor; strong fairness of a component's sync becoming due, since time passes.
- Kubernetes: weak fairness of each pod's steps and of the loop; strong fairness of a
  retry delay that passes and of the zombie cleaner, which runs at an interval.
- DAG run job: weak fairness of the loop, of the tries' processes, of delays and of the
  cleaner of zombie jobs: a job that starts after the heartbeat of a dead one is too old, with
  `clean_zombies_during_backfill` on.

## 4. Proofs

`AsyncWebChannelProofs`, for any set of clients, any number of events, shutdowns and
tries, with or without forks, from `ClientsAssumption` (the free lock is no client),
`RetriesAssumption` (at least one try), `FlagsAssumption` and `BoundsAssumption`:
`TypeCorrect`, `QueueAccountingHolds`, `OneWorkerHolds`, `NoEventLostHolds`,
`DeliveryOrderHolds`, `ShutdownDrainsHolds`, `SettledNotResentHolds` and `Refinement`
(the channel implements `EventLog`, with `accepted` as the log and `outcome` as its
status). The inductive invariant is types with

- `WorkerInv`: `QueueAccounting`, `OneWorker` and `JoinHoldsLock`: a client waiting in
  `join` holds the lock, and a worker that still runs has the terminator ahead of it.
  Without the second half, `start` might put a second consumer on the queue while a
  shutdown waits;
- `NoEventLost`, and `CallsBehind`: no call was made for an event behind a pending one.
  `DeliveryOrder` alone does not say where the next call may go.

Types are proved with `QueueAccounting`, since only the count keeps
`unfinished_tasks` from going below zero, where `task_done` raises.

`ShutdownServedHolds` is the safety half of `ShutdownReturns`, for one client thread: a
thread that wants the lock finds it free, and one that waits in `join` has a worker with an
item to take, or nothing is unfinished but what a fork leaked (nothing, without forks).
The invariant (`Terminators`) says that the terminator is the last item of the queue and
that there is none outside a shutdown; a second thread that is between the
`_shutting_down` test and the `put` breaks exactly that, and TLC refutes the theorem's
statement with two clients.

`CompositeTrackingStoreProofs`, for any threads, any stores, any number of calls and
tries, from `OrderAssumption` (the keys of the dict differ), `NamesAssumption`,
`RetriesAssumption` and `BoundsAssumption`: `TypeCorrect`,
`EveryStoreServedHolds` and `OnlyFailedRemovedHolds`. `Shrinking` says that stores only
leave the dict, so that a loop whose size test succeeds iterates over the dict it
began with; without it, a removal and an insertion between two tests would go unseen.
`Served` says that every store before the iterator's position was tried, `Blamed` that
what an `_invoke` is going to remove has failed in that same `_invoke`.
`CountedHolds` and `CallBoundedHolds` are the argument behind `InvokeEnds`: `StepsLeft`
gives a thread inside a call a positive number of steps to make, at most
`Len(StoreOrder) * (MaxRetries + 2) + 2` at its beginning; each step of the thread lowers
it and no step of another thread raises it. Beyond them, `InvokeEnds` needs only that
a step is always possible and is eventually made, which is left to TLC.

`RunExecutorProofs`, for any tasks, any graph and any number of signals and failing
calls, from `TasksAssumption`, `GraphAssumption` and `BoundsAssumption`: `TypeCorrect`,
`UpstreamRespectedHolds`, `NoNewWorkHolds`, `DriverAgreesHolds`, and, if nobody calls
`kill()` or `kill_run()`, `SuccessMeansDoneHolds` and `ServerSettledHolds` (with kills both
are false, see above).
The invariant says which task `execute` works on (`Focus`), that what the loop tested
is still true at the start (`EnterTested`), that a task the loop has not come to has
no state (`Untouched`) and that a task it is done with is final or was never begun
(`VisitedStates`). For `SuccessMeansDone` it adds that every failure was noted in
`task_failed` and leaves a failed task behind (`FailureNoted`), and that the run's
state repeats what the loop found (`Outcome`). For `DriverAgrees` it adds `DriverEnd`: as
long as no tracking call failed, the driver's and the run's state take each handler
together, and the run is SUCCESS in no other way than by a driver task that is. For `ServerSettled` it adds `Batch` and `Reported`: the server has each state
but those of skipped tasks in the batch, which the end of the loop sends.

`TaskRunsBuilderProofs`, for any finite set of tasks and any graphs over it, cyclic or
not, any disabled, completed and selected tasks and both searches, from `TasksAssumption`,
`RootAssumption` and `GraphsAssumption`: `TypeCorrect`,
`SubdagRightHolds`, `SortRightHolds`, `StatusRightHolds` and `UpstreamCoveredHolds`. That a
search has found what is reachable is an induction over its length; the invariant
avoids it by speaking of *every closed set*: what was reached is inside each set that
holds the roots and what its members lead to (`Walk`, `Search`), and when nothing is left to
process it is such a set itself, hence the least one, which is the reference definition.
A cycle is a set of tasks each of which has an upstream task in it (`HasCycle`): the
sort takes no task of any such set (`Order`), and a pass that takes nothing leaves one.
`Order` also says that nothing unsorted is upstream of a sorted task. `Search` carries both
searches: an upstream task of a checked one was checked, or waits in a frame of the stack,
or its path is in the list.
`PlanRootedHolds` says that every task to be executed is needed by the root task through
tasks to be executed, if the root alone was asked for. Its premise excludes disabled tasks
that are incomplete and were met by the completeness search: the search goes on behind such
a task, which is itself left out of the run, and TLC shows that what is behind it is then
executed for nobody.

`RuntimeSyncerProofs`, for any number of dag runs, changes, failures and deaths, and any
size of chunks, with or without the fixer, from `RunsAssumption` and
`BeforeAssumption`: `TypeCorrect` and `NothingSkippedHolds`. `NothingSkipped` is about a
cursor between syncs, while the danger is in the middle of one. `Lists` says that both work
lists are sorted, so that a chunk's last entry bounds what is behind it; `RunPlan` that a
dag run missing in the service is in the list if a later one is; `LogPlan` that a run
with a log entry after the cursor was sent with it, is still to be sent, or got the
entry after the plugin was asked, when it is later than all that the list can move the
cursor to; `FreshData` and `InHand` that the data in hand are those of the chunk and as
new as its entries. `AllLogs` says more than `NoLogSkipped`: it includes runs the service
lacks, which a later `init_dagruns` may add. Maxima of cursors and logs are found with the
well-foundedness of the naturals.

`MultiServerMonitorProofs`, for any servers, components and bounds and either runner, from
`ServersAssumption`, `ServicesAssumption` (the components are numbered, none is named as the
loop's own process) and `RunnersAssumption`: `TypeCorrect`, `NoOrphansHolds` and
`NoGhostErrorHolds`. The first two are proved together, with `LoopInv`: inside a manager's
method or a heartbeat the server in hand has a manager, outside there is none in hand, and
the servers still to visit are among those read, or those monitored. Without it a step
might act on a manager that was just deleted and leave its component running.
`NoGhostError` excepts the server in hand, so it is not inductive: `Visible` says what holds
of that one too, except where its manager has just been made or its method raised; `Owned`
that errors of a component belong to a living child, so that a child that ends takes
no others' errors with it; and `Mode` that components run inside the loop with the
sequential runner only.

`KubernetesSchedulerProofs`, for any finite set of tasks, any retry counts and any number of
crashes, failing calls and lost events, from `TasksAssumption`, `RetriesAssumption` (the
counts have a largest one) and `FaultsAssumption`: `TypeCorrect`, `PodsTrackedHolds`,
`OnePodSubmittedHolds`, `TriesBoundedHolds` and `OutcomeTrackedHolds`. The invariant follows a
task through five stages (`Idle`, `Queued`, `Sent`, `Done`, `Handed`), each of which says
in which of the five collections (`running`, `submitted_pods`, `task_queue`,
`result_queue`, `event_buffer`) its try is and what the database has. Around them,
`OneEntry` and `OneResult` keep a queue from holding a task twice, so that it is gone when the
head is taken; `Recorded` and `LastTry` say that a pod nobody deletes is recorded and that
of the pods of a task only the last try's is not being deleted; `TryLeft` that a task that is
to be tried again has a try left. Tasks whose creation was reported as failed and happened are
outside the stages, as they are outside `OnePodSubmitted`, and so are tasks cleared while their
pod waited to be submitted again.

`SingleDagRunJobProofs`, for any DAG, any retries, both kinds of executor and any number of
faults, kills and crashes, from `GraphAssumption` (there is a task, and each has its place in
the order of the scan), `ModeAssumption` and `BoundsAssumption`: `TypeCorrect`,
`OneTryAtWorkHolds`, `AttemptKnownHolds`, `UpstreamFirstHolds`, `FinalKeptHolds`,
`LeftSettledHolds` and `SuccessMeansDoneHolds`. A task is away from the executor, queued, in a process or
told of by a result (`Stage`), and what the job read of it is what the database has wherever
the loop relies on it (`Read`). `Upstreams` says that the upstream tasks of a try that was
sent but has not begun are still successful, since the test is made long before. `Settling`
says what holds once the DAG run is closed, `Ending` that every task is in a list, that
those listed as succeeded and skipped are so in the database, and that a DAG run closed as
failed has a failed leaf. `NoneGivenUp` is where the in-process executor with `fail_fast` falls out:
it gives up the rest of a batch for a try that will be retried.

`RootedSuccessMeansDone` has no such hypothesis: in every mode, for any DAG in which a root
needs all tasks that are not reused, directly or through others that are not reused
(`Rooted`), and in which no task skips itself, a job that ends without an error has run
every task. Its argument is that success grows from the upstream tasks to the root
(`Grown`: a task that succeeded or works has successful upstream tasks), so that a
successful root means success everywhere, since the successful tasks are a set as in
`Rooted`. What remains is that the root is not given up and not forgotten: a task with an
upstream task that has not succeeded is still to run or listed as failed (`Kept`), no state
is SKIPPED (`Unskipped`), and the root is never sent in one batch with a task whose failure
could give it up (`RootRuns`), since it waits for all of them. `PlanRootedHolds` is why dbnd's
DAGs have the shape. Both premises are needed: without a root, or with a skip, TLC finds the
counterexamples of section 3.

`QueueAccounting`, `OneWorker` and `NoNewWork` are proved and not part of a run.

Only model-checked: everything under fairness (`ShutdownReturns`, `EventsSettle`,
`InvokeEnds`, `ShutdownHonoured`, `NoOrphanSender`, `Ends`, both `Converges`, `JobTerminates`,
`DagRunCloses`), which is out of the prover's reach. Of `ShutdownReturns` and `InvokeEnds`
the parts that are not about fairness are proved, as said above.

## 5. Not modelled

Tasks, parameters and configuration, targets, decorators and the command line are
sequential transformations of data that unit tests reach. Plugins are adapters to
services; the Java client is a program of its own. The synchronous and the console
stores keep no state between calls. The data fetchers are transport, and the monitor's
configuration updater passes one answer on. The API client is planned. Most of the
repository's lines are vendored or generated code, plugins and tests, which is why the
modelled lines are a small share of it.

Inside the modelled parts: the loading of the DAG run before the job's loop, which may fail
with nothing begun; dry runs; the end of an executor that was killed by the operating system;
the exit of the process over a worker that nobody waits for; a monitor that dies and leaves
its child processes alive, and a component that cannot be stopped. `AsyncWebChannel.Shutdown`
tests `is_alive` and sets `_shutting_down` in one step, and
`CompositeTrackingStore.RemoveStore` takes a store off the dict and shuts it down in one:
a thread that passes the flag between the two steps of the first does nothing that it could
not do had it passed before, and nobody finds the store between the two of the second. After an exception in the DAG run job, Databand learns the states of
what did not run from the end of the whole run (`RunExecutor`), where unreported tasks fail.

Hazards without a property have a note in `PROJECT.json` that says why.

## 6. Plan

Done, in the order of importance: channel, composite store, run executor, builder,
syncer and fixer, monitor loop with error aggregation, Kubernetes scheduler, DAG run job;
proofs of the safety properties of all of them. To come:

1. The API client's sessions and retries, composed with the channel.
