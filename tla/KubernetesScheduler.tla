------------------------- MODULE KubernetesScheduler -------------------------
(***************************************************************************)
(* The Kubernetes executor of a DAG run: a loop that queues tasks, submits *)
(* a pod for each try, learns how pods end from a watcher process, from a  *)
(* queue of events, and from a search for zombies, and decides whether a   *)
(* try that crashed is retried.  Pods write the state of their task to the *)
(* Airflow database on their own; they crash, are deleted, or vanish; the  *)
(* watcher dies or starts its watch anew; calls to the cluster fail.       *)
(***************************************************************************)
EXTENDS Integers, Sequences, SequencesExt, FiniteSets

CONSTANTS Tasks,
          Retries,     \* the retries that a task may be given
          RetryCounts, \* retry counts that pod_retry_config sets for reasons of failure
          MaxFaults    \* bound: crashes, deletions, failed calls and restarts of the watcher

ASSUME TasksAssumption == IsFiniteSet(Tasks)
ASSUME RetriesAssumption ==
  /\ RetryCounts \cup Retries \subseteq Nat
  /\ \E m \in RetryCounts \cup Retries : \A n \in RetryCounts \cup Retries : n <= m
ASSUME FaultsAssumption == MaxFaults \in Nat

MaxRetries == CHOOSE m \in RetryCounts \cup Retries : \A n \in RetryCounts \cup Retries : n <= m

\* get_pod_name: a pod is named for the task and the try, as the executor's key is.
Pods == Tasks \X (1..(MaxRetries + 1))

VARIABLES
  ti,             \* Airflow database: state, _try_number and max_tries of each task
  tracked,        \* tracking service: the state of each task run
  pods,           \* cluster: phase of each pod, what runs in it, whether it is being deleted
  watching,       \* the watcher process is alive
  watcher_queue,  \* cluster -> watcher -> scheduler: the reports on pods that are under way
  submitted_pods, \* scheduler: the pods it looks after
  result_queue,   \* scheduler -> executor
  task_queue, running, event_buffer, \* executor
  waiting,        \* job: waiting_for_executor_result
  pods_to_delete, \* terminate: the pods whose tasks get a last state
  pc,             \* where the loop is
  faults,         \* counter for the bound
  created,        \* history: pods created for each task
  ambiguous,      \* history: tasks with a pod that may be made though the executor is done with it:
                  \* its creation was reported as failed, or it was a zombie while it was queued
  undeleted       \* history: pods whose deletion failed

database == <<ti, tracked>>
cluster == <<pods, created>>
watcher == <<watching, watcher_queue>>
executor == <<submitted_pods, result_queue, task_queue, running, event_buffer>>
history == <<ambiguous, undeleted>>
job == <<waiting, pods_to_delete, pc>>
vars == <<database, cluster, watcher, executor, job, faults, history>>

NoPod == [phase |-> "none", run |-> "boot", deleting |-> FALSE]
Nothing == [x \in {} |-> {}]
With(f, x, v) == [y \in DOMAIN f \cup {x} |-> IF y = x THEN v ELSE f[y]]
Without(f, x) == [y \in DOMAIN f \ {x} |-> f[y]]

Init ==
  /\ ti \in [Tasks -> [state : {"scheduled"}, try : {0}, max : Retries]]
  /\ tracked = [t \in Tasks |-> "scheduled"]
  /\ pods = [p \in Pods |-> NoPod]
  /\ watching = TRUE /\ watcher_queue = <<>>
  /\ submitted_pods = Nothing
  /\ result_queue = <<>> /\ task_queue = <<>> /\ running = {} /\ event_buffer = Nothing
  /\ waiting = {} /\ pods_to_delete = {}
  /\ pc = "schedule"
  /\ faults = 0
  /\ created = [t \in Tasks |-> 0]
  /\ ambiguous = {} /\ undeleted = {}

Faults(n) == faults + n <= MaxFaults /\ faults' = faults + n
Fault == Faults(1)

-----------------------------------------------------------------------------
(***************************************************************************)
(* Task instances of Airflow                                               *)
(***************************************************************************)
\* TaskInstance.try_number counts the next try unless the task is running.
TryNumber(i) == IF i.state = "running" THEN i.try ELSE i.try + 1
Key(t) == <<t, TryNumber(ti[t])>>
Finished == {"success", "failed"}

\* TaskInstance.handle_failure
HandleFailure(i) ==
  [i EXCEPT !.state = IF i.max > 0 /\ TryNumber(i) <= i.max THEN "up_for_retry" ELSE "failed"]

\* Fault: a try in which nothing ran is not counted.
HandleCrashedUncounted(i, count) == HandleFailure([i EXCEPT !.max = count])

\* _handle_crashed_task_instance: a pod that wrote nothing has not counted its try.
HandleCrashed(i, count) ==
  HandleFailure([i EXCEPT !.max = count, !.try = IF i.state = "queued" THEN @ + 1 ELSE @])

\* _process_pod_failed: a task that has finished keeps its state.
ProcessPodFailed(t) ==
  \/ ti[t].state \in Finished /\ UNCHANGED database
  \/ /\ ti[t].state \notin Finished
     /\ \E count \in RetryCounts \cup {ti[t].max} :
          ti' = [ti EXCEPT ![t] = HandleCrashed(@, count)]
     /\ tracked' = [tracked EXCEPT ![t] = ti'[t].state]

ProcessPodSuccess(t) ==
  \/ ti[t].state \in Finished \cup {"up_for_retry"} /\ UNCHANGED database
  \/ ti[t].state \notin Finished \cup {"up_for_retry"} /\ ProcessPodFailed(t)

-----------------------------------------------------------------------------
(***************************************************************************)
(* The cluster: pods and their events                                      *)
(***************************************************************************)
Event(p, pod, gone, err) == [pod |-> p, phase |-> pod.phase, deleting |-> pod.deleting, gone |-> gone, err |-> err]

FailedEvent(e) ==
  \/ e.gone /\ e.phase \notin {"Succeeded", "Failed"}
  \/ e.deleting \/ e.err \/ e.phase = "Failed"

\* _extended_process_state: what an event tells the scheduler, if anything.
Report(e) ==
  IF FailedEvent(e) THEN <<[pod |-> e.pod, state |-> "failed"]>>
  ELSE IF e.phase = "Running" THEN <<[pod |-> e.pod, state |-> "running"]>>
  ELSE IF e.phase = "Succeeded" THEN <<[pod |-> e.pod, state |-> "finished"]>>
  ELSE <<>>

\* An event reaches the scheduler through the watcher, if there is one.
Emit(e) == watcher_queue' = IF watching THEN watcher_queue \o Report(e) ELSE watcher_queue
Exists(p) == pods[p].phase # "none"
Alive(p) == pods[p].phase = "Running" /\ pods[p].run = "task"

ChangePod(p, pod) ==
  /\ pods' = [pods EXCEPT ![p] = pod]
  /\ Emit(Event(p, pod, FALSE, FALSE))
  /\ UNCHANGED <<created, watching, executor, job, history>>

PodStarts(p) ==
  /\ pods[p].phase = "Pending" /\ ~pods[p].deleting
  /\ ChangePod(p, [pods[p] EXCEPT !.phase = "Running"])
  /\ UNCHANGED <<database, faults>>

\* check_deploy_errors or check_running_errors would fail.
PodHasError(p) ==
  /\ pods[p].phase \in {"Pending", "Running"}
  /\ Fault
  /\ Emit(Event(p, pods[p], FALSE, TRUE))
  /\ UNCHANGED <<database, pods, created, watching, executor, job, history>>

\* airflow run in the pod: it begins a try, or finds that the task must not run.  A pod that is
\* being deleted is killed before it comes that far; one that runs its task may still write.
PodBoots(p) ==
  /\ pods[p].phase = "Running" /\ pods[p].run = "boot" /\ ~pods[p].deleting
  /\ \/ /\ ti[p[1]].state = "queued"
        /\ ti' = [ti EXCEPT ![p[1]].state = "running", ![p[1]].try = @ + 1]
        /\ tracked' = [tracked EXCEPT ![p[1]] = "running"]
        /\ pods' = [pods EXCEPT ![p].run = "task"]
     \/ /\ ti[p[1]].state # "queued"
        /\ pods' = [pods EXCEPT ![p].run = "done"]
        /\ UNCHANGED database
  /\ UNCHANGED <<created, watcher, executor, job, faults, history>>

\* The task ends, unless its state was changed meanwhile: then the pod stops itself.
PodWrites(p) ==
  /\ Alive(p)
  /\ pods' = [pods EXCEPT ![p].run = "done"]
  /\ \/ /\ ti[p[1]].state = "running"
        /\ \E i \in {[ti[p[1]] EXCEPT !.state = "success"], HandleFailure(ti[p[1]])} :
             ti' = [ti EXCEPT ![p[1]] = i]
        /\ tracked' = [tracked EXCEPT ![p[1]] = ti'[p[1]].state]
     \/ ti[p[1]].state # "running" /\ UNCHANGED database
  /\ UNCHANGED <<created, watcher, executor, job, faults, history>>

PodExits(p) ==
  /\ pods[p].phase = "Running" /\ pods[p].run = "done"
  /\ ChangePod(p, [pods[p] EXCEPT !.phase = "Succeeded"])
  /\ UNCHANGED <<database, faults>>

PodCrashes(p) ==
  /\ pods[p].phase \in {"Pending", "Running"}
  /\ Fault
  /\ ChangePod(p, [pods[p] EXCEPT !.phase = "Failed"])
  /\ UNCHANGED database

\* Somebody else deletes the pod: preemption, a spot node.
PodEvicted(p) ==
  /\ Exists(p) /\ ~pods[p].deleting
  /\ Fault
  /\ ChangePod(p, [pods[p] EXCEPT !.deleting = TRUE])
  /\ UNCHANGED database

PodRemoved(p) ==
  /\ Exists(p) /\ pods[p].deleting
  /\ pods' = [pods EXCEPT ![p] = NoPod]
  /\ Emit(Event(p, pods[p], TRUE, FALSE))
  /\ UNCHANGED <<database, created, watching, executor, job, faults, history>>

Cluster ==
  \E p \in Pods :
    \/ PodStarts(p) \/ PodHasError(p) \/ PodBoots(p) \/ PodWrites(p) \/ PodExits(p)
    \/ PodCrashes(p) \/ PodEvicted(p) \/ PodRemoved(p)

-----------------------------------------------------------------------------
(***************************************************************************)
(* The watcher process: what it has not seen yet is the end of the queue   *)
(***************************************************************************)
\* An exception on a specific event: the event is dropped and the watch goes on.
WatchSkips ==
  /\ watching
  /\ Fault
  /\ \E i \in 1..Len(watcher_queue) : watcher_queue' = RemoveAt(watcher_queue, i)
  /\ UNCHANGED <<database, cluster, watching, executor, job, history>>

\* A watch that begins without a resource version lists the pods there are, in any order.
Listed(p) == Report(Event(p, pods[p], FALSE, FALSE))
Listings ==
  {[i \in DOMAIN s |-> Head(Listed(s[i]))] : s \in SetToSeqs({p \in Pods : Exists(p) /\ Listed(p) # <<>>})}

\* process_error: the resource version is too old.
WatchExpires ==
  /\ watching
  /\ Fault
  /\ \E n \in 0..Len(watcher_queue), l \in Listings : watcher_queue' = SubSeq(watcher_queue, 1, n) \o l
  /\ UNCHANGED <<database, cluster, watching, executor, job, history>>

WatcherDies ==
  /\ watching
  /\ Fault
  /\ watching' = FALSE
  /\ \E n \in 0..Len(watcher_queue) : watcher_queue' = SubSeq(watcher_queue, 1, n)
  /\ UNCHANGED <<database, cluster, executor, job, history>>

Watcher == WatchSkips \/ WatchExpires \/ WatcherDies

-----------------------------------------------------------------------------
(***************************************************************************)
(* The loop of the job, with the executor's heartbeat in it                *)
(***************************************************************************)
\* Fault: the job does not wait for the executor's result.
RunnableAtOnce(t) == ti[t].state \in {"scheduled", "up_for_retry"} /\ Key(t) \notin running

Runnable(t) ==
  ti[t].state \in {"scheduled", "up_for_retry"} /\ t \notin waiting /\ Key(t) \notin running

\* Dependencies and the retry delay decide which runnable tasks are queued now.
ScheduleTasks(S) ==
  /\ pc = "schedule"
  /\ \E t \in Tasks : ti[t].state \notin Finished
  /\ \A t \in S : Runnable(t)
  /\ ti' = [t \in Tasks |-> IF t \in S THEN [ti[t] EXCEPT !.state = "queued"] ELSE ti[t]]
  /\ waiting' = waiting \cup S
  /\ running' = running \cup {Key(t) : t \in S}
  /\ \E q \in SetToSeqs({Key(t) : t \in S}) : task_queue' = task_queue \o q
  /\ pc' = IF watching THEN "events" ELSE "health"
  /\ UNCHANGED <<tracked, cluster, watcher, submitted_pods, result_queue, event_buffer,
                 pods_to_delete, faults, history>>

\* _health_check_kube_watcher: a new watcher begins from no resource version.
HealthCheck ==
  /\ pc = "health"
  /\ watching' = TRUE
  /\ \E l \in Listings : watcher_queue' = watcher_queue \o l
  /\ pc' = "events"
  /\ UNCHANGED <<database, cluster, executor, waiting, pods_to_delete, faults, history>>

PutResult(e) ==
  /\ result_queue' = Append(result_queue, e)
  /\ submitted_pods' = [submitted_pods EXCEPT ![e.pod].processed = TRUE]

\* process_watcher_task
HandleEvent(e) ==
  \/ /\ \/ e.pod \notin DOMAIN submitted_pods
        \/ e.pod \in DOMAIN submitted_pods /\ submitted_pods[e.pod].processed
     /\ UNCHANGED <<database, submitted_pods, result_queue>>
  \/ /\ e.pod \in DOMAIN submitted_pods /\ ~submitted_pods[e.pod].processed
     /\ \/ /\ e.state = "running"
           /\ submitted_pods' = [submitted_pods EXCEPT ![e.pod].node = TRUE]
           /\ UNCHANGED <<database, result_queue>>
        \/ e.state = "finished" /\ ProcessPodSuccess(e.pod[1]) /\ PutResult(e)
        \/ e.state = "failed" /\ ProcessPodFailed(e.pod[1]) /\ PutResult(e)

ProcessWatcherTask ==
  /\ pc = "events" /\ watcher_queue # <<>>
  /\ watcher_queue' = Tail(watcher_queue)
  /\ HandleEvent(Head(watcher_queue))
  /\ UNCHANGED <<cluster, watching, task_queue, running, event_buffer, job, faults, history>>

AfterResults == IF task_queue # <<>> THEN "run" ELSE IF DOMAIN event_buffer # {} THEN "manage" ELSE "schedule"

EventsDone ==
  /\ pc = "events" /\ watcher_queue = <<>>
  /\ pc' = IF result_queue # <<>> THEN "results" ELSE AfterResults
  /\ UNCHANGED <<database, cluster, watcher, executor, waiting, pods_to_delete, faults, history>>

\* delete_pod: the scheduler forgets the pod first, then asks the cluster to delete it.
DeletePod(p) ==
  /\ submitted_pods' = Without(submitted_pods, p)
  /\ \/ /\ p \in DOMAIN submitted_pods /\ Exists(p) /\ ~pods[p].deleting
        /\ pods' = [pods EXCEPT ![p].deleting = TRUE]
        /\ Emit(Event(p, pods'[p], FALSE, FALSE))
        /\ UNCHANGED <<undeleted, faults>>
     \/ /\ p \in DOMAIN submitted_pods /\ Exists(p) /\ ~pods[p].deleting
        /\ Fault
        /\ undeleted' = undeleted \cup {p}
        /\ UNCHANGED <<pods, watcher_queue>>
     \/ /\ p \in DOMAIN submitted_pods => ~Exists(p) \/ pods[p].deleting
        /\ UNCHANGED <<pods, watcher_queue, undeleted, faults>>

\* _change_state
ChangeState(p, state) ==
  /\ DeletePod(p)
  /\ running' = running \ {p}
  /\ event_buffer' = With(event_buffer, p, state)

ProcessResult ==
  /\ pc = "results" /\ result_queue # <<>>
  /\ result_queue' = Tail(result_queue)
  /\ ChangeState(Head(result_queue).pod, Head(result_queue).state)
  /\ UNCHANGED <<database, created, watching, task_queue, job, ambiguous>>

ResultsDone ==
  /\ pc = "results" /\ result_queue = <<>>
  /\ pc' = AfterResults
  /\ UNCHANGED <<database, cluster, watcher, executor, waiting, pods_to_delete, faults, history>>

AfterRun == IF DOMAIN event_buffer # {} THEN "manage" ELSE "schedule"

CreatePod(p) ==
  /\ ~Exists(p)
  /\ pods' = [pods EXCEPT ![p] = [NoPod EXCEPT !.phase = "Pending"]]
  /\ Emit(Event(p, pods'[p], FALSE, FALSE))
  /\ created' = [created EXCEPT ![p[1]] = @ + 1]

Track(t, state) == tracked' = [tracked EXCEPT ![t] = state]
Requeue(p) == task_queue' = Append(Tail(task_queue), p)

\* The answers of create_namespaced_pod, and what run_pod and sync make of them.
Submit(p) ==
  \/ /\ CreatePod(p)
     /\ Track(p[1], "queued") /\ task_queue' = Tail(task_queue)
     /\ UNCHANGED <<faults, ambiguous>>
  \/ /\ Exists(p)                          \* conflict
     /\ Track(p[1], "failed") /\ Requeue(p)
     /\ UNCHANGED <<cluster, watcher_queue, faults, ambiguous>>
  \/ /\ Fault                              \* ApiException
     /\ Track(p[1], "failed") /\ Requeue(p)
     /\ UNCHANGED <<cluster, watcher_queue, ambiguous>>
  \/ /\ Fault                              \* HTTPError, the request was lost
     /\ Track(p[1], "queued") /\ Requeue(p)
     /\ UNCHANGED <<cluster, watcher_queue, ambiguous>>
  \/ /\ Faults(2) /\ CreatePod(p)          \* HTTPError, the answer was lost (a bound: it counts twice)
     /\ Track(p[1], "queued") /\ Requeue(p)
     /\ ambiguous' = ambiguous \cup {p[1]}

\* Fault: the pod is recorded when the cluster has answered.
RunNextRecordsLast ==
  /\ pc = "run"
  /\ Submit(Head(task_queue))
  /\ submitted_pods' = IF task_queue' = Tail(task_queue)
       THEN With(submitted_pods, Head(task_queue), [node |-> FALSE, processed |-> FALSE])
       ELSE submitted_pods
  /\ pc' = AfterRun
  /\ UNCHANGED <<ti, watching, result_queue, running, event_buffer, waiting, pods_to_delete, undeleted>>

\* run_next, for a batch of one pod
RunNext ==
  /\ pc = "run"
  /\ submitted_pods' = With(submitted_pods, Head(task_queue), [node |-> FALSE, processed |-> FALSE])
  /\ Submit(Head(task_queue))
  /\ pc' = AfterRun
  /\ UNCHANGED <<ti, watching, result_queue, running, event_buffer, waiting, pods_to_delete, undeleted>>

\* _manage_executor_state: the executor has done with a task that says it is not done.
ManageExecutorState(p) ==
  /\ pc = "manage" /\ p \in DOMAIN event_buffer
  /\ event_buffer' = Without(event_buffer, p)
  /\ waiting' = waiting \ {p[1]}
  /\ IF p[1] \in waiting /\ event_buffer[p] = "failed" /\ ti[p[1]].state \in {"running", "queued"}
     THEN ti' = [ti EXCEPT ![p[1]] = HandleFailure(@)]
     ELSE ti' = ti
  /\ UNCHANGED <<tracked, cluster, watcher, submitted_pods, result_queue, task_queue, running,
                 pods_to_delete, pc, faults, history>>

ManageDone ==
  /\ pc = "manage" /\ DOMAIN event_buffer = {}
  /\ pc' = "schedule"
  /\ UNCHANGED <<database, cluster, watcher, executor, waiting, pods_to_delete, faults, history>>

RunningZombie(t) == ti[t].state = "running" /\ \A p \in Pods : p[1] = t => ~Alive(p)
\* Fault: no search for pods that vanished before they ran.
PendingZombieIgnored(t) == FALSE

\* A pod that was submitted long ago, did not run and is not there; it may be queued again.
PendingZombie(t) ==
  \E p \in DOMAIN submitted_pods : p[1] = t /\ ~submitted_pods[p].node /\ ~Exists(p)

\* clear_zombie_task_instance; the next iteration may begin after it.  The queue keeps a pod that
\* is to be submitted again.
ClearZombie(t) ==
  /\ pc = "schedule"
  /\ Key(t) \in running /\ Key(t) \in DOMAIN submitted_pods
  /\ ProcessPodFailed(t)
  /\ ChangeState(Key(t), "finished")
  /\ ambiguous' = IF Key(t) \in Range(task_queue) THEN ambiguous \cup {t} ELSE ambiguous
  /\ UNCHANGED <<created, watching, result_queue, task_queue, job>>

CleanZombie(t) == (RunningZombie(t) \/ PendingZombie(t)) /\ ClearZombie(t)

-----------------------------------------------------------------------------
(***************************************************************************)
(* The end: all tasks are done, or a step of the loop raised               *)
(***************************************************************************)
\* The watcher and its queue go first.
Terminate ==
  /\ watching' = FALSE /\ watcher_queue' = <<>>
  /\ result_queue' = <<>> /\ task_queue' = <<>> /\ running' = {} /\ event_buffer' = Nothing
  /\ waiting' = {}
  /\ pc' = "terminate"
  /\ UNCHANGED <<database, cluster, submitted_pods, pods_to_delete, history>>

JobEnds ==
  /\ pc = "schedule" /\ \A t \in Tasks : ti[t].state \in Finished
  /\ Terminate /\ UNCHANGED faults

\* The run was killed, a pod could not be read, or a request was forbidden.
LoopRaises == pc \in {"schedule", "events", "run"} /\ Fault /\ Terminate

TerminatePod(p) ==
  /\ pc = "terminate" /\ p \in DOMAIN submitted_pods
  /\ DeletePod(p)
  /\ pods_to_delete' = pods_to_delete \cup {p}
  /\ UNCHANGED <<database, created, watching, result_queue, task_queue, running, event_buffer,
                 waiting, pc, ambiguous>>

PodsTerminated ==
  /\ pc = "terminate" /\ DOMAIN submitted_pods = {}
  /\ pc' = "cancel"
  /\ UNCHANGED <<database, cluster, watcher, executor, waiting, pods_to_delete, faults, history>>

\* Fault: the state of the task instance is not looked at.
LastStateCancelled(t) == IF tracked[t] \in {"failed"} THEN tracked[t] ELSE "cancelled"

\* _terminate_all_running_pods: the last state of the tasks whose pods were deleted
LastState(t) ==
  IF ti[t].state \notin Finished THEN "cancelled"
  ELSE IF tracked[t] \in Finished THEN tracked[t] ELSE ti[t].state

SetLastStates ==
  /\ pc = "cancel"
  /\ tracked' = [t \in Tasks |->
       IF \E p \in pods_to_delete : p[1] = t THEN LastState(t) ELSE tracked[t]]
  /\ pc' = "ended"
  /\ UNCHANGED <<ti, cluster, watcher, executor, waiting, pods_to_delete, faults, history>>

Loop ==
  \/ HealthCheck \/ ProcessWatcherTask \/ EventsDone \/ ProcessResult \/ ResultsDone
  \/ RunNext \/ (\E p \in Pods : ManageExecutorState(p)) \/ ManageDone
  \/ JobEnds \/ (\E p \in Pods : TerminatePod(p)) \/ PodsTerminated \/ SetLastStates

Schedule(t) == \E S \in SUBSET Tasks : t \in S /\ ScheduleTasks(S)

Next ==
  \/ Cluster \/ Watcher \/ Loop \/ LoopRaises
  \/ (\E S \in SUBSET Tasks : ScheduleTasks(S)) \/ (\E t \in Tasks : CleanZombie(t))

Spec == Init /\ [][Next]_vars

\* Pods make progress, the loop turns, and a delay or a timeout of the loop ends.
Fairness ==
  /\ \A p \in Pods :
       WF_vars(PodStarts(p)) /\ WF_vars(PodBoots(p)) /\ WF_vars(PodWrites(p))
         /\ WF_vars(PodExits(p)) /\ WF_vars(PodRemoved(p))
  /\ WF_vars(Loop) /\ WF_vars(\E S \in SUBSET Tasks : ScheduleTasks(S))
  /\ \A t \in Tasks : SF_vars(Schedule(t)) /\ SF_vars(CleanZombie(t))

FairSpec == Spec /\ Fairness

-----------------------------------------------------------------------------
(***************************************************************************)
(* Properties                                                              *)
(***************************************************************************)
States == {"scheduled", "queued", "running", "success", "failed", "up_for_retry"}
TaskInstance == [state : States, try : 0..(MaxRetries + 1), max : RetryCounts \cup Retries]
Pod == [phase : {"none", "Pending", "Running", "Succeeded", "Failed"},
        run : {"boot", "task", "done"}, deleting : BOOLEAN]
Reports == [pod : Pods, state : {"failed", "running", "finished"}]

\* The states, events and queues of the database, the cluster, the watcher and the loop.
TypeOK ==
  /\ ti \in [Tasks -> TaskInstance] /\ tracked \in [Tasks -> States \cup {"cancelled"}]
  /\ pods \in [Pods -> Pod]
  /\ watching \in BOOLEAN
  /\ watcher_queue \in Seq(Reports) /\ result_queue \in Seq(Reports)
  /\ DOMAIN submitted_pods \subseteq Pods
  /\ submitted_pods \in [DOMAIN submitted_pods -> [node : BOOLEAN, processed : BOOLEAN]]
  /\ task_queue \in Seq(Pods) /\ running \subseteq Pods
  /\ DOMAIN event_buffer \subseteq Pods
  /\ event_buffer \in [DOMAIN event_buffer -> {"failed", "running", "finished"}]
  /\ waiting \subseteq Tasks /\ pods_to_delete \subseteq Pods
  /\ pc \in {"schedule", "health", "events", "results", "run", "manage",
             "terminate", "cancel", "ended"}
  /\ faults \in 0..MaxFaults
  /\ created \in [Tasks -> Nat] /\ ambiguous \subseteq Tasks /\ undeleted \subseteq Pods

Busy(p) == pods[p].phase \in {"Pending", "Running"} /\ ~pods[p].deleting

\* A pod that takes resources of the cluster is one the scheduler will delete: run_next records
\* the pod before it is created, whatever the cluster answers.
PodsTracked ==
  \A p \in Pods : Busy(p) => p \in DOMAIN submitted_pods \/ p \in undeleted

\* The calls that created and deleted the pods of the task did what they said, and none of its pods
\* was cleared as a zombie while it waited to be submitted again.
Clean(t) == t \notin ambiguous /\ \A p \in undeleted : p[1] # t

\* The scheduler looks after one pod of a task, and when there is another that lives its deletion
\* has been asked for: the job waits for the executor's result, and the executor deletes the pod
\* before it gives the result.  So no late event of an old pod fails a new try.  (The old pod may
\* live, and write, until the cluster has done what it was asked.)
OnePodSubmitted ==
  \A p \in DOMAIN submitted_pods, q \in Pods :
    p # q /\ p[1] = q[1] /\ Clean(p[1]) => q \notin DOMAIN submitted_pods /\ ~Busy(q)

\* A try is counted even if nothing ran in its pod, so a task gets no more pods than tries.
TriesBounded == \A t \in Tasks : Clean(t) => created[t] <= MaxRetries + 1

\* Whoever ends a task - its pod, the scheduler, the zombie cleaner or terminate - tells the
\* tracking service the state that the database has.
OutcomeTracked ==
  \A t \in Tasks : ti[t].state \in Finished /\ Clean(t) => tracked[t] = ti[t].state

Reported(p) == \E i \in 1..Len(watcher_queue) : watcher_queue[i].pod = p

\* The gap of the two searches for zombies: no event is left of a pod that is over, and its task
\* is neither running nor is the pod one that never ran and is gone.
Stuck ==
  \E p \in DOMAIN submitted_pods :
    /\ pods[p].phase \in {"none", "Succeeded", "Failed"} /\ ~Reported(p)
    /\ \/ ti[p[1]].state = "up_for_retry"
       \/ ti[p[1]].state = "queued" /\ (submitted_pods[p].node \/ Exists(p))

PodsGone == \A p \in Pods : Exists(p) => p \in undeleted

\* The job ends, whatever events are lost, unless the loss falls into that gap, and leaves no
\* pod but the ones the cluster refused to delete.
JobTerminates == <>[](pc = "ended" /\ PodsGone) \/ <>[]Stuck

\* A task that is up for retry is tried again: a pod that fails after airflow stored the state of
\* its task has nothing more to tell.
RetryKept ==
  [][\A t \in Tasks : ti[t].state = "up_for_retry" => ti'[t].state \in {"up_for_retry", "queued"}]_vars
==============================================================================
