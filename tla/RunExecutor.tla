----------------------------- MODULE RunExecutor -----------------------------
(***************************************************************************)
(* One orchestration run: RunExecutor.run_execute runs the driver task,    *)
(* whose run_driver runs the pipeline's tasks with LocalTaskExecutor, one  *)
(* at a time, each through TaskRunRunner.execute.  A task may fail, exit,  *)
(* be interrupted, be killed by SIGTERM or kill the run itself; a tracking *)
(* call may fail with TrackerPanicError.  A heartbeat subprocess sends     *)
(* SIGTERM to the driver when the server says SHUTDOWN.                    *)
(***************************************************************************)
EXTENDS Naturals

CONSTANTS Tasks,          \* the tasks of the pipeline
          MayBeDisabled,    \* those whose task_enabled may be off
          Upstream,         \* task -> its direct upstream tasks among them
          Children,         \* task -> its child tasks (of a pipeline task)
          Reused,           \* task runs with is_reused
          FailFast,         \* run.fail_fast
          AllowKill,        \* whether somebody calls DatabandRun.kill()
          AllowCrash,       \* whether the driver process may die violently
          MaxTrackFails,    \* bound: tracking calls that raise
          MaxSigTerms,      \* bound: SIGTERMs from outside (not the heartbeat)
          MaxInterrupts     \* bound: KeyboardInterrupts

Driver == "driver"
TaskRuns == Tasks \cup {Driver}
NoTask == "no task"

ASSUME TasksAssumption == Driver \notin Tasks /\ NoTask \notin Tasks
ASSUME GraphAssumption ==
  /\ Upstream \in [Tasks -> SUBSET Tasks]
  /\ Children \in [Tasks -> SUBSET Tasks]
  /\ MayBeDisabled \subseteq Tasks
  /\ Reused \subseteq Tasks \ MayBeDisabled
ASSUME BoundsAssumption ==
  /\ {FailFast, AllowKill, AllowCrash} \subseteq BOOLEAN
  /\ {MaxTrackFails, MaxSigTerms, MaxInterrupts} \subseteq Nat

direct_fail_states == {"FAILED", "CANCELLED"}
fail_states == direct_fail_states \cup {"UPSTREAM_FAILED"}
final_states == fail_states \cup {"SUCCESS"}
TaskRunState == final_states \cup {"NONE", "SCHEDULED", "RUNNING"}
RunState == {"NONE", "RUNNING", "SUCCESS", "FAILED", "SHUTDOWN", "CANCELLED"}

VARIABLES
  pc,            \* where the driver process is
  ex,            \* the exception in flight
  state,         \* TaskRun._task_run_state of every task run
  tracked,       \* the state of every task run that the server knows
  disabled,      \* tasks of the graph for which there is no task run
  visited,       \* tasks the loop of do_run is done with
  current,       \* the task that is being executed
  batch,         \* task_runs_to_update_state
  task_failed,   \* task_failed of do_run
  killed,        \* _is_killed, of the whole process
  run_state,     \* DatabandRun._run_state
  srv_run,       \* the state of the run that the server knows
  hb,            \* whether the heartbeat sender is running
  sig,           \* a SIGTERM is pending
  fails, sigterms, interrupts   \* bounded counters of the environment

taskVars == <<state, tracked>>
loopVars == <<disabled, visited, current, batch, task_failed>>
runVars == <<run_state, srv_run>>
envVars == <<hb, sig, sigterms, interrupts>>
vars == <<pc, ex, taskVars, loopVars, killed, runVars, envVars, fails>>

Init ==
  /\ pc = "init"
  /\ ex = "none"
  /\ state = [r \in TaskRuns |-> "NONE"]
  /\ tracked = [r \in TaskRuns |-> "NONE"]
  /\ disabled \in SUBSET MayBeDisabled
  /\ visited = {}
  /\ current = NoTask
  /\ batch = {}
  /\ task_failed = FALSE
  \* An earlier run of this process may have been killed: nothing clears the event.
  /\ killed \in BOOLEAN
  /\ run_state = "NONE"
  /\ srv_run = "NONE"
  /\ hb = FALSE
  /\ sig = FALSE
  /\ fails = 0
  /\ sigterms = 0
  /\ interrupts = 0

-----------------------------------------------------------------------------
(***************************************************************************)
(* Tracking calls: ok says whether the call returned; one that raised may  *)
(* still have reached the server.                                          *)
(***************************************************************************)
CallEnds(ok) ==
  IF ok THEN UNCHANGED fails ELSE fails < MaxTrackFails /\ fails' = fails + 1

set_task_run_state(r, s, ok) ==
  /\ state' = [state EXCEPT ![r] = s]
  /\ IF state[r] = s
       THEN ok /\ UNCHANGED <<tracked, fails>>
       ELSE /\ CallEnds(ok)
            /\ \/ tracked' = [tracked EXCEPT ![r] = s]
               \/ ~ok /\ UNCHANGED tracked

set_run_state(s, ok) ==
  /\ run_state' = s
  /\ CallEnds(ok)
  /\ srv_run' = s \/ (~ok /\ UNCHANGED srv_run)

\* Fault: the heartbeat sender is stopped only when do_run returns.
LeaveSenderOn(e) ==
  /\ pc' = "driver_exc"
  /\ ex' = e
  /\ UNCHANGED hb

\* e leaves do_run (the heartbeat sender is stopped on the way) for the handlers
\* around the driver task.
LeaveDoRun(e) ==
  /\ pc' = "driver_exc"
  /\ ex' = e
  /\ hb' = FALSE

-----------------------------------------------------------------------------
(***************************************************************************)
(* run_execute, the start of the driver task and run_driver                *)
(***************************************************************************)
StartRun(ok) ==
  /\ pc = "init"
  /\ set_run_state("RUNNING", ok)
  /\ pc' = IF ok THEN "driver" ELSE "done"
  /\ ex' = IF ok THEN ex ELSE "error"
  /\ UNCHANGED <<taskVars, loopVars, killed, envVars>>

\* The run is killed already, or one of the driver task's contexts raises when it is
\* entered: before the try block, so the driver's state stays as it is.
DriverNotEntered ==
  /\ pc = "driver"
  /\ pc' = "run_error"
  /\ ex' = "error"
  /\ UNCHANGED <<taskVars, loopVars, killed, runVars, envVars, fails>>

DriverStart(ok) ==
  /\ pc = "driver"
  /\ ~killed
  /\ set_task_run_state(Driver, "RUNNING", ok)
  /\ pc' = IF ok THEN "prepare" ELSE "driver_exc"
  /\ ex' = IF ok THEN ex ELSE "error"
  /\ UNCHANGED <<loopVars, killed, runVars, envVars>>

\* prepare_env, git policy, building the tasks, checking that they form a DAG; once
\* the server has the task runs: the run's pickle, the task executor, the process of
\* the heartbeat sender.
PrepareFails ==
  /\ pc \in {"prepare", "prepared"} \/ (pc = "driver" /\ ~killed)
  /\ pc' = "driver_exc"
  /\ ex' = "error"
  /\ UNCHANGED <<taskVars, loopVars, killed, runVars, envVars, fails>>

\* add_task_runs_and_track
Prepare(ok) ==
  /\ pc = "prepare"
  /\ CallEnds(ok)
  /\ \/ tracked' = [r \in TaskRuns |-> IF r \in {Driver} \cup disabled THEN tracked[r]
                                       ELSE IF r \in Reused THEN "SUCCESS" ELSE "SCHEDULED"]
     \/ ~ok /\ UNCHANGED tracked
  /\ pc' = IF ok THEN "prepared" ELSE "driver_exc"
  /\ ex' = IF ok THEN ex ELSE "error"
  /\ UNCHANGED <<state, loopVars, killed, runVars, envVars>>

\* The heartbeat sender runs and do_run begins.
StartLoop ==
  /\ pc = "prepared"
  /\ pc' = "loop"
  /\ hb' = TRUE
  /\ UNCHANGED <<ex, taskVars, loopVars, killed, runVars, sig, sigterms, interrupts, fails>>

-----------------------------------------------------------------------------
(***************************************************************************)
(* LocalTaskExecutor.do_run: the loop over the tasks in topological order  *)
(***************************************************************************)
\* topological_sort: any task whose upstream tasks the loop is done with.
IsNext(t) ==
  /\ pc = "loop"
  /\ t \in Tasks \ (visited \cup disabled)
  /\ Upstream[t] \subseteq visited \cup disabled

\* Set without tracking; the server is told at the end of the loop.
SetInBatch(t, s) ==
  /\ state' = [state EXCEPT ![t] = s]
  /\ batch' = batch \cup {t}
  /\ visited' = visited \cup {t}
  /\ UNCHANGED <<pc, ex, tracked, disabled, current, task_failed, killed, runVars,
                 envVars, fails>>

SkipReused(t) ==
  /\ IsNext(t)
  /\ t \in Reused
  /\ visited' = visited \cup {t}
  /\ UNCHANGED <<pc, ex, taskVars, disabled, current, batch, task_failed, killed,
                 runVars, envVars, fails>>

FailFastSkips(t) == FailFast /\ task_failed

\* The tasks whose task runs the loop looks up for t and does not find.
Missing(t) == (IF FailFastSkips(t) THEN Children[t] ELSE Upstream[t]) \cap disabled

\* The state of a task run that is None is asked for outside the loop's try block:
\* the error leaves do_run, and the batch with it.
UpstreamMissing(t) ==
  /\ IsNext(t)
  /\ t \notin Reused
  /\ Missing(t) # {}
  /\ LeaveDoRun("error")
  /\ UNCHANGED <<taskVars, loopVars, killed, runVars, sig, sigterms, interrupts, fails>>

Considered(t) == IsNext(t) /\ t \notin Reused /\ Missing(t) = {}

get_upstream_failed_task_run_state(t) ==
  IF \E c \in Children[t] : state[c] = "FAILED" THEN "FAILED" ELSE "UPSTREAM_FAILED"

SkipFailFast(t) ==
  /\ Considered(t)
  /\ FailFastSkips(t)
  /\ SetInBatch(t, get_upstream_failed_task_run_state(t))

\* Fault: an upstream task that was itself skipped does not count as failed.
DirectlyFailedUpstream(t) == {u \in Upstream[t] : state[u] \in direct_fail_states}

failed_upstream(t) == {u \in Upstream[t] : state[u] \in fail_states}

SkipUpstreamFailed(t) ==
  /\ Considered(t)
  /\ ~FailFastSkips(t)
  /\ failed_upstream(t) # {}
  /\ SetInBatch(t, "UPSTREAM_FAILED")

SkipKilled(t) ==
  /\ Considered(t)
  /\ ~FailFastSkips(t)
  /\ failed_upstream(t) = {}
  /\ killed
  /\ SetInBatch(t, "FAILED")

Enter(t) ==
  /\ Considered(t)
  /\ ~FailFastSkips(t)
  /\ failed_upstream(t) = {}
  /\ ~killed
  /\ current' = t
  /\ pc' = "enter"
  /\ UNCHANGED <<ex, taskVars, disabled, visited, batch, task_failed, killed, runVars,
                 envVars, fails>>

\* execute() of the current task is over and do_run goes on with the next one.
LeaveTask(failed) ==
  /\ pc' = "loop"
  /\ ex' = "none"
  /\ visited' = visited \cup {current}
  /\ current' = NoTask
  /\ task_failed' = (task_failed \/ failed)
  /\ UNCHANGED <<disabled, batch>>

LoopEnds ==
  /\ pc = "loop"
  /\ visited = Tasks \ disabled
  /\ pc' = "flush"
  /\ UNCHANGED <<ex, taskVars, loopVars, killed, runVars, envVars, fails>>

\* Fault: only the tasks that were skipped are reported.
CollectSkipped == \E r \in TaskRuns : state[r] = "UPSTREAM_FAILED"

_collect_errors == \E r \in TaskRuns : state[r] \in fail_states

\* Fault: the states that were set without tracking are never sent.
FlushNothing(ok) ==
  /\ pc = "flush"
  /\ ok
  /\ hb' = FALSE
  /\ IF ~(task_failed /\ _collect_errors)
       THEN pc' = "finish" /\ UNCHANGED ex
       ELSE pc' = "driver_exc" /\ ex' = "error"
  /\ UNCHANGED <<taskVars, loopVars, killed, runVars, sig, sigterms, interrupts,
                 fails>>

\* The batch of states, and the error of the failed tasks; the heartbeat stops.
Flush(ok) ==
  /\ pc = "flush"
  /\ IF batch = {}
       THEN ok /\ UNCHANGED <<tracked, fails>>
       ELSE /\ CallEnds(ok)
            /\ \/ tracked' = [r \in TaskRuns |-> IF r \in batch THEN state[r] ELSE tracked[r]]
               \/ ~ok /\ UNCHANGED tracked
  /\ hb' = FALSE
  /\ IF ok /\ ~(task_failed /\ _collect_errors)
       THEN pc' = "finish" /\ UNCHANGED ex
       ELSE pc' = "driver_exc" /\ ex' = "error"
  /\ UNCHANGED <<state, loopVars, killed, runVars, sig, sigterms, interrupts>>

-----------------------------------------------------------------------------
(***************************************************************************)
(* TaskRunRunner.execute of a pipeline task                                *)
(***************************************************************************)
\* The run is killed, or a context of the task raises when it is entered: before the
\* try block, so the task run's state stays as it is.
NotEntered ==
  /\ pc = "enter"
  /\ LeaveTask(TRUE)
  /\ UNCHANGED <<taskVars, killed, runVars, envVars, fails>>

\* The call raised inside the try block: on to the handlers of the task.
OrTaskRaises(ok, next) ==
  /\ pc' = IF ok THEN next ELSE "task_exc"
  /\ ex' = IF ok THEN ex ELSE "error"

\* Fault: the task run's state becomes the REUSED of constants.py.
TaskReusedState(ok) ==
  /\ pc = "enter"
  /\ ~killed
  /\ state' = [state EXCEPT ![current] = "REUSED"]
  /\ CallEnds(ok)
  /\ UNCHANGED tracked
  /\ OrTaskRaises(ok, "cleanup")
  /\ UNCHANGED <<loopVars, killed, runVars, envVars>>

\* skip_completed_on_run and the task is complete.
TaskReused(ok) ==
  /\ pc = "enter"
  /\ ~killed
  /\ state' = [state EXCEPT ![current] = "SUCCESS"]
  /\ CallEnds(ok)
  /\ \/ tracked' = [tracked EXCEPT ![current] = "SUCCESS"]
     \/ ~ok /\ UNCHANGED tracked
  /\ OrTaskRaises(ok, "cleanup")
  /\ UNCHANGED <<loopVars, killed, runVars, envVars>>

TaskRunning(ok) ==
  /\ pc = "enter"
  /\ ~killed
  /\ set_task_run_state(current, "RUNNING", ok)
  /\ OrTaskRaises(ok, "running")
  /\ UNCHANGED <<loopVars, killed, runVars, envVars>>

TaskSucceeds(ok) ==
  /\ pc = "running"
  /\ set_task_run_state(current, "SUCCESS", ok)
  /\ OrTaskRaises(ok, "cleanup")
  /\ UNCHANGED <<loopVars, killed, runVars, envVars>>

\* The task's code, one of the checks around it, or cleanup_after_task_run.
TaskRaises(e) ==
  /\ pc \in {"running", "cleanup"} \/ (pc = "enter" /\ ~killed)
  /\ pc' = "task_exc"
  /\ ex' = e
  /\ UNCHANGED <<taskVars, loopVars, killed, runVars, envVars, fails>>

\* execute() returns: exits says whether the task's contexts are left without an error.
TaskReturns(exits) ==
  /\ pc = "cleanup"
  /\ LeaveTask(~exits)
  /\ UNCHANGED <<taskVars, killed, runVars, envVars, fails>>

\* task.on_kill() returns or raises.
OnKillEnds ==
  /\ pc = "on_kill"
  /\ pc' = "task_exc"
  /\ UNCHANGED <<ex, taskVars, loopVars, killed, runVars, envVars, fails>>

HandlerState(e) == IF e = "error" THEN "FAILED" ELSE "CANCELLED"

\* The state of r and what the handler for ex raises.  _internal_kill comes last
\* for KeyboardInterrupt, and not at all when the tracking call raised.
Handle(r, ok) ==
  /\ set_task_run_state(r, HandlerState(ex), ok)
  /\ killed' = (killed \/ ex = "sigterm" \/ (ex = "interrupt" /\ ok))

\* An error of the tracking call or of a context's exit takes the place of ex.
TaskHandler(ok, exits) ==
  /\ pc = "task_exc"
  /\ Handle(current, ok)
  /\ IF ok /\ exits /\ ex \in {"sigterm", "interrupt"}
       THEN LeaveDoRun(ex) /\ UNCHANGED loopVars
       ELSE LeaveTask(TRUE) /\ UNCHANGED hb
  /\ UNCHANGED <<runVars, sig, sigterms, interrupts>>

-----------------------------------------------------------------------------
(***************************************************************************)
(* DatabandRun.kill (from another thread) and kill_run (from the task)     *)
(***************************************************************************)
kill ==
  /\ AllowKill
  /\ pc \in {"loop", "enter", "running", "cleanup"}
  /\ killed' = TRUE
  /\ UNCHANGED <<pc, ex, taskVars, loopVars, runVars, envVars, fails>>

kill_run(ok) ==
  /\ pc = "running"
  /\ AllowKill
  /\ killed' = TRUE
  /\ set_task_run_state(current, "FAILED", ok)
  /\ OrTaskRaises(ok, "kill_api")
  /\ UNCHANGED <<loopVars, runVars, hb, sig, sigterms, interrupts>>

\* The request runs/stop; kill_run raises in any case.
KillRequest ==
  /\ pc = "kill_api"
  /\ srv_run' \in {srv_run, "SHUTDOWN"}
  /\ pc' = "unwind"
  /\ UNCHANGED <<ex, taskVars, loopVars, killed, run_state, envVars, fails>>

\* The exception of kill_run goes up through the task's code.
KillRaised ==
  /\ pc = "unwind"
  /\ pc' = "task_exc"
  /\ ex' = "error"
  /\ UNCHANGED <<taskVars, loopVars, killed, runVars, envVars, fails>>

-----------------------------------------------------------------------------
(***************************************************************************)
(* The end of run_driver, the driver task's handlers, _dbnd_run_error      *)
(***************************************************************************)
RunSucceeds(ok) ==
  /\ pc = "finish"
  /\ set_run_state("SUCCESS", ok)
  /\ pc' = IF ok THEN "wrapup" ELSE "driver_exc"
  /\ ex' = IF ok THEN ex ELSE "error"
  /\ UNCHANGED <<taskVars, loopVars, killed, envVars>>

\* save_task_band, validate_task_is_complete and the clean-up of the driver task.
WrapupFails ==
  /\ pc \in {"wrapup", "exit"}
  /\ pc' = "driver_exc"
  /\ ex' = "error"
  /\ UNCHANGED <<taskVars, loopVars, killed, runVars, envVars, fails>>

DriverSucceeds(ok) ==
  /\ pc = "wrapup"
  /\ set_task_run_state(Driver, "SUCCESS", ok)
  /\ pc' = IF ok THEN "exit" ELSE "driver_exc"
  /\ ex' = IF ok THEN ex ELSE "error"
  /\ UNCHANGED <<loopVars, killed, runVars, envVars>>

\* The driver task is SUCCESS; its contexts are left, and run_execute returns.
RunReturns ==
  /\ pc = "exit"
  /\ pc' = "done"
  /\ UNCHANGED <<ex, taskVars, loopVars, killed, runVars, envVars, fails>>

\* A context raises when it is left: outside the driver task's handlers.
DriverExitFails ==
  /\ pc = "exit"
  /\ pc' = "run_error"
  /\ ex' = "error"
  /\ UNCHANGED <<taskVars, loopVars, killed, runVars, envVars, fails>>

\* As for a task, an error of a context's exit may take the place of ex.
DriverHandler(ok) ==
  /\ pc = "driver_exc"
  /\ Handle(Driver, ok)
  /\ pc' = "run_error"
  /\ ex' \in IF ok THEN {ex, "error"} ELSE {"error"}
  /\ UNCHANGED <<loopVars, runVars, envVars>>

\* Fault: a kill that surfaces as another exception counts as a failure.
CancelledByException == ex \in {"sigterm", "interrupt"}

Cancelled == killed \/ ex \in {"sigterm", "interrupt"}

RunErrorState(ok) ==
  /\ pc = "run_error"
  /\ set_run_state(IF Cancelled THEN "CANCELLED" ELSE "FAILED", ok)
  /\ pc' = IF ok THEN "unfinished" ELSE "done"
  /\ UNCHANGED <<ex, taskVars, loopVars, killed, envVars>>

\* set_unfinished_tasks_state: the server finishes what it knows as unfinished.
Unfinished == {r \in TaskRuns : tracked[r] \in {"SCHEDULED", "RUNNING"}}

RunErrorTasks(ok) ==
  /\ pc = "unfinished"
  /\ CallEnds(ok)
  /\ LET s == IF Cancelled THEN "UPSTREAM_FAILED" ELSE "FAILED" IN
       \/ tracked' = [r \in TaskRuns |-> IF r \in Unfinished THEN s ELSE tracked[r]]
       \/ ~ok /\ UNCHANGED tracked
  /\ pc' = "done"
  /\ UNCHANGED <<ex, state, loopVars, killed, runVars, envVars>>

-----------------------------------------------------------------------------
(***************************************************************************)
(* Where an asynchronous exception (SIGTERM, Ctrl-C) goes                  *)
(***************************************************************************)
InTask == {"running", "cleanup", "unwind"}
InDriver == {"prepare", "prepared", "loop", "enter", "cleanup", "flush", "finish",
             "wrapup", "exit"}

\* To the handler of the task, which begins with _internal_kill for SIGTERM
\* and, for both, calls on_kill.
RaisedInTask(e) ==
  /\ \/ pc \in InTask
     \/ pc = "enter" /\ ~killed
     \/ pc = "kill_api" /\ e = "interrupt"
  /\ pc' = "on_kill"
  /\ ex' = e
  /\ killed' = (killed \/ e = "sigterm")
  /\ UNCHANGED hb

\* "except Exception" around the request and around on_kill catches SIGTERM.
Swallowed(e) ==
  /\ e = "sigterm"
  /\ pc \in {"kill_api", "on_kill"}
  /\ pc' = "task_exc"
  /\ ex' = IF pc = "kill_api" THEN "error" ELSE ex
  /\ UNCHANGED <<killed, hb>>

\* To the driver task's handlers: from between two tasks, from the contexts of a task
\* or from inside one of its handlers.
RaisedInDriver(e) ==
  /\ pc \in InDriver \cup {"task_exc"} \/ (pc = "on_kill" /\ e = "interrupt")
  /\ LeaveDoRun(e)
  /\ UNCHANGED killed

\* Out of the driver task: from its contexts or from inside its handlers.
RaisedInRun(e) ==
  /\ pc \in {"driver", "driver_exc", "exit"}
  /\ pc' = "run_error"
  /\ ex' = e
  /\ UNCHANGED <<killed, hb>>

\* Outside every handler: the process ends, by the signal's default action (the driver
\* task's own contexts put the handler in place) or with the exception that leaves
\* run_execute.
RaisedOutside(e) ==
  /\ \/ pc \in {"init", "run_error", "unfinished"}
     \/ pc \in {"driver", "exit"} /\ e = "sigterm"
  /\ pc' = "dead"
  /\ ex' = e
  /\ UNCHANGED <<killed, hb>>

Raised(e) ==
  /\ \/ RaisedInTask(e)
     \/ Swallowed(e)
     \/ RaisedInDriver(e)
     \/ RaisedInRun(e)
     \/ RaisedOutside(e)
  /\ UNCHANGED <<taskVars, loopVars, runVars, sigterms, fails>>

DeliverSigTerm ==
  /\ sig
  /\ sig' = FALSE
  /\ Raised("sigterm")
  /\ UNCHANGED interrupts

KeyboardInterrupt ==
  /\ interrupts < MaxInterrupts
  /\ interrupts' = interrupts + 1
  /\ Raised("interrupt")
  /\ UNCHANGED sig

-----------------------------------------------------------------------------
(***************************************************************************)
(* The heartbeat sender, the server and the operating system               *)
(***************************************************************************)
Alive == pc \notin {"done", "dead"}

\* Fault: the answer of the server is compared with the wrong state.
HeartbeatKillsCancelled ==
  /\ hb
  /\ Alive
  /\ srv_run = "CANCELLED"
  /\ ~sig
  /\ sig' = TRUE
  /\ UNCHANGED <<pc, ex, taskVars, loopVars, killed, runVars, hb, sigterms,
                 interrupts, fails>>

HeartbeatKills ==
  /\ hb
  /\ Alive
  /\ srv_run = "SHUTDOWN"
  /\ ~sig
  /\ sig' = TRUE
  /\ UNCHANGED <<pc, ex, taskVars, loopVars, killed, runVars, hb, sigterms,
                 interrupts, fails>>

\* The sender sees that the driver's process is gone.
HeartbeatStops ==
  /\ hb
  /\ pc = "dead"
  /\ hb' = FALSE
  /\ UNCHANGED <<pc, ex, taskVars, loopVars, killed, runVars, sig, sigterms,
                 interrupts, fails>>

\* Somebody stops the run in the server.
StopRequested ==
  /\ Alive
  /\ srv_run = "RUNNING"
  /\ srv_run' = "SHUTDOWN"
  /\ UNCHANGED <<pc, ex, taskVars, loopVars, killed, run_state, envVars, fails>>

SigTerm ==
  /\ Alive
  /\ sigterms < MaxSigTerms
  /\ ~sig
  /\ sig' = TRUE
  /\ sigterms' = sigterms + 1
  /\ UNCHANGED <<pc, ex, taskVars, loopVars, killed, runVars, hb, interrupts,
                 fails>>

Crash ==
  /\ AllowCrash
  /\ Alive
  /\ pc' = "dead"
  /\ UNCHANGED <<ex, taskVars, loopVars, killed, runVars, envVars, fails>>

Finished == ~Alive /\ UNCHANGED vars

-----------------------------------------------------------------------------
Visit(t) ==
  \/ SkipReused(t)
  \/ UpstreamMissing(t)
  \/ SkipFailFast(t)
  \/ SkipUpstreamFailed(t)
  \/ SkipKilled(t)
  \/ Enter(t)

\* Steps of dbnd's own code in the driver process.
FrameworkStep ==
  \/ \E ok \in BOOLEAN :
       \/ StartRun(ok)
       \/ DriverStart(ok)
       \/ Flush(ok)
       \/ TaskReused(ok)
       \/ TaskRunning(ok)
       \/ \E exits \in BOOLEAN : TaskHandler(ok, exits)
       \/ TaskReturns(ok)
       \/ RunSucceeds(ok)
       \/ DriverSucceeds(ok)
       \/ DriverHandler(ok)
       \/ RunErrorState(ok)
       \/ RunErrorTasks(ok)
  \/ \E t \in Tasks : Visit(t)
  \/ DriverNotEntered
  \/ StartLoop
  \/ KillRequest
  \/ NotEntered
  \/ LoopEnds
  \/ WrapupFails
  \/ RunReturns
  \/ DriverExitFails
  \/ DeliverSigTerm

\* Steps that user code takes, or that end a stretch of it.
UserStep ==
  \/ \E ok \in BOOLEAN : Prepare(ok) \/ TaskSucceeds(ok) \/ kill_run(ok)
  \/ \E e \in {"error", "exit"} : TaskRaises(e)
  \/ PrepareFails
  \/ OnKillEnds
  \/ KillRaised
  \/ kill

EnvironmentStep ==
  \/ KeyboardInterrupt
  \/ StopRequested
  \/ SigTerm
  \/ Crash
  \/ Finished

Next == FrameworkStep \/ UserStep \/ HeartbeatKills \/ HeartbeatStops \/ EnvironmentStep

Spec == Init /\ [][Next]_vars

\* dbnd's own steps go on, a pending signal is delivered, the sender goes on
\* beating; user code may hang.
FairSpec ==
  /\ Spec
  /\ WF_vars(FrameworkStep)
  /\ WF_vars(DeliverSigTerm)
  /\ WF_vars(HeartbeatKills)
  /\ WF_vars(HeartbeatStops)

-----------------------------------------------------------------------------
TypeOK ==
  /\ pc \in {"init", "driver", "prepare", "prepared", "loop", "enter", "running",
             "cleanup", "kill_api", "unwind", "on_kill", "task_exc", "flush",
             "finish", "wrapup", "exit", "driver_exc", "run_error", "unfinished",
             "done", "dead"}
  /\ ex \in {"none", "error", "exit", "sigterm", "interrupt"}
  /\ state \in [TaskRuns -> TaskRunState]
  /\ tracked \in [TaskRuns -> TaskRunState]
  /\ disabled \in SUBSET MayBeDisabled
  /\ visited \in SUBSET Tasks
  /\ current \in Tasks \cup {NoTask}
  /\ batch \in SUBSET Tasks
  /\ task_failed \in BOOLEAN
  /\ killed \in BOOLEAN
  /\ hb \in BOOLEAN
  /\ sig \in BOOLEAN
  /\ run_state \in RunState
  /\ srv_run \in RunState
  /\ fails \in 0..MaxTrackFails
  /\ sigterms \in 0..MaxSigTerms
  /\ interrupts \in 0..MaxInterrupts

Starts(t) == state[t] # "RUNNING" /\ state'[t] = "RUNNING"

\* The loop is done with t, and t never began: a kill or an error when its contexts
\* were entered.  The code has no state for it.
NeverBegan(t) == t \in visited \ Reused /\ state[t] = "NONE"

\* A task starts only when each of its upstream tasks has succeeded or is reused,
\* whatever failed, was killed, was skipped or is disabled; an upstream task that
\* never began blocks nobody.
UpstreamRespected ==
  [][\A t \in Tasks : Starts(t) =>
       \A u \in Upstream[t] : u \in Reused \/ state[u] = "SUCCESS" \/ NeverBegan(u)]_vars

\* No task starts once the run is killed, or has failed with fail_fast, although
\* kill() may come from another thread between the loop's test and the start.
NoNewWork ==
  [][(killed \/ (FailFast /\ task_failed)) => \A t \in Tasks : ~Starts(t)]_vars

\* A run that ends as SUCCESS came to every task that has a task run and was not
\* reused; each that began has succeeded.
SuccessMeansDone ==
  (pc = "done" /\ run_state = "SUCCESS") =>
    \A t \in Tasks \ (Reused \cup disabled) : state[t] = "SUCCESS" \/ NeverBegan(t)

\* What the executor has not told the server of t: it never began, or the loop was left
\* by an error (or never started) before it came to t or before the batch with t was sent.
Unreported(t) ==
  \/ NeverBegan(t)
  \/ visited # Tasks \ disabled /\ (t \notin visited \/ t \in batch)

\* When run_execute is over and no tracking call failed, the server knows the run's last
\* state, and no task run is left open but one that never began in a run that is SUCCESS.
\* Unless the run was cancelled the server has the executor's state of every task, the
\* states that were set without tracking included; in a run that is FAILED, what was not
\* reported is FAILED.
ServerSettled ==
  (pc = "done" /\ fails = 0) =>
    /\ srv_run = run_state
    /\ srv_run \in {"SUCCESS", "FAILED", "CANCELLED"}
    /\ \A r \in TaskRuns : \/ tracked[r] \in final_states \cup {"NONE"}
                          \/ (srv_run = "SUCCESS" /\ NeverBegan(r))
    /\ ~Cancelled => \A t \in Tasks \ (Reused \cup disabled) :
         \/ tracked[t] = state[t]
         \/ /\ Unreported(t)
            /\ tracked[t] = IF srv_run = "SUCCESS" THEN "SCHEDULED" ELSE "FAILED"

\* The run is SUCCESS exactly when run_execute returns normally, and the driver task is
\* then SUCCESS too; a run that failed after a kill is CANCELLED, not FAILED.  (The driver
\* task stays SUCCESS in a run that fails or is cancelled while its contexts are left.)
DriverAgrees ==
  (pc = "done" /\ fails = 0) =>
    /\ (run_state = "SUCCESS" <=> ex = "none")
    /\ (run_state = "SUCCESS" => state[Driver] = "SUCCESS")
    /\ (run_state = "FAILED" => ~killed)

\* A run that the server wants stopped stops while the sender beats, even when
\* the task's code or its on_kill hangs.
ShutdownHonoured == (hb /\ srv_run = "SHUTDOWN") ~> ~Alive

\* The sender does not outlive the driver.
NoOrphanSender == (~Alive) ~> ~hb

=============================================================================
