------------------------- MODULE RunExecutorProofs -------------------------
(***************************************************************************)
(* Proofs about RunExecutor, for any set of tasks, any graph and any       *)
(* number of signals, interrupts and failing tracking calls.               *)
(***************************************************************************)
EXTENDS RunExecutor, TLAPS

InExecute == {"enter", "running", "cleanup", "kill_api", "unwind", "on_kill", "task_exc"}
InDoRun == InExecute \cup {"loop"}

\* While execute() runs, its task is not yet visited, nor reused.
Focus ==
  pc \in InExecute => current \in Tasks /\ current \notin visited /\ current \notin Reused

\* What do_run tested before it called execute() still holds when the task starts.
EnterTested ==
  pc = "enter" =>
    /\ Upstream[current] \subseteq visited
    /\ failed_upstream(current) = {}
    /\ ~(FailFast /\ task_failed)

\* A task that the loop has not come to has no state.
Untouched ==
  /\ pc \in {"init", "driver", "prepare", "prepared", "loop", "flush"} => current = NoTask
  /\ pc = "enter" => state[current] = "NONE"
  /\ \A t \in Tasks \ visited : t # current => state[t] = "NONE"

\* A task that the loop is done with is final, or never began.
VisitedStates ==
  /\ pc = "cleanup" => state[current] = "SUCCESS"
  /\ \A t \in visited \ Reused : state[t] \in final_states \cup {"NONE"}

IInv == TypeOK /\ Focus /\ EnterTested /\ Untouched /\ VisitedStates

AFailure == \E t \in visited : state[t] \in fail_states

\* Without kill(): a task without success has set task_failed, and a kill that the loop
\* sees came with the failure of a task.
FailureNoted ==
  /\ \A t \in Reused : state[t] = "NONE"
  /\ pc \in {"init", "driver", "prepare", "prepared"} => visited = {} /\ ~task_failed
  /\ pc \in {"prepare", "prepared"} => ~killed
  /\ pc \in {"loop", "enter", "running", "cleanup", "flush"} /\ killed =>
       task_failed /\ AFailure
  /\ pc \in InDoRun \cup {"flush"} =>
       \A t \in visited \ Reused : task_failed \/ state[t] = "SUCCESS"

AllDone == \A t \in Tasks \ (Reused \cup disabled) : state[t] = "SUCCESS" \/ NeverBegan(t)

\* What do_run found out is what the run's state says.
Outcome ==
  /\ pc = "flush" => visited = Tasks \ disabled
  /\ pc = "finish" => AllDone
  /\ run_state = "SUCCESS" =>
       AllDone /\ pc \in {"wrapup", "exit", "driver_exc", "run_error", "done", "dead"}

InError == {"on_kill", "task_exc", "driver_exc", "run_error", "unfinished"}

\* The run that run_execute leaves behind, when it has set the last state.
RunEnd == run_state = (IF Cancelled THEN "CANCELLED" ELSE "FAILED")

\* As long as no tracking call failed: an exception is in flight exactly where one is
\* handled, the driver task is SUCCESS in a run that is, and the server has the run's
\* last state.
DriverEnd ==
  fails = 0 =>
    /\ pc \in InError => ex # "none"
    /\ pc \notin InError \cup {"done", "dead"} => ex = "none"
    /\ pc \in {"wrapup", "exit"} => run_state = "SUCCESS"
    /\ pc = "exit" => state[Driver] = "SUCCESS"
    /\ pc = "unfinished" => RunEnd
    /\ pc = "done" =>
         \/ run_state = "SUCCESS" /\ state[Driver] = "SUCCESS" /\ ex = "none"
         \/ RunEnd /\ ex # "none"
    /\ pc \in {"wrapup", "exit", "unfinished", "done"} => srv_run = run_state

\* The batch holds tasks the loop skipped; the loop does not come to a task without a
\* task run, and has come to nothing before it starts.
Batch ==
  /\ batch \subseteq visited \ Reused
  /\ \A t \in batch : state[t] # "NONE"
  /\ visited \cap disabled = {}
  /\ pc \in InExecute => current \notin disabled
  /\ pc \in {"init", "driver", "prepare", "prepared"} => visited = {}

\* The server has the executor's state of t, and t is not under way.
Settled(t) == tracked[t] = state[t] /\ state[t] \in final_states \cup {"NONE"}

\* The same, or the server waits for t, or has failed it, and was not told of its state.
Told(t) == Settled(t) \/ (Unreported(t) /\ tracked[t] \in {"SCHEDULED", "FAILED"})

ToRun == Tasks \ (Reused \cup disabled)

AfterPrepare == InDoRun \cup {"prepared", "flush", "finish", "wrapup", "exit"}

\* As long as no tracking call failed, the server has each state of a task that is not
\* in the batch, and after the batch was sent, or before anything was, all of them.
Reported ==
  fails = 0 =>
    /\ pc \notin {"done", "dead"} => tracked[Driver] = state[Driver]
    /\ pc \in {"init", "driver", "prepare"} => \A t \in Tasks : tracked[t] = "NONE"
    /\ pc \in AfterPrepare =>
         /\ \A t \in Reused : tracked[t] = "SUCCESS"
         /\ \A t \in disabled : tracked[t] = "NONE"
         /\ \A t \in ToRun : state[t] = "NONE" => tracked[t] = "SCHEDULED"
    /\ pc \in {"init", "driver", "prepare"} \cup AfterPrepare =>
         \A t \in Tasks \ (Reused \cup batch) : state[t] # "NONE" => tracked[t] = state[t]
    /\ pc \in InDoRun \cup {"flush"} => \A t \in batch : tracked[t] = "SCHEDULED"
    /\ pc \in {"finish", "wrapup", "exit"} =>
         \A t \in ToRun : Settled(t) \/ NeverBegan(t)
    /\ pc \in {"driver_exc", "run_error", "unfinished"} /\ ~Cancelled =>
         \A t \in ToRun : Told(t)
    /\ pc = "done" => ServerSettled

-----------------------------------------------------------------------------
\* The states that the code names are states.
LEMMA StateNames ==
  /\ final_states \subseteq TaskRunState
  /\ fail_states \subseteq final_states
  /\ {"FAILED", "CANCELLED", "UPSTREAM_FAILED"} \subseteq fail_states
  /\ {"NONE", "SCHEDULED", "RUNNING", "SUCCESS", "FAILED", "CANCELLED",
      "UPSTREAM_FAILED"} \subseteq TaskRunState
  /\ {"NONE", "RUNNING", "SUCCESS", "FAILED", "SHUTDOWN", "CANCELLED"} \subseteq RunState
  /\ fail_states = {"FAILED", "CANCELLED", "UPSTREAM_FAILED"}
  /\ "SUCCESS" \in final_states
  BY DEF final_states, fail_states, direct_fail_states, TaskRunState, RunState

\* A tracking call counts at most MaxTrackFails failures.
LEMMA CallType ==
  ASSUME fails \in 0..MaxTrackFails, NEW ok \in BOOLEAN, CallEnds(ok)
  PROVE  fails' \in 0..MaxTrackFails
  BY BoundsAssumption DEF CallEnds

\* set_task_run_state keeps the types of what it changes.
LEMMA TaskStateType ==
  ASSUME TypeOK, NEW r \in TaskRuns, NEW s \in TaskRunState, NEW ok \in BOOLEAN,
         set_task_run_state(r, s, ok)
  PROVE  /\ state' \in [TaskRuns -> TaskRunState]
         /\ tracked' \in [TaskRuns -> TaskRunState]
         /\ fails' \in 0..MaxTrackFails
<1>1. fails' \in 0..MaxTrackFails
  BY CallType DEF TypeOK, set_task_run_state
<1>2. state' \in [TaskRuns -> TaskRunState] /\ tracked' \in [TaskRuns -> TaskRunState]
  BY DEF TypeOK, set_task_run_state
<1>. QED  BY <1>1, <1>2

\* Types, and the focus of execute(), are kept by every step of the driver, the
\* sender and the environment.
LEMMA TypeStep == ASSUME TypeOK, Focus, [Next]_vars PROVE TypeOK' /\ Focus'
<1> USE TasksAssumption, GraphAssumption, BoundsAssumption
<1>1. ASSUME NEW ok \in BOOLEAN, StartRun(ok) PROVE TypeOK' /\ Focus'
  BY <1>1, CallType, StateNames DEF StartRun, set_run_state, taskVars,
        loopVars, envVars, TypeOK, Focus, InExecute, TaskRuns
<1>2. ASSUME NEW ok \in BOOLEAN, DriverStart(ok) PROVE TypeOK' /\ Focus'
  BY <1>2, TaskStateType, StateNames DEF DriverStart, loopVars, runVars,
        envVars, TypeOK, Focus, InExecute, TaskRuns
<1>3. ASSUME NEW ok \in BOOLEAN, Flush(ok) PROVE TypeOK' /\ Focus'
  BY <1>3, CallType, StateNames DEF Flush, _collect_errors, loopVars, runVars,
        TaskRuns, TypeOK, Focus, InExecute
<1>4. ASSUME NEW ok \in BOOLEAN, TaskReused(ok) PROVE TypeOK' /\ Focus'
  BY <1>4, CallType, StateNames DEF TaskReused, OrTaskRaises, loopVars,
        runVars, envVars, TypeOK, Focus, InExecute, TaskRuns
<1>5. ASSUME NEW ok \in BOOLEAN, TaskRunning(ok) PROVE TypeOK' /\ Focus'
  BY <1>5, TaskStateType, StateNames DEF TaskRunning, OrTaskRaises, loopVars,
        runVars, envVars, TypeOK, Focus, InExecute, TaskRuns
<1>6. ASSUME NEW ok \in BOOLEAN, NEW exits \in BOOLEAN, TaskHandler(ok, exits)
      PROVE  TypeOK' /\ Focus'
  <2>1. HandlerState(ex) \in TaskRunState /\ current \in TaskRuns
    BY <1>6, StateNames DEF TaskHandler, HandlerState, Focus, InExecute, TaskRuns
  <2>2. set_task_run_state(current, HandlerState(ex), ok)
    BY <1>6 DEF TaskHandler, Handle
  <2>3. /\ state' \in [TaskRuns -> TaskRunState]
        /\ tracked' \in [TaskRuns -> TaskRunState]
        /\ fails' \in 0..MaxTrackFails
    BY <2>1, <2>2, TaskStateType
  <2>4. killed' \in BOOLEAN
    BY <1>6 DEF TaskHandler, Handle
  <2>5. CASE ok /\ exits /\ ex \in {"sigterm", "interrupt"}
    BY <2>3, <2>4, <2>5, <1>6 DEF TaskHandler, LeaveDoRun, loopVars, runVars, TypeOK,
       Focus, InExecute
  <2>6. CASE ~(ok /\ exits /\ ex \in {"sigterm", "interrupt"})
    BY <2>3, <2>4, <2>6, <1>6 DEF TaskHandler, LeaveTask, loopVars, runVars, TypeOK,
       Focus, InExecute
  <2>. QED  BY <2>5, <2>6
<1>7. ASSUME NEW ok \in BOOLEAN, RunSucceeds(ok) PROVE TypeOK' /\ Focus'
  BY <1>7, CallType, StateNames DEF RunSucceeds, set_run_state, taskVars,
        loopVars, envVars, TypeOK, Focus, InExecute, TaskRuns
<1>8. ASSUME NEW ok \in BOOLEAN, DriverSucceeds(ok) PROVE TypeOK' /\ Focus'
  BY <1>8, TaskStateType, StateNames DEF DriverSucceeds, loopVars, runVars,
        envVars, TypeOK, Focus, InExecute, TaskRuns
<1>9. ASSUME NEW ok \in BOOLEAN, DriverHandler(ok) PROVE TypeOK' /\ Focus'
  BY <1>9, TaskStateType, StateNames DEF DriverHandler, Handle, HandlerState,
        loopVars, runVars, envVars, TypeOK, Focus, InExecute, TaskRuns
<1>10. ASSUME NEW ok \in BOOLEAN, RunErrorState(ok) PROVE TypeOK' /\ Focus'
  BY <1>10, CallType, StateNames DEF RunErrorState, set_run_state, Cancelled,
        taskVars, loopVars, envVars, TypeOK, Focus, InExecute, TaskRuns
<1>11. ASSUME NEW ok \in BOOLEAN, RunErrorTasks(ok) PROVE TypeOK' /\ Focus'
  BY <1>11, CallType, StateNames DEF RunErrorTasks, Unfinished, Cancelled,
        loopVars, runVars, envVars, TaskRuns, TypeOK, Focus, InExecute
<1>12. ASSUME NEW ok \in BOOLEAN, Prepare(ok) PROVE TypeOK' /\ Focus'
  BY <1>12, CallType, StateNames DEF Prepare, loopVars, runVars, envVars, TaskRuns,
        TypeOK, Focus, InExecute
<1>13. ASSUME NEW ok \in BOOLEAN, TaskSucceeds(ok) PROVE TypeOK' /\ Focus'
  BY <1>13, TaskStateType, StateNames DEF TaskSucceeds, OrTaskRaises,
        loopVars, runVars, envVars, TypeOK, Focus, InExecute, TaskRuns
<1>14. ASSUME NEW ok \in BOOLEAN, kill_run(ok) PROVE TypeOK' /\ Focus'
  BY <1>14, TaskStateType, StateNames DEF kill_run, OrTaskRaises, loopVars,
        runVars, TypeOK, Focus, InExecute, TaskRuns
<1>15. ASSUME NEW t \in Tasks, SkipReused(t) PROVE TypeOK' /\ Focus'
  BY <1>15, StateNames DEF SkipReused, IsNext, taskVars, runVars, envVars,
        TypeOK, Focus, InExecute, TaskRuns
<1>16. ASSUME NEW t \in Tasks, SkipFailFast(t) PROVE TypeOK' /\ Focus'
  BY <1>16, StateNames DEF SkipFailFast, Considered, IsNext, FailFastSkips, SetInBatch,
        get_upstream_failed_task_run_state, runVars, envVars, TypeOK, Focus,
        InExecute, TaskRuns
<1>17. ASSUME NEW t \in Tasks, SkipUpstreamFailed(t) PROVE TypeOK' /\ Focus'
  BY <1>17, StateNames DEF SkipUpstreamFailed, Considered, IsNext, FailFastSkips,
        SetInBatch, failed_upstream, runVars, envVars, TypeOK, Focus,
        InExecute, TaskRuns
<1>18. ASSUME NEW t \in Tasks, SkipKilled(t) PROVE TypeOK' /\ Focus'
  BY <1>18, StateNames DEF SkipKilled, Considered, IsNext, FailFastSkips, SetInBatch,
        failed_upstream, runVars, envVars, TypeOK, Focus, InExecute, TaskRuns
<1>19. ASSUME NEW t \in Tasks, Enter(t) PROVE TypeOK' /\ Focus'
  BY <1>19, StateNames DEF Enter, Considered, IsNext, FailFastSkips, failed_upstream,
        taskVars, runVars, envVars, TypeOK, Focus, InExecute, TaskRuns
<1>20. ASSUME NEW e \in {"error", "exit"}, TaskRaises(e) PROVE TypeOK' /\ Focus'
  BY <1>20, StateNames DEF TaskRaises, taskVars, loopVars, runVars, envVars,
        TypeOK, Focus, InExecute, TaskRuns
<1>21. ASSUME DriverNotEntered PROVE TypeOK' /\ Focus'
  BY <1>21, StateNames DEF DriverNotEntered, taskVars, loopVars, runVars, envVars,
        TypeOK, Focus, InExecute, TaskRuns
<1>22. ASSUME KillRequest PROVE TypeOK' /\ Focus'
  BY <1>22, StateNames DEF KillRequest, taskVars, loopVars, envVars, TypeOK,
        Focus, InExecute, TaskRuns
<1>23. ASSUME NotEntered PROVE TypeOK' /\ Focus'
  BY <1>23, StateNames DEF NotEntered, LeaveTask, taskVars, runVars, envVars,
        TypeOK, Focus, InExecute, TaskRuns
<1>24. ASSUME LoopEnds PROVE TypeOK' /\ Focus'
  BY <1>24, StateNames DEF LoopEnds, taskVars, loopVars, runVars, envVars,
        TypeOK, Focus, InExecute, TaskRuns
<1>25. ASSUME NEW ok \in BOOLEAN, TaskReturns(ok) PROVE TypeOK' /\ Focus'
  BY <1>25, StateNames DEF TaskReturns, LeaveTask, taskVars, runVars, envVars,
        TypeOK, Focus, InExecute, TaskRuns
<1>26. ASSUME WrapupFails PROVE TypeOK' /\ Focus'
  BY <1>26, StateNames DEF WrapupFails, taskVars, loopVars, runVars, envVars,
        TypeOK, Focus, InExecute, TaskRuns
<1>27. ASSUME DeliverSigTerm PROVE TypeOK' /\ Focus'
  BY <1>27, StateNames DEF DeliverSigTerm, Raised, RaisedInTask, Swallowed,
        RaisedInDriver, RaisedInRun, RaisedOutside, LeaveDoRun, InTask,
        InDriver, taskVars, loopVars, runVars, TypeOK, Focus, InExecute,
        TaskRuns
<1>28. ASSUME PrepareFails PROVE TypeOK' /\ Focus'
  BY <1>28, StateNames DEF PrepareFails, taskVars, loopVars, runVars, envVars,
        TypeOK, Focus, InExecute, TaskRuns
<1>29. ASSUME OnKillEnds PROVE TypeOK' /\ Focus'
  BY <1>29, StateNames DEF OnKillEnds, taskVars, loopVars, runVars, envVars,
        TypeOK, Focus, InExecute, TaskRuns
<1>30. ASSUME KillRaised PROVE TypeOK' /\ Focus'
  BY <1>30, StateNames DEF KillRaised, taskVars, loopVars, runVars, envVars,
        TypeOK, Focus, InExecute, TaskRuns
<1>31. ASSUME kill PROVE TypeOK' /\ Focus'
  BY <1>31, StateNames DEF kill, taskVars, loopVars, runVars, envVars, TypeOK,
        Focus, InExecute, TaskRuns
<1>32. ASSUME HeartbeatKills PROVE TypeOK' /\ Focus'
  BY <1>32, StateNames DEF HeartbeatKills, taskVars, loopVars, runVars, Alive,
        TypeOK, Focus, InExecute, TaskRuns
<1>33. ASSUME HeartbeatStops PROVE TypeOK' /\ Focus'
  BY <1>33, StateNames DEF HeartbeatStops, taskVars, loopVars, runVars,
        TypeOK, Focus, InExecute, TaskRuns
<1>34. ASSUME KeyboardInterrupt PROVE TypeOK' /\ Focus'
  <2>1. interrupts' \in 0..MaxInterrupts
    BY <1>34 DEF KeyboardInterrupt, TypeOK
  <2>2. killed' \in BOOLEAN /\ hb' \in BOOLEAN /\ sig' \in BOOLEAN
    BY <1>34 DEF KeyboardInterrupt, Raised, RaisedInTask, Swallowed, RaisedInDriver,
       RaisedInRun, RaisedOutside, LeaveDoRun, TypeOK
  <2>. QED
    BY <2>1, <2>2, <1>34 DEF KeyboardInterrupt, Raised, RaisedInTask, Swallowed,
       RaisedInDriver, RaisedInRun, RaisedOutside, LeaveDoRun, InTask, InDriver,
       taskVars, loopVars, runVars, TypeOK, Focus, InExecute
<1>35. ASSUME StopRequested PROVE TypeOK' /\ Focus'
  BY <1>35, StateNames DEF StopRequested, taskVars, loopVars, envVars, Alive,
        TypeOK, Focus, InExecute, TaskRuns
<1>36. ASSUME SigTerm PROVE TypeOK' /\ Focus'
  BY <1>36, StateNames DEF SigTerm, taskVars, loopVars, runVars, Alive,
        TypeOK, Focus, InExecute, TaskRuns
<1>37. ASSUME Crash PROVE TypeOK' /\ Focus'
  BY <1>37, StateNames DEF Crash, taskVars, loopVars, runVars, envVars, Alive,
        TypeOK, Focus, InExecute, TaskRuns
<1>38. ASSUME Finished PROVE TypeOK' /\ Focus'
  BY <1>38, StateNames DEF Finished, vars, taskVars, loopVars, runVars,
        envVars, Alive, taskVars, loopVars, runVars, envVars, TypeOK, Focus,
        InExecute, TaskRuns
<1>39. ASSUME StartLoop PROVE TypeOK' /\ Focus'
  BY <1>39, StateNames DEF StartLoop, taskVars, loopVars, runVars, envVars,
        TypeOK, Focus, InExecute, TaskRuns
<1>40. ASSUME RunReturns PROVE TypeOK' /\ Focus'
  BY <1>40, StateNames DEF RunReturns, taskVars, loopVars, runVars, envVars,
        TypeOK, Focus, InExecute, TaskRuns
<1>41. ASSUME DriverExitFails PROVE TypeOK' /\ Focus'
  BY <1>41, StateNames DEF DriverExitFails, taskVars, loopVars, runVars, envVars,
        TypeOK, Focus, InExecute, TaskRuns
<1>42. ASSUME NEW t \in Tasks, UpstreamMissing(t) PROVE TypeOK' /\ Focus'
  BY <1>42, StateNames DEF UpstreamMissing, IsNext, Missing, LeaveDoRun, taskVars,
     loopVars, runVars, envVars, TypeOK, Focus, InExecute, TaskRuns
<1>43. CASE UNCHANGED vars
  BY <1>43 DEF vars, taskVars, loopVars, runVars, envVars, TypeOK, Focus,
        InExecute, TaskRuns, TaskRuns
<1>. QED
  BY <1>1, <1>2, <1>3, <1>4, <1>5, <1>6, <1>7, <1>8, <1>9, <1>10, <1>11,
        <1>12, <1>13, <1>14, <1>15, <1>16, <1>17, <1>18, <1>19, <1>20, <1>21,
        <1>22, <1>23, <1>24, <1>25, <1>26, <1>27, <1>28, <1>29, <1>30, <1>31,
        <1>32, <1>33, <1>34, <1>35, <1>36, <1>37, <1>38, <1>39, <1>40, <1>41, <1>42,
        <1>43
     DEF Next, FrameworkStep, UserStep, EnvironmentStep, Visit

\* The states of visited and unvisited tasks are kept as the invariant says.
LEMMA VisitStep ==
  ASSUME IInv, [Next]_vars
  PROVE  EnterTested' /\ Untouched' /\ VisitedStates'
<1> USE TasksAssumption, GraphAssumption, StateNames
<1>1. ASSUME NEW ok \in BOOLEAN, StartRun(ok) PROVE EnterTested' /\ Untouched' /\ VisitedStates'
  BY <1>1 DEF StartRun, set_run_state, taskVars, loopVars, envVars, IInv,
        TypeOK, Focus, InExecute, EnterTested, Untouched, VisitedStates,
        TaskRuns, failed_upstream
<1>2. ASSUME NEW ok \in BOOLEAN, DriverStart(ok) PROVE EnterTested' /\ Untouched' /\ VisitedStates'
  BY <1>2 DEF DriverStart, set_task_run_state, loopVars, runVars, envVars,
        IInv, TypeOK, Focus, InExecute, EnterTested, Untouched, VisitedStates,
        TaskRuns, failed_upstream
<1>3. ASSUME NEW ok \in BOOLEAN, Flush(ok) PROVE EnterTested' /\ Untouched' /\ VisitedStates'
  BY <1>3 DEF Flush, _collect_errors, loopVars, runVars, TaskRuns, IInv,
        TypeOK, Focus, InExecute, EnterTested, Untouched, VisitedStates,
        failed_upstream
<1>4. ASSUME NEW ok \in BOOLEAN, TaskReused(ok) PROVE EnterTested' /\ Untouched' /\ VisitedStates'
  BY <1>4 DEF TaskReused, OrTaskRaises, loopVars, runVars, envVars, IInv,
        TypeOK, Focus, InExecute, EnterTested, Untouched, VisitedStates,
        TaskRuns, failed_upstream
<1>5. ASSUME NEW ok \in BOOLEAN, TaskRunning(ok) PROVE EnterTested' /\ Untouched' /\ VisitedStates'
  BY <1>5 DEF TaskRunning, set_task_run_state, OrTaskRaises, loopVars,
        runVars, envVars, IInv, TypeOK, Focus, InExecute, EnterTested,
        Untouched, VisitedStates, TaskRuns, failed_upstream
<1>6. ASSUME NEW ok \in BOOLEAN, NEW exits \in BOOLEAN, TaskHandler(ok, exits)
      PROVE  EnterTested' /\ Untouched' /\ VisitedStates'
  BY <1>6 DEF TaskHandler, Handle, HandlerState, set_task_run_state,
        LeaveDoRun, LeaveTask, loopVars, runVars, IInv, TypeOK, Focus,
        InExecute, EnterTested, Untouched, VisitedStates, TaskRuns,
        failed_upstream
<1>7. ASSUME NEW ok \in BOOLEAN, RunSucceeds(ok) PROVE EnterTested' /\ Untouched' /\ VisitedStates'
  BY <1>7 DEF RunSucceeds, set_run_state, taskVars, loopVars, envVars, IInv,
        TypeOK, Focus, InExecute, EnterTested, Untouched, VisitedStates,
        TaskRuns, failed_upstream
<1>8. ASSUME NEW ok \in BOOLEAN, DriverSucceeds(ok) PROVE EnterTested' /\ Untouched' /\ VisitedStates'
  BY <1>8 DEF DriverSucceeds, set_task_run_state, loopVars, runVars, envVars,
        IInv, TypeOK, Focus, InExecute, EnterTested, Untouched, VisitedStates,
        TaskRuns, failed_upstream
<1>9. ASSUME NEW ok \in BOOLEAN, DriverHandler(ok) PROVE EnterTested' /\ Untouched' /\ VisitedStates'
  BY <1>9 DEF DriverHandler, Handle, HandlerState, set_task_run_state,
        loopVars, runVars, envVars, IInv, TypeOK, Focus, InExecute,
        EnterTested, Untouched, VisitedStates, TaskRuns, failed_upstream
<1>10. ASSUME NEW ok \in BOOLEAN, RunErrorState(ok) PROVE EnterTested' /\ Untouched' /\ VisitedStates'
  BY <1>10 DEF RunErrorState, set_run_state, Cancelled, taskVars, loopVars,
        envVars, IInv, TypeOK, Focus, InExecute, EnterTested, Untouched,
        VisitedStates, TaskRuns, failed_upstream
<1>11. ASSUME NEW ok \in BOOLEAN, RunErrorTasks(ok) PROVE EnterTested' /\ Untouched' /\ VisitedStates'
  BY <1>11 DEF RunErrorTasks, Unfinished, Cancelled, loopVars, runVars,
        envVars, TaskRuns, IInv, TypeOK, Focus, InExecute, EnterTested,
        Untouched, VisitedStates, failed_upstream
<1>12. ASSUME NEW ok \in BOOLEAN, Prepare(ok) PROVE EnterTested' /\ Untouched' /\ VisitedStates'
  BY <1>12 DEF Prepare, loopVars, runVars, TaskRuns, IInv, TypeOK, Focus,
        InExecute, EnterTested, Untouched, VisitedStates, failed_upstream
<1>13. ASSUME NEW ok \in BOOLEAN, TaskSucceeds(ok) PROVE EnterTested' /\ Untouched' /\ VisitedStates'
  BY <1>13 DEF TaskSucceeds, set_task_run_state, OrTaskRaises, loopVars,
        runVars, envVars, IInv, TypeOK, Focus, InExecute, EnterTested,
        Untouched, VisitedStates, TaskRuns, failed_upstream
<1>14. ASSUME NEW ok \in BOOLEAN, kill_run(ok) PROVE EnterTested' /\ Untouched' /\ VisitedStates'
  BY <1>14 DEF kill_run, set_task_run_state, OrTaskRaises, loopVars, runVars,
        IInv, TypeOK, Focus, InExecute, EnterTested, Untouched, VisitedStates,
        TaskRuns, failed_upstream
<1>15. ASSUME NEW t \in Tasks, SkipReused(t) PROVE EnterTested' /\ Untouched' /\ VisitedStates'
  BY <1>15 DEF SkipReused, IsNext, taskVars, runVars, envVars, IInv, TypeOK,
        Focus, InExecute, EnterTested, Untouched, VisitedStates, TaskRuns,
        failed_upstream
<1>16. ASSUME NEW t \in Tasks, SkipFailFast(t) PROVE EnterTested' /\ Untouched' /\ VisitedStates'
  BY <1>16 DEF SkipFailFast, Considered, IsNext, FailFastSkips, SetInBatch,
        get_upstream_failed_task_run_state, runVars, envVars, IInv, TypeOK,
        Focus, InExecute, EnterTested, Untouched, VisitedStates, TaskRuns,
        failed_upstream
<1>17. ASSUME NEW t \in Tasks, SkipUpstreamFailed(t) PROVE EnterTested' /\ Untouched' /\ VisitedStates'
  BY <1>17 DEF SkipUpstreamFailed, Considered, IsNext, FailFastSkips, SetInBatch,
        failed_upstream, runVars, envVars, IInv, TypeOK, Focus, InExecute,
        EnterTested, Untouched, VisitedStates, TaskRuns
<1>18. ASSUME NEW t \in Tasks, SkipKilled(t) PROVE EnterTested' /\ Untouched' /\ VisitedStates'
  BY <1>18 DEF SkipKilled, Considered, IsNext, FailFastSkips, SetInBatch, failed_upstream,
        runVars, envVars, IInv, TypeOK, Focus, InExecute, EnterTested,
        Untouched, VisitedStates, TaskRuns
<1>19. ASSUME NEW t \in Tasks, Enter(t) PROVE EnterTested' /\ Untouched' /\ VisitedStates'
  BY <1>19 DEF Enter, Considered, Missing, IsNext, FailFastSkips, failed_upstream,
        taskVars, runVars, envVars, IInv, TypeOK, Focus, InExecute, EnterTested,
        Untouched, VisitedStates, TaskRuns
<1>20. ASSUME NEW e \in {"error", "exit"}, TaskRaises(e) PROVE EnterTested' /\ Untouched' /\ VisitedStates'
  BY <1>20 DEF TaskRaises, taskVars, loopVars, runVars, envVars, IInv, TypeOK,
        Focus, InExecute, EnterTested, Untouched, VisitedStates, TaskRuns,
        failed_upstream
<1>21. ASSUME DriverNotEntered PROVE EnterTested' /\ Untouched' /\ VisitedStates'
  BY <1>21 DEF DriverNotEntered, taskVars, loopVars, runVars, envVars, IInv,
        TypeOK, Focus, InExecute, EnterTested, Untouched, VisitedStates,
        TaskRuns, failed_upstream
<1>22. ASSUME KillRequest PROVE EnterTested' /\ Untouched' /\ VisitedStates'
  BY <1>22 DEF KillRequest, taskVars, loopVars, envVars, IInv, TypeOK, Focus,
        InExecute, EnterTested, Untouched, VisitedStates, TaskRuns,
        failed_upstream
<1>23. ASSUME NotEntered PROVE EnterTested' /\ Untouched' /\ VisitedStates'
  BY <1>23 DEF NotEntered, LeaveTask, taskVars, runVars, envVars, IInv,
        TypeOK, Focus, InExecute, EnterTested, Untouched, VisitedStates,
        TaskRuns, failed_upstream
<1>24. ASSUME LoopEnds PROVE EnterTested' /\ Untouched' /\ VisitedStates'
  BY <1>24 DEF LoopEnds, taskVars, loopVars, runVars, envVars, IInv, TypeOK,
        Focus, InExecute, EnterTested, Untouched, VisitedStates, TaskRuns,
        failed_upstream
<1>25. ASSUME NEW ok \in BOOLEAN, TaskReturns(ok) PROVE EnterTested' /\ Untouched' /\ VisitedStates'
  BY <1>25 DEF TaskReturns, LeaveTask, taskVars, runVars, envVars, IInv,
        TypeOK, Focus, InExecute, EnterTested, Untouched, VisitedStates,
        TaskRuns, failed_upstream
<1>26. ASSUME WrapupFails PROVE EnterTested' /\ Untouched' /\ VisitedStates'
  BY <1>26 DEF WrapupFails, taskVars, loopVars, runVars, envVars, IInv,
        TypeOK, Focus, InExecute, EnterTested, Untouched, VisitedStates,
        TaskRuns, failed_upstream
<1>27. ASSUME DeliverSigTerm PROVE EnterTested' /\ Untouched' /\ VisitedStates'
  BY <1>27 DEF DeliverSigTerm, Raised, RaisedInTask, Swallowed,
        RaisedInDriver, RaisedInRun, RaisedOutside, LeaveDoRun, InTask,
        InDriver, taskVars, loopVars, runVars, IInv, TypeOK, Focus, InExecute,
        EnterTested, Untouched, VisitedStates, TaskRuns, failed_upstream
<1>28. ASSUME PrepareFails PROVE EnterTested' /\ Untouched' /\ VisitedStates'
  BY <1>28 DEF PrepareFails, taskVars, loopVars, runVars, envVars, IInv,
        TypeOK, Focus, InExecute, EnterTested, Untouched, VisitedStates,
        TaskRuns, failed_upstream
<1>29. ASSUME OnKillEnds PROVE EnterTested' /\ Untouched' /\ VisitedStates'
  BY <1>29 DEF OnKillEnds, taskVars, loopVars, runVars, envVars, IInv, TypeOK,
        Focus, InExecute, EnterTested, Untouched, VisitedStates, TaskRuns,
        failed_upstream
<1>30. ASSUME KillRaised PROVE EnterTested' /\ Untouched' /\ VisitedStates'
  BY <1>30 DEF KillRaised, taskVars, loopVars, runVars, envVars, IInv, TypeOK,
        Focus, InExecute, EnterTested, Untouched, VisitedStates, TaskRuns,
        failed_upstream
<1>31. ASSUME kill PROVE EnterTested' /\ Untouched' /\ VisitedStates'
  BY <1>31 DEF kill, taskVars, loopVars, runVars, envVars, IInv, TypeOK,
        Focus, InExecute, EnterTested, Untouched, VisitedStates, TaskRuns,
        failed_upstream
<1>32. ASSUME HeartbeatKills PROVE EnterTested' /\ Untouched' /\ VisitedStates'
  BY <1>32 DEF HeartbeatKills, taskVars, loopVars, runVars, Alive, IInv,
        TypeOK, Focus, InExecute, EnterTested, Untouched, VisitedStates,
        TaskRuns, failed_upstream
<1>33. ASSUME HeartbeatStops PROVE EnterTested' /\ Untouched' /\ VisitedStates'
  BY <1>33 DEF HeartbeatStops, taskVars, loopVars, runVars, IInv, TypeOK,
        Focus, InExecute, EnterTested, Untouched, VisitedStates, TaskRuns,
        failed_upstream
<1>34. ASSUME KeyboardInterrupt PROVE EnterTested' /\ Untouched' /\ VisitedStates'
  BY <1>34 DEF KeyboardInterrupt, Raised, RaisedInTask, Swallowed,
        RaisedInDriver, RaisedInRun, RaisedOutside, LeaveDoRun, InTask,
        InDriver, taskVars, loopVars, runVars, IInv, TypeOK, Focus, InExecute,
        EnterTested, Untouched, VisitedStates, TaskRuns, failed_upstream
<1>35. ASSUME StopRequested PROVE EnterTested' /\ Untouched' /\ VisitedStates'
  BY <1>35 DEF StopRequested, taskVars, loopVars, envVars, Alive, IInv,
        TypeOK, Focus, InExecute, EnterTested, Untouched, VisitedStates,
        TaskRuns, failed_upstream
<1>36. ASSUME SigTerm PROVE EnterTested' /\ Untouched' /\ VisitedStates'
  BY <1>36 DEF SigTerm, taskVars, loopVars, runVars, Alive, IInv, TypeOK,
        Focus, InExecute, EnterTested, Untouched, VisitedStates, TaskRuns,
        failed_upstream
<1>37. ASSUME Crash PROVE EnterTested' /\ Untouched' /\ VisitedStates'
  BY <1>37 DEF Crash, taskVars, loopVars, runVars, envVars, Alive, IInv,
        TypeOK, Focus, InExecute, EnterTested, Untouched, VisitedStates,
        TaskRuns, failed_upstream
<1>38. ASSUME Finished PROVE EnterTested' /\ Untouched' /\ VisitedStates'
  BY <1>38 DEF Finished, vars, taskVars, loopVars, runVars, envVars, Alive,
        taskVars, loopVars, runVars, envVars, IInv, TypeOK, Focus, InExecute,
        EnterTested, Untouched, VisitedStates, TaskRuns, failed_upstream
<1>39. ASSUME StartLoop PROVE EnterTested' /\ Untouched' /\ VisitedStates'
  BY <1>39 DEF StartLoop, taskVars, loopVars, runVars, envVars, IInv,
        TypeOK, Focus, InExecute, EnterTested, Untouched, VisitedStates,
        TaskRuns, failed_upstream
<1>40. ASSUME RunReturns PROVE EnterTested' /\ Untouched' /\ VisitedStates'
  BY <1>40 DEF RunReturns, taskVars, loopVars, runVars, envVars, IInv,
        TypeOK, Focus, InExecute, EnterTested, Untouched, VisitedStates,
        TaskRuns, failed_upstream
<1>41. ASSUME DriverExitFails PROVE EnterTested' /\ Untouched' /\ VisitedStates'
  BY <1>41 DEF DriverExitFails, taskVars, loopVars, runVars, envVars, IInv,
        TypeOK, Focus, InExecute, EnterTested, Untouched, VisitedStates,
        TaskRuns, failed_upstream
<1>42. ASSUME NEW t \in Tasks, UpstreamMissing(t) PROVE EnterTested' /\ Untouched' /\ VisitedStates'
  BY <1>42 DEF UpstreamMissing, IsNext, Missing, LeaveDoRun, taskVars, loopVars,
     runVars, envVars, IInv, TypeOK, Focus, InExecute, EnterTested, Untouched,
     VisitedStates, TaskRuns, failed_upstream
<1>43. CASE UNCHANGED vars
  BY <1>43 DEF vars, taskVars, loopVars, runVars, envVars, IInv, TypeOK,
        Focus, InExecute, EnterTested, Untouched, VisitedStates, TaskRuns,
        failed_upstream, TaskRuns
<1>. QED
  BY <1>1, <1>2, <1>3, <1>4, <1>5, <1>6, <1>7, <1>8, <1>9, <1>10, <1>11,
        <1>12, <1>13, <1>14, <1>15, <1>16, <1>17, <1>18, <1>19, <1>20, <1>21,
        <1>22, <1>23, <1>24, <1>25, <1>26, <1>27, <1>28, <1>29, <1>30, <1>31,
        <1>32, <1>33, <1>34, <1>35, <1>36, <1>37, <1>38, <1>39, <1>40, <1>41, <1>42,
        <1>43
     DEF Next, FrameworkStep, UserStep, EnvironmentStep, Visit

\* IInv is an invariant of the specification.
THEOREM Invariance == Spec => []IInv
<1>1. Init => IInv
  <2>1. Init => TypeOK
    <3>1. /\ 0 \in 0..MaxTrackFails
          /\ 0 \in 0..MaxSigTerms
          /\ 0 \in 0..MaxInterrupts
      BY BoundsAssumption
    <3>2. "NONE" \in TaskRunState /\ "NONE" \in RunState
      BY StateNames
    <3>. QED  BY <3>1, <3>2 DEF Init, TypeOK
  <2>2. Init => Focus /\ EnterTested /\ Untouched /\ VisitedStates
    BY TasksAssumption
       DEF Init, Focus, InExecute, EnterTested, Untouched, VisitedStates, TaskRuns
  <2>. QED  BY <2>1, <2>2 DEF IInv
<1>2. IInv /\ [Next]_vars => IInv'
  BY TypeStep, VisitStep DEF IInv
<1>. QED  BY <1>1, <1>2, PTL DEF Spec

\* Type correctness: states, counters and the focus keep to their sets for any
\* pipeline and any bounds.
THEOREM TypeCorrect == Spec => []TypeOK
  BY Invariance, PTL DEF IInv

\* Only the step that tracks RUNNING for the current task starts a task.
LEMMA StartIsTaskRunning ==
  ASSUME IInv, [Next]_vars, NEW w \in Tasks, Starts(w)
  PROVE  w = current /\ \E ok \in BOOLEAN : TaskRunning(ok)
<1> DEFINE Goal == w = current /\ \E ok \in BOOLEAN : TaskRunning(ok)
<1> USE TasksAssumption, StateNames
<1>1. ASSUME NEW ok \in BOOLEAN, StartRun(ok) PROVE Goal
  BY <1>1 DEF StartRun, set_run_state, taskVars, loopVars, envVars, Starts,
        IInv, TypeOK, Focus, Untouched, InExecute, TaskRuns
<1>2. ASSUME NEW ok \in BOOLEAN, DriverStart(ok) PROVE Goal
  BY <1>2 DEF DriverStart, set_task_run_state, loopVars, runVars, envVars,
        Starts, IInv, TypeOK, Focus, Untouched, InExecute, TaskRuns
<1>3. ASSUME NEW ok \in BOOLEAN, Flush(ok) PROVE Goal
  BY <1>3 DEF Flush, _collect_errors, loopVars, runVars, TaskRuns, Starts,
        IInv, TypeOK, Focus, Untouched, InExecute
<1>4. ASSUME NEW ok \in BOOLEAN, TaskReused(ok) PROVE Goal
  BY <1>4 DEF TaskReused, OrTaskRaises, loopVars, runVars, envVars, Starts,
        IInv, TypeOK, Focus, Untouched, InExecute, TaskRuns
<1>5. ASSUME NEW ok \in BOOLEAN, TaskRunning(ok) PROVE Goal
  BY <1>5 DEF TaskRunning, set_task_run_state, Starts, IInv, TypeOK, TaskRuns
<1>6. ASSUME NEW ok \in BOOLEAN, NEW exits \in BOOLEAN, TaskHandler(ok, exits)
      PROVE  Goal
  BY <1>6 DEF TaskHandler, Handle, HandlerState, set_task_run_state,
        LeaveDoRun, LeaveTask, loopVars, runVars, Starts, IInv, TypeOK, Focus,
        Untouched, InExecute, TaskRuns
<1>7. ASSUME NEW ok \in BOOLEAN, RunSucceeds(ok) PROVE Goal
  BY <1>7 DEF RunSucceeds, set_run_state, taskVars, loopVars, envVars, Starts,
        IInv, TypeOK, Focus, Untouched, InExecute, TaskRuns
<1>8. ASSUME NEW ok \in BOOLEAN, DriverSucceeds(ok) PROVE Goal
  BY <1>8 DEF DriverSucceeds, set_task_run_state, loopVars, runVars, envVars,
        Starts, IInv, TypeOK, Focus, Untouched, InExecute, TaskRuns
<1>9. ASSUME NEW ok \in BOOLEAN, DriverHandler(ok) PROVE Goal
  BY <1>9 DEF DriverHandler, Handle, HandlerState, set_task_run_state,
        loopVars, runVars, envVars, Starts, IInv, TypeOK, Focus, Untouched,
        InExecute, TaskRuns
<1>10. ASSUME NEW ok \in BOOLEAN, RunErrorState(ok) PROVE Goal
  BY <1>10 DEF RunErrorState, set_run_state, Cancelled, taskVars, loopVars,
        envVars, Starts, IInv, TypeOK, Focus, Untouched, InExecute, TaskRuns
<1>11. ASSUME NEW ok \in BOOLEAN, RunErrorTasks(ok) PROVE Goal
  BY <1>11 DEF RunErrorTasks, Unfinished, Cancelled, loopVars, runVars,
        envVars, TaskRuns, Starts, IInv, TypeOK, Focus, Untouched, InExecute
<1>12. ASSUME NEW ok \in BOOLEAN, Prepare(ok) PROVE Goal
  BY <1>12 DEF Prepare, loopVars, runVars, TaskRuns, Starts, IInv, TypeOK,
        Focus, Untouched, InExecute
<1>13. ASSUME NEW ok \in BOOLEAN, TaskSucceeds(ok) PROVE Goal
  BY <1>13 DEF TaskSucceeds, set_task_run_state, OrTaskRaises, loopVars,
        runVars, envVars, Starts, IInv, TypeOK, Focus, Untouched, InExecute,
        TaskRuns
<1>14. ASSUME NEW ok \in BOOLEAN, kill_run(ok) PROVE Goal
  BY <1>14 DEF kill_run, set_task_run_state, OrTaskRaises, loopVars, runVars,
        Starts, IInv, TypeOK, Focus, Untouched, InExecute, TaskRuns
<1>15. ASSUME NEW t \in Tasks, SkipReused(t) PROVE Goal
  BY <1>15 DEF SkipReused, IsNext, taskVars, runVars, envVars, Starts, IInv,
        TypeOK, Focus, Untouched, InExecute, TaskRuns
<1>16. ASSUME NEW t \in Tasks, SkipFailFast(t) PROVE Goal
  BY <1>16 DEF SkipFailFast, Considered, IsNext, FailFastSkips, SetInBatch,
        get_upstream_failed_task_run_state, runVars, envVars, Starts, IInv,
        TypeOK, Focus, Untouched, InExecute, TaskRuns
<1>17. ASSUME NEW t \in Tasks, SkipUpstreamFailed(t) PROVE Goal
  BY <1>17 DEF SkipUpstreamFailed, Considered, IsNext, FailFastSkips, SetInBatch,
        failed_upstream, runVars, envVars, Starts, IInv, TypeOK, Focus,
        Untouched, InExecute, TaskRuns
<1>18. ASSUME NEW t \in Tasks, SkipKilled(t) PROVE Goal
  BY <1>18 DEF SkipKilled, Considered, IsNext, FailFastSkips, SetInBatch, failed_upstream,
        runVars, envVars, Starts, IInv, TypeOK, Focus, Untouched, InExecute,
        TaskRuns
<1>19. ASSUME NEW t \in Tasks, Enter(t) PROVE Goal
  BY <1>19 DEF Enter, Considered, IsNext, FailFastSkips, failed_upstream, taskVars,
        runVars, envVars, Starts, IInv, TypeOK, Focus, Untouched, InExecute,
        TaskRuns
<1>20. ASSUME NEW e \in {"error", "exit"}, TaskRaises(e) PROVE Goal
  BY <1>20 DEF TaskRaises, taskVars, loopVars, runVars, envVars, Starts, IInv,
        TypeOK, Focus, Untouched, InExecute, TaskRuns
<1>21. ASSUME DriverNotEntered PROVE Goal
  BY <1>21 DEF DriverNotEntered, taskVars, loopVars, runVars, envVars, Starts,
        IInv, TypeOK, Focus, Untouched, InExecute, TaskRuns
<1>22. ASSUME KillRequest PROVE Goal
  BY <1>22 DEF KillRequest, taskVars, loopVars, envVars, Starts, IInv, TypeOK,
        Focus, Untouched, InExecute, TaskRuns
<1>23. ASSUME NotEntered PROVE Goal
  BY <1>23 DEF NotEntered, LeaveTask, taskVars, runVars, envVars, Starts,
        IInv, TypeOK, Focus, Untouched, InExecute, TaskRuns
<1>24. ASSUME LoopEnds PROVE Goal
  BY <1>24 DEF LoopEnds, taskVars, loopVars, runVars, envVars, Starts, IInv,
        TypeOK, Focus, Untouched, InExecute, TaskRuns
<1>25. ASSUME NEW ok \in BOOLEAN, TaskReturns(ok) PROVE Goal
  BY <1>25 DEF TaskReturns, LeaveTask, taskVars, runVars, envVars, Starts,
        IInv, TypeOK, Focus, Untouched, InExecute, TaskRuns
<1>26. ASSUME WrapupFails PROVE Goal
  BY <1>26 DEF WrapupFails, taskVars, loopVars, runVars, envVars, Starts,
        IInv, TypeOK, Focus, Untouched, InExecute, TaskRuns
<1>27. ASSUME DeliverSigTerm PROVE Goal
  BY <1>27 DEF DeliverSigTerm, Raised, RaisedInTask, Swallowed,
        RaisedInDriver, RaisedInRun, RaisedOutside, LeaveDoRun, InTask,
        InDriver, taskVars, loopVars, runVars, Starts, IInv, TypeOK, Focus,
        Untouched, InExecute, TaskRuns
<1>28. ASSUME PrepareFails PROVE Goal
  BY <1>28 DEF PrepareFails, taskVars, loopVars, runVars, envVars, Starts,
        IInv, TypeOK, Focus, Untouched, InExecute, TaskRuns
<1>29. ASSUME OnKillEnds PROVE Goal
  BY <1>29 DEF OnKillEnds, taskVars, loopVars, runVars, envVars, Starts, IInv,
        TypeOK, Focus, Untouched, InExecute, TaskRuns
<1>30. ASSUME KillRaised PROVE Goal
  BY <1>30 DEF KillRaised, taskVars, loopVars, runVars, envVars, Starts, IInv,
        TypeOK, Focus, Untouched, InExecute, TaskRuns
<1>31. ASSUME kill PROVE Goal
  BY <1>31 DEF kill, taskVars, loopVars, runVars, envVars, Starts, IInv,
        TypeOK, Focus, Untouched, InExecute, TaskRuns
<1>32. ASSUME HeartbeatKills PROVE Goal
  BY <1>32 DEF HeartbeatKills, taskVars, loopVars, runVars, Alive, Starts,
        IInv, TypeOK, Focus, Untouched, InExecute, TaskRuns
<1>33. ASSUME HeartbeatStops PROVE Goal
  BY <1>33 DEF HeartbeatStops, taskVars, loopVars, runVars, Starts, IInv,
        TypeOK, Focus, Untouched, InExecute, TaskRuns
<1>34. ASSUME KeyboardInterrupt PROVE Goal
  BY <1>34 DEF KeyboardInterrupt, Raised, RaisedInTask, Swallowed,
        RaisedInDriver, RaisedInRun, RaisedOutside, LeaveDoRun, InTask,
        InDriver, taskVars, loopVars, runVars, Starts, IInv, TypeOK, Focus,
        Untouched, InExecute, TaskRuns
<1>35. ASSUME StopRequested PROVE Goal
  BY <1>35 DEF StopRequested, taskVars, loopVars, envVars, Alive, Starts,
        IInv, TypeOK, Focus, Untouched, InExecute, TaskRuns
<1>36. ASSUME SigTerm PROVE Goal
  BY <1>36 DEF SigTerm, taskVars, loopVars, runVars, Alive, Starts, IInv,
        TypeOK, Focus, Untouched, InExecute, TaskRuns
<1>37. ASSUME Crash PROVE Goal
  BY <1>37 DEF Crash, taskVars, loopVars, runVars, envVars, Alive, Starts,
        IInv, TypeOK, Focus, Untouched, InExecute, TaskRuns
<1>38. ASSUME Finished PROVE Goal
  BY <1>38 DEF Finished, vars, taskVars, loopVars, runVars, envVars, Alive,
        taskVars, loopVars, runVars, envVars, Starts, IInv, TypeOK, Focus,
        Untouched, InExecute, TaskRuns
<1>39. ASSUME StartLoop PROVE Goal
  BY <1>39 DEF StartLoop, taskVars, loopVars, runVars, envVars, Starts,
        IInv, TypeOK, Focus, Untouched, InExecute, TaskRuns
<1>40. ASSUME RunReturns PROVE Goal
  BY <1>40 DEF RunReturns, taskVars, loopVars, runVars, envVars, Starts,
        IInv, TypeOK, Focus, Untouched, InExecute, TaskRuns
<1>41. ASSUME DriverExitFails PROVE Goal
  BY <1>41 DEF DriverExitFails, taskVars, loopVars, runVars, envVars, Starts,
        IInv, TypeOK, Focus, Untouched, InExecute, TaskRuns
<1>42. ASSUME NEW t \in Tasks, UpstreamMissing(t) PROVE Goal
  BY <1>42 DEF UpstreamMissing, IsNext, Missing, LeaveDoRun, taskVars, loopVars,
     runVars, envVars, Starts, IInv, TypeOK, Focus, Untouched, InExecute, TaskRuns
<1>43. CASE UNCHANGED vars
  BY <1>43 DEF vars, taskVars, loopVars, runVars, envVars, Starts, IInv,
        TypeOK, Focus, Untouched, InExecute, TaskRuns, TaskRuns
<1>. QED
  BY <1>1, <1>2, <1>3, <1>4, <1>5, <1>6, <1>7, <1>8, <1>9, <1>10, <1>11,
        <1>12, <1>13, <1>14, <1>15, <1>16, <1>17, <1>18, <1>19, <1>20, <1>21,
        <1>22, <1>23, <1>24, <1>25, <1>26, <1>27, <1>28, <1>29, <1>30, <1>31,
        <1>32, <1>33, <1>34, <1>35, <1>36, <1>37, <1>38, <1>39, <1>40, <1>41, <1>42,
        <1>43
     DEF Next, FrameworkStep, UserStep, EnvironmentStep, Visit

\* A task starts only with every upstream task reused, succeeded or never begun, whatever
\* was killed, interrupted, disabled or failed to be tracked.
THEOREM UpstreamRespectedHolds == Spec => UpstreamRespected
<1>1. ASSUME IInv, [Next]_vars, NEW t \in Tasks, Starts(t), NEW u \in Upstream[t]
      PROVE  u \in Reused \/ state[u] = "SUCCESS" \/ NeverBegan(u)
  <2>1. t = current /\ pc = "enter" /\ ~killed
    BY <1>1, StartIsTaskRunning DEF TaskRunning
  <2>2. u \in visited /\ state[u] \notin fail_states
    BY <1>1, <2>1, GraphAssumption DEF IInv, EnterTested, failed_upstream
  <2>3. u \in Reused \/ state[u] \in final_states \cup {"NONE"}
    BY <1>1, <2>1, <2>2 DEF IInv, VisitedStates
  <2>. QED  BY <2>2, <2>3 DEF final_states, NeverBegan
<1>2. IInv /\ [Next]_vars =>
        [\A t \in Tasks : Starts(t) =>
           \A u \in Upstream[t] : u \in Reused \/ state[u] = "SUCCESS" \/ NeverBegan(u)]_vars
  BY <1>1
<1>. QED  BY <1>2, Invariance, PTL DEF Spec, UpstreamRespected

\* No task starts after a kill, or after a failure with fail_fast.
THEOREM NoNewWorkHolds == Spec => NoNewWork
<1>1. ASSUME IInv, [Next]_vars, NEW t \in Tasks, Starts(t)
      PROVE  ~killed /\ ~(FailFast /\ task_failed)
  <2>1. pc = "enter" /\ ~killed
    BY <1>1, StartIsTaskRunning DEF TaskRunning
  <2>. QED  BY <1>1, <2>1 DEF IInv, EnterTested
<1>2. IInv /\ [Next]_vars =>
        [(killed \/ (FailFast /\ task_failed)) => \A t \in Tasks : ~Starts(t)]_vars
  BY <1>1
<1>. QED  BY <1>2, Invariance, PTL DEF Spec, NoNewWork

-----------------------------------------------------------------------------
\* FailureNoted and Outcome are kept when nobody calls kill() or kill_run().
LEMMA OutcomeStep ==
  ASSUME ~AllowKill, IInv, IInv', FailureNoted, Outcome, [Next]_vars
  PROVE  FailureNoted' /\ Outcome'
<1> USE TasksAssumption, GraphAssumption, StateNames
<1>1. ASSUME NEW ok \in BOOLEAN, StartRun(ok) PROVE FailureNoted' /\ Outcome'
  BY <1>1 DEF NeverBegan, AFailure, StartRun, set_run_state, taskVars, loopVars, envVars,
        FailureNoted, Outcome, AllDone, IInv, Focus, Untouched, VisitedStates,
        TypeOK, InExecute, InDoRun, TaskRuns
<1>2. ASSUME NEW ok \in BOOLEAN, DriverStart(ok) PROVE FailureNoted' /\ Outcome'
  BY <1>2 DEF NeverBegan, AFailure, DriverStart, set_task_run_state, loopVars, runVars, envVars,
        FailureNoted, Outcome, AllDone, IInv, Focus, Untouched, VisitedStates,
        TypeOK, InExecute, InDoRun, TaskRuns
<1>3. ASSUME NEW ok \in BOOLEAN, Flush(ok) PROVE FailureNoted' /\ Outcome'
  <2>1. /\ pc = "flush" /\ pc' \in {"finish", "driver_exc"}
        /\ UNCHANGED <<state, disabled, visited, task_failed, killed, run_state>>
        /\ pc' = "finish" => ~(task_failed /\ _collect_errors)
    BY <1>3 DEF Flush, loopVars, runVars
  <2>2. ASSUME pc' = "finish", NEW t \in ToRun
        PROVE  state[t] = "SUCCESS" \/ NeverBegan(t)
    <3>1. t \in visited \ Reused
      BY <2>1, <2>2 DEF Outcome, ToRun
    <3>2. CASE task_failed
      <4>1. state[t] \notin fail_states /\ state[t] \in final_states \cup {"NONE"}
        BY <2>1, <2>2, <3>1, <3>2 DEF _collect_errors, IInv, VisitedStates, ToRun, TaskRuns
      <4>. QED  BY <3>1, <4>1 DEF NeverBegan, final_states
    <3>3. CASE ~task_failed
      BY <2>1, <3>1, <3>3 DEF FailureNoted
    <3>. QED  BY <3>2, <3>3
  <2>3. pc' = "finish" => AllDone'
    BY <2>1, <2>2 DEF AllDone, NeverBegan, ToRun
  <2>4. run_state # "SUCCESS"
    BY <2>1 DEF Outcome
  <2>5. FailureNoted'
    BY <2>1 DEF FailureNoted, InDoRun, InExecute
  <2>. QED  BY <2>1, <2>3, <2>4, <2>5 DEF Outcome
<1>4. ASSUME NEW ok \in BOOLEAN, TaskReused(ok) PROVE FailureNoted' /\ Outcome'
  BY <1>4 DEF NeverBegan, AFailure, TaskReused, OrTaskRaises, loopVars, runVars, envVars,
        FailureNoted, Outcome, AllDone, IInv, Focus, Untouched, VisitedStates,
        TypeOK, InExecute, InDoRun, TaskRuns
<1>5. ASSUME NEW ok \in BOOLEAN, TaskRunning(ok) PROVE FailureNoted' /\ Outcome'
  BY <1>5 DEF NeverBegan, AFailure, TaskRunning, set_task_run_state, OrTaskRaises, loopVars,
        runVars, envVars, FailureNoted, Outcome, AllDone, IInv, Focus,
        Untouched, VisitedStates, TypeOK, InExecute, InDoRun, TaskRuns
<1>6. ASSUME NEW ok \in BOOLEAN, NEW exits \in BOOLEAN, TaskHandler(ok, exits)
      PROVE  FailureNoted' /\ Outcome'
  BY <1>6 DEF NeverBegan, AFailure, TaskHandler, Handle, HandlerState, set_task_run_state,
        LeaveDoRun, LeaveTask, loopVars, runVars, FailureNoted, Outcome,
        AllDone, IInv, Focus, Untouched, VisitedStates, TypeOK, InExecute,
        InDoRun, TaskRuns
<1>7. ASSUME NEW ok \in BOOLEAN, RunSucceeds(ok) PROVE FailureNoted' /\ Outcome'
  BY <1>7 DEF NeverBegan, AFailure, RunSucceeds, set_run_state, taskVars, loopVars, envVars,
        FailureNoted, Outcome, AllDone, IInv, Focus, Untouched, VisitedStates,
        TypeOK, InExecute, InDoRun, TaskRuns
<1>8. ASSUME NEW ok \in BOOLEAN, DriverSucceeds(ok) PROVE FailureNoted' /\ Outcome'
  BY <1>8 DEF NeverBegan, AFailure, DriverSucceeds, set_task_run_state, loopVars,
     runVars, envVars, FailureNoted, Outcome, AllDone, IInv, Focus, Untouched,
     VisitedStates, TypeOK, InExecute, InDoRun, TaskRuns
<1>9. ASSUME NEW ok \in BOOLEAN, DriverHandler(ok) PROVE FailureNoted' /\ Outcome'
  BY <1>9 DEF NeverBegan, AFailure, DriverHandler, Handle, HandlerState, set_task_run_state,
        loopVars, runVars, envVars, FailureNoted, Outcome, AllDone, IInv,
        Focus, Untouched, VisitedStates, TypeOK, InExecute, InDoRun, TaskRuns
<1>10. ASSUME NEW ok \in BOOLEAN, RunErrorState(ok) PROVE FailureNoted' /\ Outcome'
  BY <1>10 DEF NeverBegan, AFailure, RunErrorState, set_run_state, Cancelled, taskVars,
     loopVars, envVars, FailureNoted, Outcome, AllDone, IInv, Focus, Untouched,
     VisitedStates, TypeOK, InExecute, InDoRun, TaskRuns
<1>11. ASSUME NEW ok \in BOOLEAN, RunErrorTasks(ok) PROVE FailureNoted' /\ Outcome'
  BY <1>11 DEF NeverBegan, AFailure, RunErrorTasks, Unfinished, Cancelled, loopVars, runVars,
        envVars, TaskRuns, FailureNoted, Outcome, AllDone, IInv, Focus,
        Untouched, VisitedStates, TypeOK, InExecute, InDoRun
<1>12. ASSUME NEW ok \in BOOLEAN, Prepare(ok) PROVE FailureNoted' /\ Outcome'
  BY <1>12 DEF NeverBegan, AFailure, Prepare, loopVars, runVars, TaskRuns, FailureNoted,
     Outcome, AllDone, IInv, Focus, Untouched, VisitedStates, TypeOK, InExecute, InDoRun
<1>13. ASSUME NEW ok \in BOOLEAN, TaskSucceeds(ok) PROVE FailureNoted' /\ Outcome'
  BY <1>13 DEF NeverBegan, AFailure, TaskSucceeds, set_task_run_state, OrTaskRaises, loopVars,
        runVars, envVars, FailureNoted, Outcome, AllDone, IInv, Focus,
        Untouched, VisitedStates, TypeOK, InExecute, InDoRun, TaskRuns
<1>14. ASSUME NEW ok \in BOOLEAN, kill_run(ok) PROVE FailureNoted' /\ Outcome'
  BY <1>14 DEF kill_run, set_task_run_state, OrTaskRaises, loopVars, runVars,
        FailureNoted, Outcome, AllDone, IInv, Focus, Untouched, VisitedStates,
        TypeOK, InExecute, InDoRun, TaskRuns
<1>15. ASSUME NEW t \in Tasks, SkipReused(t) PROVE FailureNoted' /\ Outcome'
  BY <1>15 DEF NeverBegan, AFailure, SkipReused, IsNext, taskVars, runVars, envVars,
     FailureNoted, Outcome, AllDone, IInv, Focus, Untouched, VisitedStates, TypeOK,
     InExecute, InDoRun, TaskRuns
<1>16. ASSUME NEW t \in Tasks, SkipFailFast(t) PROVE FailureNoted' /\ Outcome'
  BY <1>16 DEF NeverBegan, AFailure, SkipFailFast, Considered, IsNext, FailFastSkips,
     SetInBatch, get_upstream_failed_task_run_state, runVars, envVars, FailureNoted,
     Outcome, AllDone, IInv, Focus, Untouched, VisitedStates, TypeOK, InExecute,
     InDoRun, TaskRuns
<1>17. ASSUME NEW t \in Tasks, SkipUpstreamFailed(t) PROVE FailureNoted' /\ Outcome'
  BY <1>17 DEF NeverBegan, AFailure, SkipUpstreamFailed, Considered, IsNext,
     FailFastSkips, SetInBatch, failed_upstream, runVars, envVars, FailureNoted,
     Outcome, AllDone, IInv, Focus, Untouched, VisitedStates, TypeOK, InExecute,
     InDoRun, TaskRuns
<1>18. ASSUME NEW t \in Tasks, SkipKilled(t) PROVE FailureNoted' /\ Outcome'
  BY <1>18 DEF NeverBegan, AFailure, SkipKilled, Considered, IsNext, FailFastSkips,
     SetInBatch, failed_upstream, runVars, envVars, FailureNoted, Outcome, AllDone,
     IInv, Focus, Untouched, VisitedStates, TypeOK, InExecute, InDoRun, TaskRuns
<1>19. ASSUME NEW t \in Tasks, Enter(t) PROVE FailureNoted' /\ Outcome'
  BY <1>19 DEF NeverBegan, AFailure, Enter, Considered, IsNext, FailFastSkips,
     failed_upstream, taskVars, runVars, envVars, FailureNoted, Outcome, AllDone, IInv,
     Focus, Untouched, VisitedStates, TypeOK, InExecute, InDoRun, TaskRuns
<1>20. ASSUME NEW e \in {"error", "exit"}, TaskRaises(e) PROVE FailureNoted' /\ Outcome'
  BY <1>20 DEF NeverBegan, AFailure, TaskRaises, taskVars, loopVars, runVars, envVars,
     FailureNoted, Outcome, AllDone, IInv, Focus, Untouched, VisitedStates, TypeOK,
     InExecute, InDoRun, TaskRuns
<1>21. ASSUME DriverNotEntered PROVE FailureNoted' /\ Outcome'
  BY <1>21 DEF NeverBegan, AFailure, DriverNotEntered, taskVars, loopVars, runVars, envVars,
        FailureNoted, Outcome, AllDone, IInv, Focus, Untouched, VisitedStates,
        TypeOK, InExecute, InDoRun, TaskRuns
<1>22. ASSUME KillRequest PROVE FailureNoted' /\ Outcome'
  BY <1>22 DEF NeverBegan, AFailure, KillRequest, taskVars, loopVars, envVars, FailureNoted,
        Outcome, AllDone, IInv, Focus, Untouched, VisitedStates, TypeOK,
        InExecute, InDoRun, TaskRuns
<1>23. ASSUME NotEntered PROVE FailureNoted' /\ Outcome'
  BY <1>23 DEF NeverBegan, AFailure, NotEntered, LeaveTask, taskVars, runVars, envVars,
        FailureNoted, Outcome, AllDone, IInv, Focus, Untouched, VisitedStates,
        TypeOK, InExecute, InDoRun, TaskRuns
<1>24. ASSUME LoopEnds PROVE FailureNoted' /\ Outcome'
  BY <1>24 DEF NeverBegan, AFailure, LoopEnds, taskVars, loopVars, runVars, envVars,
     FailureNoted, Outcome, AllDone, IInv, Focus, Untouched, VisitedStates, TypeOK,
     InExecute, InDoRun, TaskRuns
<1>25. ASSUME NEW ok \in BOOLEAN, TaskReturns(ok) PROVE FailureNoted' /\ Outcome'
  BY <1>25 DEF NeverBegan, AFailure, TaskReturns, LeaveTask, taskVars, runVars, envVars,
        FailureNoted, Outcome, AllDone, IInv, Focus, Untouched, VisitedStates,
        TypeOK, InExecute, InDoRun, TaskRuns
<1>26. ASSUME WrapupFails PROVE FailureNoted' /\ Outcome'
  BY <1>26 DEF NeverBegan, AFailure, WrapupFails, taskVars, loopVars, runVars, envVars,
        FailureNoted, Outcome, AllDone, IInv, Focus, Untouched, VisitedStates,
        TypeOK, InExecute, InDoRun, TaskRuns
<1>27. ASSUME DeliverSigTerm PROVE FailureNoted' /\ Outcome'
  BY <1>27 DEF NeverBegan, AFailure, DeliverSigTerm, Raised, RaisedInTask, Swallowed,
        RaisedInDriver, RaisedInRun, RaisedOutside, LeaveDoRun, InTask,
        InDriver, taskVars, loopVars, runVars, FailureNoted, Outcome, AllDone,
        IInv, Focus, Untouched, VisitedStates, TypeOK, InExecute, InDoRun,
        TaskRuns
<1>28. ASSUME PrepareFails PROVE FailureNoted' /\ Outcome'
  BY <1>28 DEF NeverBegan, AFailure, PrepareFails, taskVars, loopVars, runVars, envVars,
        FailureNoted, Outcome, AllDone, IInv, Focus, Untouched, VisitedStates,
        TypeOK, InExecute, InDoRun, TaskRuns
<1>29. ASSUME OnKillEnds PROVE FailureNoted' /\ Outcome'
  BY <1>29 DEF NeverBegan, AFailure, OnKillEnds, taskVars, loopVars, runVars, envVars,
     FailureNoted, Outcome, AllDone, IInv, Focus, Untouched, VisitedStates, TypeOK,
     InExecute, InDoRun, TaskRuns
<1>30. ASSUME KillRaised PROVE FailureNoted' /\ Outcome'
  BY <1>30 DEF NeverBegan, AFailure, KillRaised, taskVars, loopVars, runVars, envVars,
     FailureNoted, Outcome, AllDone, IInv, Focus, Untouched, VisitedStates, TypeOK,
     InExecute, InDoRun, TaskRuns
<1>31. ASSUME kill PROVE FailureNoted' /\ Outcome'
  BY <1>31 DEF kill, taskVars, loopVars, runVars, envVars, FailureNoted,
        Outcome, AllDone, IInv, Focus, Untouched, VisitedStates, TypeOK,
        InExecute, InDoRun, TaskRuns
<1>32. ASSUME HeartbeatKills PROVE FailureNoted' /\ Outcome'
  BY <1>32 DEF NeverBegan, AFailure, HeartbeatKills, taskVars, loopVars, runVars, Alive,
        FailureNoted, Outcome, AllDone, IInv, Focus, Untouched, VisitedStates,
        TypeOK, InExecute, InDoRun, TaskRuns
<1>33. ASSUME HeartbeatStops PROVE FailureNoted' /\ Outcome'
  BY <1>33 DEF NeverBegan, AFailure, HeartbeatStops, taskVars, loopVars, runVars, FailureNoted,
        Outcome, AllDone, IInv, Focus, Untouched, VisitedStates, TypeOK,
        InExecute, InDoRun, TaskRuns
<1>34. ASSUME KeyboardInterrupt PROVE FailureNoted' /\ Outcome'
  BY <1>34 DEF NeverBegan, AFailure, KeyboardInterrupt, Raised, RaisedInTask, Swallowed,
        RaisedInDriver, RaisedInRun, RaisedOutside, LeaveDoRun, InTask,
        InDriver, taskVars, loopVars, runVars, FailureNoted, Outcome, AllDone,
        IInv, Focus, Untouched, VisitedStates, TypeOK, InExecute, InDoRun,
        TaskRuns
<1>35. ASSUME StopRequested PROVE FailureNoted' /\ Outcome'
  BY <1>35 DEF NeverBegan, AFailure, StopRequested, taskVars, loopVars, envVars, Alive,
        FailureNoted, Outcome, AllDone, IInv, Focus, Untouched, VisitedStates,
        TypeOK, InExecute, InDoRun, TaskRuns
<1>36. ASSUME SigTerm PROVE FailureNoted' /\ Outcome'
  BY <1>36 DEF NeverBegan, AFailure, SigTerm, taskVars, loopVars, runVars, Alive, FailureNoted,
        Outcome, AllDone, IInv, Focus, Untouched, VisitedStates, TypeOK,
        InExecute, InDoRun, TaskRuns
<1>37. ASSUME Crash PROVE FailureNoted' /\ Outcome'
  BY <1>37 DEF NeverBegan, AFailure, Crash, taskVars, loopVars, runVars, envVars, Alive,
        FailureNoted, Outcome, AllDone, IInv, Focus, Untouched, VisitedStates,
        TypeOK, InExecute, InDoRun, TaskRuns
<1>38. ASSUME Finished PROVE FailureNoted' /\ Outcome'
  BY <1>38 DEF NeverBegan, AFailure, Finished, vars, taskVars, loopVars, runVars,
     envVars, Alive, taskVars, loopVars, runVars, envVars, FailureNoted, Outcome,
     AllDone, IInv, Focus, Untouched, VisitedStates, TypeOK, InExecute, InDoRun,
     TaskRuns
<1>39. ASSUME StartLoop PROVE FailureNoted' /\ Outcome'
  BY <1>39 DEF NeverBegan, AFailure, StartLoop, taskVars, loopVars, runVars, envVars,
        FailureNoted, Outcome, AllDone, IInv, Focus, Untouched, VisitedStates,
        TypeOK, InExecute, InDoRun, TaskRuns
<1>40. ASSUME RunReturns PROVE FailureNoted' /\ Outcome'
  BY <1>40 DEF NeverBegan, AFailure, RunReturns, taskVars, loopVars, runVars, envVars,
        FailureNoted, Outcome, AllDone, IInv, Focus, Untouched, VisitedStates,
        TypeOK, InExecute, InDoRun, TaskRuns
<1>41. ASSUME DriverExitFails PROVE FailureNoted' /\ Outcome'
  BY <1>41 DEF NeverBegan, AFailure, DriverExitFails, taskVars, loopVars, runVars, envVars,
        FailureNoted, Outcome, AllDone, IInv, Focus, Untouched, VisitedStates,
        TypeOK, InExecute, InDoRun, TaskRuns
<1>42. ASSUME NEW t \in Tasks, UpstreamMissing(t) PROVE FailureNoted' /\ Outcome'
  BY <1>42 DEF NeverBegan, AFailure, UpstreamMissing, IsNext, Missing, LeaveDoRun,
     taskVars, loopVars, runVars, envVars, FailureNoted, Outcome, AllDone, IInv, Focus,
     Untouched, VisitedStates, TypeOK, InExecute, InDoRun, TaskRuns
<1>43. CASE UNCHANGED vars
  BY <1>43 DEF vars, taskVars, loopVars, runVars, envVars, NeverBegan, AFailure, FailureNoted,
        Outcome, AllDone, IInv, Focus, Untouched, VisitedStates, TypeOK,
        InExecute, InDoRun, TaskRuns, TaskRuns
<1>. QED
  BY <1>1, <1>2, <1>3, <1>4, <1>5, <1>6, <1>7, <1>8, <1>9, <1>10, <1>11,
        <1>12, <1>13, <1>14, <1>15, <1>16, <1>17, <1>18, <1>19, <1>20, <1>21,
        <1>22, <1>23, <1>24, <1>25, <1>26, <1>27, <1>28, <1>29, <1>30, <1>31,
        <1>32, <1>33, <1>34, <1>35, <1>36, <1>37, <1>38, <1>39, <1>40, <1>41, <1>42,
        <1>43
     DEF Next, FrameworkStep, UserStep, EnvironmentStep, Visit

\* Unless somebody calls kill() or kill_run(), a run that ends as SUCCESS came to every
\* task that has a task run and was not reused, and each that began succeeded.
THEOREM SuccessMeansDoneHolds == ASSUME ~AllowKill PROVE Spec => []SuccessMeansDone
<1>1. Init => FailureNoted /\ Outcome
  BY GraphAssumption DEF Init, FailureNoted, Outcome, InDoRun, InExecute, TaskRuns
<1>2. IInv /\ IInv' /\ FailureNoted /\ Outcome /\ [Next]_vars => FailureNoted' /\ Outcome'
  BY OutcomeStep
<1>3. Outcome => SuccessMeansDone
  BY DEF Outcome, AllDone, SuccessMeansDone
<1>. QED  BY <1>1, <1>2, <1>3, Invariance, PTL DEF Spec

-----------------------------------------------------------------------------
\* DriverEnd is kept by every step, kills included.
LEMMA DriverStep == ASSUME TypeOK, Focus, DriverEnd, [Next]_vars PROVE DriverEnd'
<1> USE TasksAssumption, GraphAssumption, BoundsAssumption, StateNames
<1>1. ASSUME NEW ok \in BOOLEAN, StartRun(ok) PROVE DriverEnd'
  BY <1>1 DEF InError, RunEnd, StartRun, set_run_state, taskVars, loopVars, envVars, DriverEnd,
     Cancelled, TypeOK, TaskRuns, Driver, Focus, InExecute, CallEnds
<1>2. ASSUME NEW ok \in BOOLEAN, DriverStart(ok) PROVE DriverEnd'
  BY <1>2 DEF InError, RunEnd, DriverStart, set_task_run_state, loopVars, runVars, envVars,
     DriverEnd, Cancelled, TypeOK, TaskRuns, Driver, Focus, InExecute, CallEnds
<1>3. ASSUME NEW ok \in BOOLEAN, Flush(ok) PROVE DriverEnd'
  BY <1>3 DEF InError, RunEnd, Flush, _collect_errors, loopVars, runVars, DriverEnd, Cancelled,
     TypeOK, TaskRuns, Driver, Focus, InExecute, CallEnds
<1>4. ASSUME NEW ok \in BOOLEAN, TaskReused(ok) PROVE DriverEnd'
  BY <1>4 DEF InError, RunEnd, TaskReused, OrTaskRaises, loopVars, runVars, envVars, DriverEnd,
     Cancelled, TypeOK, TaskRuns, Driver, Focus, InExecute, CallEnds
<1>5. ASSUME NEW ok \in BOOLEAN, TaskRunning(ok) PROVE DriverEnd'
  BY <1>5 DEF InError, RunEnd, TaskRunning, set_task_run_state, OrTaskRaises, loopVars, runVars,
     envVars, DriverEnd, Cancelled, TypeOK, TaskRuns, Driver, Focus, InExecute,
     CallEnds
<1>6. ASSUME NEW ok \in BOOLEAN, NEW exits \in BOOLEAN, TaskHandler(ok, exits)
      PROVE  DriverEnd'
  BY <1>6 DEF InError, RunEnd, TaskHandler, Handle, HandlerState, set_task_run_state,
     LeaveDoRun, LeaveTask, loopVars, runVars, DriverEnd, Cancelled, TypeOK, TaskRuns,
     Driver, Focus, InExecute, CallEnds
<1>7. ASSUME NEW ok \in BOOLEAN, RunSucceeds(ok) PROVE DriverEnd'
  BY <1>7 DEF InError, RunEnd, RunSucceeds, set_run_state, taskVars, loopVars, envVars,
     DriverEnd, Cancelled, TypeOK, TaskRuns, Driver, Focus, InExecute, CallEnds
<1>8. ASSUME NEW ok \in BOOLEAN, DriverSucceeds(ok) PROVE DriverEnd'
  BY <1>8 DEF InError, RunEnd, DriverSucceeds, set_task_run_state, loopVars, runVars, envVars,
     DriverEnd, Cancelled, TypeOK, TaskRuns, Driver, Focus, InExecute, CallEnds
<1>9. ASSUME NEW ok \in BOOLEAN, DriverHandler(ok) PROVE DriverEnd'
  BY <1>9 DEF InError, RunEnd, DriverHandler, Handle, HandlerState, set_task_run_state,
     loopVars, runVars, envVars, DriverEnd, Cancelled, TypeOK, TaskRuns, Driver, Focus,
     InExecute, CallEnds
<1>10. ASSUME NEW ok \in BOOLEAN, RunErrorState(ok) PROVE DriverEnd'
  BY <1>10 DEF InError, RunEnd, RunErrorState, set_run_state, Cancelled, taskVars, loopVars,
     envVars, DriverEnd, TypeOK, TaskRuns, Driver, Focus, InExecute, CallEnds
<1>11. ASSUME NEW ok \in BOOLEAN, RunErrorTasks(ok) PROVE DriverEnd'
  BY <1>11 DEF InError, RunEnd, RunErrorTasks, Unfinished, Cancelled, loopVars, runVars,
     envVars, DriverEnd, TypeOK, TaskRuns, Driver, Focus, InExecute, CallEnds
<1>12. ASSUME NEW ok \in BOOLEAN, Prepare(ok) PROVE DriverEnd'
  BY <1>12 DEF InError, RunEnd, Prepare, loopVars, runVars, DriverEnd, Cancelled, TypeOK,
     TaskRuns, Driver, Focus, InExecute, CallEnds
<1>13. ASSUME NEW ok \in BOOLEAN, TaskSucceeds(ok) PROVE DriverEnd'
  BY <1>13 DEF InError, RunEnd, TaskSucceeds, set_task_run_state, OrTaskRaises, loopVars,
     runVars, envVars, DriverEnd, Cancelled, TypeOK, TaskRuns, Driver, Focus,
     InExecute, CallEnds
<1>14. ASSUME NEW ok \in BOOLEAN, kill_run(ok) PROVE DriverEnd'
  BY <1>14 DEF kill_run, set_task_run_state, OrTaskRaises, loopVars, runVars,
     InError, RunEnd, DriverEnd, Cancelled, TypeOK, TaskRuns, Driver, Focus, InExecute, CallEnds
<1>15. ASSUME NEW t \in Tasks, SkipReused(t) PROVE DriverEnd'
  BY <1>15 DEF InError, RunEnd, SkipReused, IsNext, taskVars, runVars, envVars, DriverEnd,
     Cancelled, TypeOK, TaskRuns, Driver, Focus, InExecute
<1>16. ASSUME NEW t \in Tasks, SkipFailFast(t) PROVE DriverEnd'
  BY <1>16 DEF InError, RunEnd, SkipFailFast, Considered, IsNext, FailFastSkips, SetInBatch,
     get_upstream_failed_task_run_state, runVars, envVars, DriverEnd, Cancelled,
     TypeOK, TaskRuns, Driver, Focus, InExecute
<1>17. ASSUME NEW t \in Tasks, SkipUpstreamFailed(t) PROVE DriverEnd'
  BY <1>17 DEF InError, RunEnd, SkipUpstreamFailed, Considered, IsNext, FailFastSkips,
     SetInBatch, failed_upstream, runVars, envVars, DriverEnd, Cancelled, TypeOK,
     TaskRuns, Driver, Focus, InExecute
<1>18. ASSUME NEW t \in Tasks, SkipKilled(t) PROVE DriverEnd'
  BY <1>18 DEF InError, RunEnd, SkipKilled, Considered, IsNext, FailFastSkips,
     SetInBatch, failed_upstream, runVars, envVars, DriverEnd, Cancelled, TypeOK,
     TaskRuns, Driver, Focus, InExecute
<1>19. ASSUME NEW t \in Tasks, Enter(t) PROVE DriverEnd'
  BY <1>19 DEF InError, RunEnd, Enter, Considered, IsNext, FailFastSkips,
     failed_upstream, taskVars, runVars, envVars, DriverEnd, Cancelled, TypeOK,
     TaskRuns, Driver, Focus, InExecute
<1>20. ASSUME NEW e \in {"error", "exit"}, TaskRaises(e) PROVE DriverEnd'
  BY <1>20 DEF InError, RunEnd, TaskRaises, taskVars, loopVars, runVars, envVars, DriverEnd,
     Cancelled, TypeOK, TaskRuns, Driver, Focus, InExecute
<1>21. ASSUME DriverNotEntered PROVE DriverEnd'
  BY <1>21 DEF InError, RunEnd, DriverNotEntered, taskVars, loopVars, runVars, envVars,
     DriverEnd, Cancelled, TypeOK, TaskRuns, Driver, Focus, InExecute
<1>22. ASSUME KillRequest PROVE DriverEnd'
  BY <1>22 DEF InError, RunEnd, KillRequest, taskVars, loopVars, envVars, DriverEnd, Cancelled,
     TypeOK, TaskRuns, Driver, Focus, InExecute
<1>23. ASSUME NotEntered PROVE DriverEnd'
  BY <1>23 DEF InError, RunEnd, NotEntered, LeaveTask, taskVars, runVars, envVars, DriverEnd,
     Cancelled, TypeOK, TaskRuns, Driver, Focus, InExecute
<1>24. ASSUME LoopEnds PROVE DriverEnd'
  BY <1>24 DEF InError, RunEnd, LoopEnds, taskVars, loopVars, runVars, envVars, DriverEnd,
     Cancelled, TypeOK, TaskRuns, Driver, Focus, InExecute
<1>25. ASSUME NEW ok \in BOOLEAN, TaskReturns(ok) PROVE DriverEnd'
  BY <1>25 DEF InError, RunEnd, TaskReturns, LeaveTask, taskVars, runVars, envVars, DriverEnd,
     Cancelled, TypeOK, TaskRuns, Driver, Focus, InExecute
<1>26. ASSUME WrapupFails PROVE DriverEnd'
  BY <1>26 DEF InError, RunEnd, WrapupFails, taskVars, loopVars, runVars, envVars, DriverEnd,
     Cancelled, TypeOK, TaskRuns, Driver, Focus, InExecute
<1>27. ASSUME DeliverSigTerm PROVE DriverEnd'
  BY <1>27 DEF InError, RunEnd, DeliverSigTerm, Raised, RaisedInTask, Swallowed, RaisedInDriver,
     RaisedInRun, RaisedOutside, LeaveDoRun, InTask, InDriver, taskVars,
     loopVars, runVars, DriverEnd, Cancelled, TypeOK, TaskRuns, Driver, Focus,
     InExecute
<1>28. ASSUME PrepareFails PROVE DriverEnd'
  BY <1>28 DEF InError, RunEnd, PrepareFails, taskVars, loopVars, runVars, envVars, DriverEnd,
     Cancelled, TypeOK, TaskRuns, Driver, Focus, InExecute
<1>29. ASSUME OnKillEnds PROVE DriverEnd'
  BY <1>29 DEF InError, RunEnd, OnKillEnds, taskVars, loopVars, runVars, envVars, DriverEnd,
     Cancelled, TypeOK, TaskRuns, Driver, Focus, InExecute
<1>30. ASSUME KillRaised PROVE DriverEnd'
  BY <1>30 DEF InError, RunEnd, KillRaised, taskVars, loopVars, runVars, envVars, DriverEnd,
     Cancelled, TypeOK, TaskRuns, Driver, Focus, InExecute
<1>31. ASSUME kill PROVE DriverEnd'
  BY <1>31 DEF kill, taskVars, loopVars, runVars, envVars, DriverEnd, Cancelled,
     TypeOK, TaskRuns, Driver, Focus, InExecute
<1>32. ASSUME HeartbeatKills PROVE DriverEnd'
  BY <1>32 DEF InError, RunEnd, HeartbeatKills, taskVars, loopVars, runVars, Alive, DriverEnd,
     Cancelled, TypeOK, TaskRuns, Driver, Focus, InExecute
<1>33. ASSUME HeartbeatStops PROVE DriverEnd'
  BY <1>33 DEF InError, RunEnd, HeartbeatStops, taskVars, loopVars, runVars, DriverEnd,
     Cancelled, TypeOK, TaskRuns, Driver, Focus, InExecute
<1>34. ASSUME KeyboardInterrupt PROVE DriverEnd'
  BY <1>34 DEF InError, RunEnd, KeyboardInterrupt, Raised, RaisedInTask, Swallowed,
     RaisedInDriver, RaisedInRun, RaisedOutside, LeaveDoRun, InTask, InDriver,
     taskVars, loopVars, runVars, DriverEnd, Cancelled, TypeOK, TaskRuns,
     Driver, Focus, InExecute
<1>35. ASSUME StopRequested PROVE DriverEnd'
  BY <1>35 DEF InError, RunEnd, StopRequested, taskVars, loopVars, envVars, Alive, DriverEnd,
     Cancelled, TypeOK, TaskRuns, Driver, Focus, InExecute
<1>36. ASSUME SigTerm PROVE DriverEnd'
  BY <1>36 DEF InError, RunEnd, SigTerm, taskVars, loopVars, runVars, Alive, DriverEnd,
     Cancelled, TypeOK, TaskRuns, Driver, Focus, InExecute
<1>37. ASSUME Crash PROVE DriverEnd'
  BY <1>37 DEF InError, RunEnd, Crash, taskVars, loopVars, runVars, envVars, Alive, DriverEnd,
     Cancelled, TypeOK, TaskRuns, Driver, Focus, InExecute
<1>38. ASSUME Finished PROVE DriverEnd'
  BY <1>38 DEF InError, RunEnd, Finished, vars, taskVars, loopVars, runVars, envVars, Alive,
     DriverEnd, Cancelled, TypeOK, TaskRuns, Driver, Focus, InExecute
<1>39. ASSUME StartLoop PROVE DriverEnd'
  BY <1>39 DEF InError, RunEnd, StartLoop, taskVars, loopVars, runVars, envVars, DriverEnd,
     Cancelled, TypeOK, TaskRuns, Driver, Focus, InExecute
<1>40. ASSUME RunReturns PROVE DriverEnd'
  BY <1>40 DEF InError, RunEnd, RunReturns, taskVars, loopVars, runVars, envVars, DriverEnd,
     Cancelled, TypeOK, TaskRuns, Driver, Focus, InExecute
<1>41. ASSUME DriverExitFails PROVE DriverEnd'
  BY <1>41 DEF InError, RunEnd, DriverExitFails, taskVars, loopVars, runVars, envVars,
     DriverEnd, Cancelled, TypeOK, TaskRuns, Driver, Focus, InExecute
<1>42. ASSUME NEW t \in Tasks, UpstreamMissing(t) PROVE DriverEnd'
  BY <1>42 DEF InError, RunEnd, UpstreamMissing, IsNext, Missing, LeaveDoRun, taskVars,
     loopVars, runVars, envVars, DriverEnd, Cancelled, TypeOK, TaskRuns, Driver, Focus,
     InExecute
<1>43. CASE UNCHANGED vars
  BY <1>43 DEF vars, taskVars, loopVars, runVars, envVars, InError, RunEnd, DriverEnd,
     Cancelled, TypeOK, TaskRuns, Driver, Focus, InExecute
<1>. QED
  BY <1>1, <1>2, <1>3, <1>4, <1>5, <1>6, <1>7, <1>8, <1>9, <1>10, <1>11,
        <1>12, <1>13, <1>14, <1>15, <1>16, <1>17, <1>18, <1>19, <1>20, <1>21,
        <1>22, <1>23, <1>24, <1>25, <1>26, <1>27, <1>28, <1>29, <1>30, <1>31,
        <1>32, <1>33, <1>34, <1>35, <1>36, <1>37, <1>38, <1>39, <1>40, <1>41, <1>42,
        <1>43
     DEF Next, FrameworkStep, UserStep, EnvironmentStep, Visit

\* Whatever was killed, interrupted or crashed: as long as the tracking calls return,
\* the run is SUCCESS exactly when run_execute returns normally, its driver task is then
\* SUCCESS, and a run that was killed is not FAILED, also when the error or the signal
\* comes while the contexts of the driver task are left.
THEOREM DriverAgreesHolds == Spec => []DriverAgrees
<1>1. Init => DriverEnd
  BY DEF Init, InError, DriverEnd, TaskRuns
<1>2. IInv /\ DriverEnd /\ [Next]_vars => DriverEnd'
  BY DriverStep DEF IInv
<1>3. DriverEnd => DriverAgrees
  BY DEF InError, RunEnd, DriverEnd, DriverAgrees, Cancelled
<1>. QED  BY <1>1, <1>2, <1>3, Invariance, PTL DEF Spec

-----------------------------------------------------------------------------
\* The batch is kept apart from the current, the reused and the unvisited tasks.
LEMMA BatchStep == ASSUME IInv, Batch, [Next]_vars PROVE Batch'
<1> USE TasksAssumption, GraphAssumption
<1>1. ASSUME NEW ok \in BOOLEAN, StartRun(ok) PROVE Batch'
  BY <1>1 DEF StartRun, set_run_state, taskVars, loopVars, envVars, Batch, IInv,
     TypeOK, Focus, InExecute, CallEnds
<1>2. ASSUME NEW ok \in BOOLEAN, DriverStart(ok) PROVE Batch'
  BY <1>2 DEF DriverStart, set_task_run_state, loopVars, runVars, envVars,
     Batch, IInv, TypeOK, Focus, InExecute, CallEnds
<1>3. ASSUME NEW ok \in BOOLEAN, Flush(ok) PROVE Batch'
  BY <1>3 DEF Flush, _collect_errors, loopVars, runVars, Batch, IInv, TypeOK,
     Focus, InExecute, CallEnds
<1>4. ASSUME NEW ok \in BOOLEAN, TaskReused(ok) PROVE Batch'
  BY <1>4 DEF TaskReused, OrTaskRaises, loopVars, runVars, envVars, Batch, IInv,
     TypeOK, Focus, InExecute, CallEnds
<1>5. ASSUME NEW ok \in BOOLEAN, TaskRunning(ok) PROVE Batch'
  BY <1>5 DEF TaskRunning, set_task_run_state, OrTaskRaises, loopVars, runVars,
     envVars, Batch, IInv, TypeOK, Focus, InExecute, CallEnds
<1>6. ASSUME NEW ok \in BOOLEAN, NEW exits \in BOOLEAN, TaskHandler(ok, exits)
      PROVE  Batch'
  BY <1>6 DEF TaskHandler, Handle, HandlerState, set_task_run_state, LeaveDoRun,
     LeaveTask, loopVars, runVars, Batch, IInv, TypeOK, Focus, InExecute,
     CallEnds
<1>7. ASSUME NEW ok \in BOOLEAN, RunSucceeds(ok) PROVE Batch'
  BY <1>7 DEF RunSucceeds, set_run_state, taskVars, loopVars, envVars, Batch,
     IInv, TypeOK, Focus, InExecute, CallEnds
<1>8. ASSUME NEW ok \in BOOLEAN, DriverSucceeds(ok) PROVE Batch'
  BY <1>8 DEF DriverSucceeds, set_task_run_state, loopVars, runVars, envVars,
     Batch, IInv, TypeOK, Focus, InExecute, CallEnds
<1>9. ASSUME NEW ok \in BOOLEAN, DriverHandler(ok) PROVE Batch'
  BY <1>9 DEF DriverHandler, Handle, HandlerState, set_task_run_state, loopVars,
     runVars, envVars, Batch, IInv, TypeOK, Focus, InExecute, CallEnds
<1>10. ASSUME NEW ok \in BOOLEAN, RunErrorState(ok) PROVE Batch'
  BY <1>10 DEF RunErrorState, set_run_state, Cancelled, taskVars, loopVars,
     envVars, Batch, IInv, TypeOK, Focus, InExecute, CallEnds
<1>11. ASSUME NEW ok \in BOOLEAN, RunErrorTasks(ok) PROVE Batch'
  BY <1>11 DEF RunErrorTasks, Unfinished, Cancelled, loopVars, runVars, envVars,
     Batch, IInv, TypeOK, Focus, InExecute, CallEnds
<1>12. ASSUME NEW ok \in BOOLEAN, Prepare(ok) PROVE Batch'
  BY <1>12 DEF Prepare, loopVars, runVars, Batch, IInv, TypeOK, Focus,
     InExecute, CallEnds
<1>13. ASSUME NEW ok \in BOOLEAN, TaskSucceeds(ok) PROVE Batch'
  BY <1>13 DEF TaskSucceeds, set_task_run_state, OrTaskRaises, loopVars,
     runVars, envVars, Batch, IInv, TypeOK, Focus, InExecute, CallEnds
<1>14. ASSUME NEW ok \in BOOLEAN, kill_run(ok) PROVE Batch'
  BY <1>14 DEF kill_run, set_task_run_state, OrTaskRaises, loopVars, runVars,
     Batch, IInv, TypeOK, Focus, InExecute, CallEnds
<1>15. ASSUME NEW t \in Tasks, SkipReused(t) PROVE Batch'
  BY <1>15 DEF SkipReused, IsNext, taskVars, runVars, envVars, Batch, IInv,
     TypeOK, Focus, InExecute
<1>16. ASSUME NEW t \in Tasks, SkipFailFast(t) PROVE Batch'
  BY <1>16 DEF TaskRuns, SkipFailFast, Considered, IsNext, FailFastSkips, SetInBatch,
     get_upstream_failed_task_run_state, runVars, envVars, Batch, IInv, TypeOK,
     Focus, InExecute
<1>17. ASSUME NEW t \in Tasks, SkipUpstreamFailed(t) PROVE Batch'
  BY <1>17 DEF TaskRuns, SkipUpstreamFailed, Considered, IsNext, FailFastSkips, SetInBatch,
     failed_upstream, runVars, envVars, Batch, IInv, TypeOK, Focus, InExecute
<1>18. ASSUME NEW t \in Tasks, SkipKilled(t) PROVE Batch'
  BY <1>18 DEF TaskRuns, SkipKilled, Considered, IsNext, FailFastSkips, SetInBatch,
     failed_upstream, runVars, envVars, Batch, IInv, TypeOK, Focus, InExecute
<1>19. ASSUME NEW t \in Tasks, Enter(t) PROVE Batch'
  BY <1>19 DEF Enter, Considered, IsNext, FailFastSkips, failed_upstream, taskVars, runVars,
     envVars, Batch, IInv, TypeOK, Focus, InExecute
<1>20. ASSUME NEW e \in {"error", "exit"}, TaskRaises(e) PROVE Batch'
  BY <1>20 DEF TaskRaises, taskVars, loopVars, runVars, envVars, Batch, IInv,
     TypeOK, Focus, InExecute
<1>21. ASSUME DriverNotEntered PROVE Batch'
  BY <1>21 DEF DriverNotEntered, taskVars, loopVars, runVars, envVars, Batch, IInv,
     TypeOK, Focus, InExecute
<1>22. ASSUME KillRequest PROVE Batch'
  BY <1>22 DEF KillRequest, taskVars, loopVars, envVars, Batch, IInv, TypeOK,
     Focus, InExecute
<1>23. ASSUME NotEntered PROVE Batch'
  BY <1>23 DEF NotEntered, LeaveTask, taskVars, runVars, envVars, Batch, IInv,
     TypeOK, Focus, InExecute
<1>24. ASSUME LoopEnds PROVE Batch'
  BY <1>24 DEF LoopEnds, taskVars, loopVars, runVars, envVars, Batch, IInv,
     TypeOK, Focus, InExecute
<1>25. ASSUME NEW ok \in BOOLEAN, TaskReturns(ok) PROVE Batch'
  BY <1>25 DEF TaskReturns, LeaveTask, taskVars, runVars, envVars, Batch, IInv,
     TypeOK, Focus, InExecute
<1>26. ASSUME WrapupFails PROVE Batch'
  BY <1>26 DEF WrapupFails, taskVars, loopVars, runVars, envVars, Batch, IInv,
     TypeOK, Focus, InExecute
<1>27. ASSUME DeliverSigTerm PROVE Batch'
  BY <1>27 DEF DeliverSigTerm, Raised, RaisedInTask, Swallowed, RaisedInDriver,
     RaisedInRun, RaisedOutside, LeaveDoRun, InTask, InDriver, taskVars,
     loopVars, runVars, Batch, IInv, TypeOK, Focus, InExecute
<1>28. ASSUME PrepareFails PROVE Batch'
  BY <1>28 DEF PrepareFails, taskVars, loopVars, runVars, envVars, Batch, IInv,
     TypeOK, Focus, InExecute
<1>29. ASSUME OnKillEnds PROVE Batch'
  BY <1>29 DEF OnKillEnds, taskVars, loopVars, runVars, envVars, Batch, IInv,
     TypeOK, Focus, InExecute
<1>30. ASSUME KillRaised PROVE Batch'
  BY <1>30 DEF KillRaised, taskVars, loopVars, runVars, envVars, Batch, IInv,
     TypeOK, Focus, InExecute
<1>31. ASSUME kill PROVE Batch'
  BY <1>31 DEF kill, taskVars, loopVars, runVars, envVars, Batch, IInv, TypeOK,
     Focus, InExecute
<1>32. ASSUME HeartbeatKills PROVE Batch'
  BY <1>32 DEF HeartbeatKills, taskVars, loopVars, runVars, Alive, Batch, IInv,
     TypeOK, Focus, InExecute
<1>33. ASSUME HeartbeatStops PROVE Batch'
  BY <1>33 DEF HeartbeatStops, taskVars, loopVars, runVars, Batch, IInv, TypeOK,
     Focus, InExecute
<1>34. ASSUME KeyboardInterrupt PROVE Batch'
  BY <1>34 DEF KeyboardInterrupt, Raised, RaisedInTask, Swallowed,
     RaisedInDriver, RaisedInRun, RaisedOutside, LeaveDoRun, InTask, InDriver,
     taskVars, loopVars, runVars, Batch, IInv, TypeOK, Focus, InExecute
<1>35. ASSUME StopRequested PROVE Batch'
  BY <1>35 DEF StopRequested, taskVars, loopVars, envVars, Alive, Batch, IInv,
     TypeOK, Focus, InExecute
<1>36. ASSUME SigTerm PROVE Batch'
  BY <1>36 DEF SigTerm, taskVars, loopVars, runVars, Alive, Batch, IInv, TypeOK,
     Focus, InExecute
<1>37. ASSUME Crash PROVE Batch'
  BY <1>37 DEF Crash, taskVars, loopVars, runVars, envVars, Alive, Batch, IInv,
     TypeOK, Focus, InExecute
<1>38. ASSUME Finished PROVE Batch'
  BY <1>38 DEF Finished, vars, taskVars, loopVars, runVars, envVars, Alive,
     Batch, IInv, TypeOK, Focus, InExecute
<1>39. ASSUME StartLoop PROVE Batch'
  BY <1>39 DEF StartLoop, taskVars, loopVars, runVars, envVars, Batch, IInv,
     TypeOK, Focus, InExecute
<1>40. ASSUME RunReturns PROVE Batch'
  BY <1>40 DEF RunReturns, taskVars, loopVars, runVars, envVars, Batch, IInv,
     TypeOK, Focus, InExecute
<1>41. ASSUME DriverExitFails PROVE Batch'
  BY <1>41 DEF DriverExitFails, taskVars, loopVars, runVars, envVars, Batch, IInv,
     TypeOK, Focus, InExecute
<1>42. ASSUME NEW t \in Tasks, UpstreamMissing(t) PROVE Batch'
  BY <1>42 DEF UpstreamMissing, IsNext, Missing, LeaveDoRun, taskVars, loopVars,
     runVars, envVars, Batch, IInv, TypeOK, Focus, InExecute
<1>43. CASE UNCHANGED vars
  BY <1>43 DEF vars, taskVars, loopVars, runVars, envVars, Batch, IInv, TypeOK,
     Focus, InExecute
<1>. QED
  BY <1>1, <1>2, <1>3, <1>4, <1>5, <1>6, <1>7, <1>8, <1>9, <1>10, <1>11,
        <1>12, <1>13, <1>14, <1>15, <1>16, <1>17, <1>18, <1>19, <1>20, <1>21,
        <1>22, <1>23, <1>24, <1>25, <1>26, <1>27, <1>28, <1>29, <1>30, <1>31,
        <1>32, <1>33, <1>34, <1>35, <1>36, <1>37, <1>38, <1>39, <1>40, <1>41, <1>42,
        <1>43
     DEF Next, FrameworkStep, UserStep, EnvironmentStep, Visit

\* Without kill(): each step tells the server what it changes, or adds it to the batch.
LEMMA ReportStep ==
  ASSUME ~AllowKill, IInv, IInv', Batch, FailureNoted, Outcome, DriverEnd, Reported, [Next]_vars
  PROVE  Reported'
<1> USE TasksAssumption, GraphAssumption, BoundsAssumption, StateNames
<1>1. ASSUME NEW ok \in BOOLEAN, StartRun(ok) PROVE Reported'
  BY <1>1 DEF Told, Unreported, NeverBegan, ToRun, AfterPrepare, StartRun,
     set_run_state, taskVars, loopVars, envVars, Reported, Settled, Cancelled, Batch,
     IInv, TypeOK, TaskRuns, Focus, Untouched, InExecute, InDoRun, CallEnds
<1>2. ASSUME NEW ok \in BOOLEAN, DriverStart(ok) PROVE Reported'
  BY <1>2 DEF Told, Unreported, NeverBegan, ToRun, AfterPrepare, DriverStart,
     set_task_run_state, loopVars, runVars, envVars, Reported, Settled, Cancelled,
     Batch, IInv, TypeOK, TaskRuns, Focus, Untouched, InExecute, InDoRun, CallEnds
<1>3. ASSUME NEW ok \in BOOLEAN, Flush(ok) PROVE Reported'
  <2>1. CASE ~ok
    BY <1>3, <2>1 DEF Flush, CallEnds, Reported, TypeOK, IInv
  <2> SUFFICES ASSUME ok, fails = 0
               PROVE  Reported'
    BY <1>3, <2>1 DEF Flush, CallEnds, Reported, TypeOK, IInv
  <2>2. /\ \A t \in batch : tracked'[t] = state[t]
        /\ \A r \in TaskRuns \ batch : tracked'[r] = tracked[r]
        /\ UNCHANGED <<state, disabled, visited, batch, killed>>
    BY <1>3 DEF Flush, CallEnds, loopVars, TaskRuns, IInv, TypeOK
  <2>3. pc = "flush" /\ pc' \in {"finish", "driver_exc"}
    BY <1>3 DEF Flush
  <2>4. \A t \in Tasks \ Reused : state[t] # "NONE" => tracked'[t] = state[t]
    BY <2>2, <2>3 DEF Reported, AfterPrepare, TaskRuns
  <2>5. \A t \in ToRun : t \in visited \ Reused /\ state[t] \in final_states \cup {"NONE"}
    BY <2>3 DEF Outcome, IInv, VisitedStates, ToRun
  <2>6. /\ \A t \in Reused : tracked'[t] = "SUCCESS"
        /\ \A t \in disabled : tracked'[t] = "NONE"
    <3>1. \A t \in disabled : t \in TaskRuns \ batch
      BY DEF IInv, TypeOK, TaskRuns, Batch
    <3>2. \A t \in Reused : t \in TaskRuns \ batch
      BY DEF Batch, TaskRuns
    <3>. QED  BY <2>2, <2>3, <3>1, <3>2 DEF Reported, AfterPrepare
  <2>7. \A t \in ToRun : state[t] = "NONE" => tracked'[t] = "SCHEDULED"
    <3>1. ASSUME NEW t \in ToRun, state[t] = "NONE" PROVE tracked[t] = "SCHEDULED" /\ t \in TaskRuns
      BY <2>3, <3>1 DEF Reported, AfterPrepare, ToRun, TaskRuns
    <3>2. \A t \in batch : state[t] # "NONE"
      BY DEF Batch
    <3>. QED  BY <2>2, <3>1, <3>2
  <2>8. \A t \in ToRun : Settled(t)' \/ (NeverBegan(t)' /\ tracked'[t] = "SCHEDULED")
    BY <2>2, <2>4, <2>5, <2>7 DEF Settled, NeverBegan, ToRun
  <2>9. ToRun' = ToRun /\ \A t \in ToRun : Told(t)'
    BY <2>2, <2>8 DEF Told, Unreported, ToRun
  <2>10. tracked'[Driver] = state'[Driver]
    <3>1. Driver \in TaskRuns \ batch
      BY DEF IInv, TypeOK, TaskRuns
    <3>. QED  BY <2>2, <2>3, <3>1 DEF Reported
  <2>. QED
    BY <2>2, <2>3, <2>4, <2>6, <2>7, <2>8, <2>9, <2>10 DEF Reported, AfterPrepare, InDoRun,
       InExecute
<1>4. ASSUME NEW ok \in BOOLEAN, TaskReused(ok) PROVE Reported'
  BY <1>4 DEF Told, Unreported, NeverBegan, ToRun, AfterPrepare, TaskReused,
     OrTaskRaises, loopVars, runVars, envVars, Reported, Settled, Cancelled, Batch,
     IInv, TypeOK, TaskRuns, Focus, Untouched, InExecute, InDoRun, CallEnds
<1>5. ASSUME NEW ok \in BOOLEAN, TaskRunning(ok) PROVE Reported'
  BY <1>5 DEF Told, Unreported, NeverBegan, ToRun, AfterPrepare, TaskRunning,
     set_task_run_state, OrTaskRaises, loopVars, runVars, envVars, Reported, Settled,
     Cancelled, Batch, IInv, TypeOK, TaskRuns, Focus, Untouched, InExecute, InDoRun,
     CallEnds
<1>6. ASSUME NEW ok \in BOOLEAN, NEW exits \in BOOLEAN, TaskHandler(ok, exits)
      PROVE  Reported'
  BY <1>6 DEF Told, Unreported, NeverBegan, ToRun, AfterPrepare, TaskHandler, Handle,
     HandlerState, set_task_run_state, LeaveDoRun, LeaveTask, loopVars, runVars,
     Reported, Settled, Cancelled, Batch, IInv, TypeOK, TaskRuns, Focus, Untouched,
     InExecute, InDoRun, CallEnds
<1>7. ASSUME NEW ok \in BOOLEAN, RunSucceeds(ok) PROVE Reported'
  BY <1>7 DEF Told, Unreported, NeverBegan, ToRun, AfterPrepare, RunSucceeds,
     set_run_state, taskVars, loopVars, envVars, Reported, Settled, Cancelled, Batch,
     IInv, TypeOK, TaskRuns, Focus, Untouched, InExecute, InDoRun, CallEnds
<1>8. ASSUME NEW ok \in BOOLEAN, DriverSucceeds(ok) PROVE Reported'
  <2>1. CASE ~ok
    BY <1>8, <2>1 DEF DriverSucceeds, set_task_run_state, CallEnds, Reported, TypeOK, IInv
  <2> SUFFICES ASSUME ok, fails = 0
               PROVE  Reported'
    BY <1>8, <2>1 DEF DriverSucceeds, set_task_run_state, CallEnds, Reported, TypeOK, IInv
  <2>2. /\ pc = "wrapup" /\ pc' = "exit"
        /\ UNCHANGED <<disabled, visited, batch>>
        /\ \A t \in Tasks : tracked'[t] = tracked[t] /\ state'[t] = state[t]
    BY <1>8 DEF DriverSucceeds, set_task_run_state, loopVars, TaskRuns, IInv, TypeOK
  <2>. QED
    <3>1. tracked'[Driver] = "SUCCESS" /\ state'[Driver] = "SUCCESS"
      BY <1>8, <2>2 DEF DriverSucceeds, set_task_run_state, CallEnds, Reported, IInv, TypeOK,
         TaskRuns
    <3>. QED
      BY <2>2, <3>1 DEF Reported, AfterPrepare, Settled, NeverBegan, ToRun, InDoRun, InExecute,
         IInv, TypeOK
<1>9. ASSUME NEW ok \in BOOLEAN, DriverHandler(ok) PROVE Reported'
  BY <1>9 DEF Told, Unreported, NeverBegan, ToRun, AfterPrepare, DriverHandler, Handle,
     HandlerState, set_task_run_state, loopVars, runVars, envVars, Reported, Settled,
     Cancelled, Batch, IInv, TypeOK, TaskRuns, Focus, Untouched, InExecute, InDoRun,
     CallEnds
<1>10. ASSUME NEW ok \in BOOLEAN, RunErrorState(ok) PROVE Reported'
  BY <1>10 DEF Told, Unreported, NeverBegan, ToRun, AfterPrepare, RunErrorState,
     set_run_state, Cancelled, taskVars, loopVars, envVars, Reported, Settled, Batch,
     IInv, TypeOK, TaskRuns, Focus, Untouched, InExecute, InDoRun, CallEnds
<1>11. ASSUME NEW ok \in BOOLEAN, RunErrorTasks(ok) PROVE Reported'
  <2>1. CASE ~ok
    BY <1>11, <2>1 DEF RunErrorTasks, CallEnds, Reported, TypeOK, IInv
  <2> SUFFICES ASSUME ok, fails = 0
               PROVE  Reported'
    BY <1>11, <2>1 DEF RunErrorTasks, CallEnds, Reported, TypeOK, IInv
  <2> DEFINE s == IF Cancelled THEN "UPSTREAM_FAILED" ELSE "FAILED"
  <2>2. /\ pc = "unfinished" /\ pc' = "done"
        /\ tracked' = [r \in TaskRuns |-> IF r \in Unfinished THEN s ELSE tracked[r]]
        /\ UNCHANGED <<ex, state, killed, disabled, visited, batch, run_state, srv_run>>
    BY <1>11 DEF RunErrorTasks, loopVars, runVars
  <2>3. \A r \in TaskRuns : tracked'[r] \in final_states \cup {"NONE"}
    BY <2>2 DEF Unfinished, IInv, TypeOK, TaskRunState
  <2>4. RunEnd /\ srv_run = run_state
    BY <2>2 DEF DriverEnd
  <2>5. ASSUME ~Cancelled', NEW t \in ToRun
        PROVE  tracked'[t] = state'[t] \/ (Unreported(t)' /\ tracked'[t] = "FAILED")
    <3>1. Told(t) /\ t \in TaskRuns /\ ~Cancelled
      BY <2>2, <2>5 DEF Cancelled, Reported, ToRun, TaskRuns
    <3>2. CASE Settled(t)
      BY <2>2, <3>1, <3>2 DEF Settled, Unfinished, final_states, fail_states, direct_fail_states
    <3>3. CASE Unreported(t) /\ tracked[t] \in {"SCHEDULED", "FAILED"}
      <4>1. tracked'[t] = "FAILED"
        BY <2>2, <3>1, <3>3 DEF Unfinished
      <4>2. Unreported(t)'
        BY <2>2, <3>3 DEF Unreported, NeverBegan
      <4>. QED  BY <4>1, <4>2
    <3>. QED  BY <3>1, <3>2, <3>3 DEF Told
  <2>6. srv_run' \in {"CANCELLED", "FAILED"} /\ srv_run' = run_state'
    BY <2>2, <2>4 DEF RunEnd
  <2>7. ServerSettled'
    BY <2>2, <2>3, <2>5, <2>6 DEF ServerSettled, ToRun
  <2>. QED  BY <2>2, <2>7 DEF Reported, InDoRun, InExecute, AfterPrepare
<1>12. ASSUME NEW ok \in BOOLEAN, Prepare(ok) PROVE Reported'
  BY <1>12 DEF Told, Unreported, NeverBegan, ToRun, AfterPrepare, Prepare, loopVars,
     runVars, Reported, Settled, Cancelled, Batch, IInv, TypeOK, TaskRuns, Focus,
     Untouched, InExecute, InDoRun, CallEnds
<1>13. ASSUME NEW ok \in BOOLEAN, TaskSucceeds(ok) PROVE Reported'
  BY <1>13 DEF Told, Unreported, NeverBegan, ToRun, AfterPrepare, TaskSucceeds,
     set_task_run_state, OrTaskRaises, loopVars, runVars, envVars, Reported, Settled,
     Cancelled, Batch, IInv, TypeOK, TaskRuns, Focus, Untouched, InExecute, InDoRun,
     CallEnds
<1>14. ASSUME NEW ok \in BOOLEAN, kill_run(ok) PROVE Reported'
  BY <1>14 DEF kill_run, set_task_run_state, OrTaskRaises, loopVars, runVars,
     Reported, Settled, Cancelled, Batch, IInv, TypeOK, TaskRuns, Focus,
     Untouched, InExecute, InDoRun, CallEnds
<1>15. ASSUME NEW t \in Tasks, SkipReused(t) PROVE Reported'
  BY <1>15 DEF Told, Unreported, NeverBegan, ToRun, AfterPrepare, SkipReused, IsNext,
     taskVars, runVars, envVars, Reported, Settled, Cancelled, Batch, IInv, TypeOK,
     TaskRuns, Focus, Untouched, InExecute, InDoRun
<1>16. ASSUME NEW t \in Tasks, SkipFailFast(t) PROVE Reported'
  BY <1>16 DEF Told, Unreported, NeverBegan, ToRun, AfterPrepare, SkipFailFast,
     Considered, IsNext, FailFastSkips, SetInBatch, get_upstream_failed_task_run_state,
     runVars, envVars, Reported, Settled, Cancelled, Batch, IInv, TypeOK, TaskRuns,
     Focus, Untouched, InExecute, InDoRun
<1>17. ASSUME NEW t \in Tasks, SkipUpstreamFailed(t) PROVE Reported'
  BY <1>17 DEF Told, Unreported, NeverBegan, ToRun, AfterPrepare, SkipUpstreamFailed,
     Considered, IsNext, FailFastSkips, SetInBatch, failed_upstream, runVars, envVars,
     Reported, Settled, Cancelled, Batch, IInv, TypeOK, TaskRuns, Focus, Untouched,
     InExecute, InDoRun
<1>18. ASSUME NEW t \in Tasks, SkipKilled(t) PROVE Reported'
  BY <1>18 DEF Told, Unreported, NeverBegan, ToRun, AfterPrepare, SkipKilled,
     Considered, IsNext, FailFastSkips, SetInBatch, failed_upstream, runVars, envVars,
     Reported, Settled, Cancelled, Batch, IInv, TypeOK, TaskRuns, Focus, Untouched,
     InExecute, InDoRun
<1>19. ASSUME NEW t \in Tasks, Enter(t) PROVE Reported'
  BY <1>19 DEF Told, Unreported, NeverBegan, ToRun, AfterPrepare, Enter, Considered,
     IsNext, FailFastSkips, failed_upstream, taskVars, runVars, envVars, Reported,
     Settled, Cancelled, Batch, IInv, TypeOK, TaskRuns, Focus, Untouched, InExecute,
     InDoRun
<1>20. ASSUME NEW e \in {"error", "exit"}, TaskRaises(e) PROVE Reported'
  BY <1>20 DEF Told, Unreported, NeverBegan, ToRun, AfterPrepare, TaskRaises, taskVars,
     loopVars, runVars, envVars, Reported, Settled, Cancelled, Batch, IInv, TypeOK,
     TaskRuns, Focus, Untouched, InExecute, InDoRun
<1>21. ASSUME DriverNotEntered PROVE Reported'
  BY <1>21 DEF Told, Unreported, NeverBegan, ToRun, AfterPrepare, DriverNotEntered,
     taskVars, loopVars, runVars, envVars, Reported, Settled, Cancelled, Batch, IInv,
     TypeOK, TaskRuns, Focus, Untouched, InExecute, InDoRun
<1>22. ASSUME KillRequest PROVE Reported'
  BY <1>22 DEF Told, Unreported, NeverBegan, ToRun, AfterPrepare, KillRequest, taskVars,
     loopVars, envVars, Reported, Settled, Cancelled, Batch, IInv, TypeOK, TaskRuns,
     Focus, Untouched, InExecute, InDoRun
<1>23. ASSUME NotEntered PROVE Reported'
  BY <1>23 DEF Told, Unreported, NeverBegan, ToRun, AfterPrepare, NotEntered, LeaveTask,
     taskVars, runVars, envVars, Reported, Settled, Cancelled, Batch, IInv, TypeOK,
     TaskRuns, Focus, Untouched, InExecute, InDoRun
<1>24. ASSUME LoopEnds PROVE Reported'
  BY <1>24 DEF Told, Unreported, NeverBegan, ToRun, AfterPrepare, LoopEnds, taskVars,
     loopVars, runVars, envVars, Reported, Settled, Cancelled, Batch, IInv, TypeOK,
     TaskRuns, Focus, Untouched, InExecute, InDoRun
<1>25. ASSUME NEW ok \in BOOLEAN, TaskReturns(ok) PROVE Reported'
  BY <1>25 DEF Told, Unreported, NeverBegan, ToRun, AfterPrepare, TaskReturns,
     LeaveTask, taskVars, runVars, envVars, Reported, Settled, Cancelled, Batch, IInv,
     TypeOK, TaskRuns, Focus, Untouched, InExecute, InDoRun
<1>26. ASSUME WrapupFails PROVE Reported'
  BY <1>26 DEF Told, Unreported, NeverBegan, ToRun, AfterPrepare, WrapupFails, taskVars,
     loopVars, runVars, envVars, Reported, Settled, Cancelled, Batch, IInv, TypeOK,
     TaskRuns, Focus, Untouched, InExecute, InDoRun
<1>27. ASSUME DeliverSigTerm PROVE Reported'
  BY <1>27 DEF Told, Unreported, NeverBegan, ToRun, AfterPrepare, DeliverSigTerm,
     Raised, RaisedInTask, Swallowed, RaisedInDriver, RaisedInRun, RaisedOutside,
     LeaveDoRun, InTask, InDriver, taskVars, loopVars, runVars, Reported, Settled,
     Cancelled, Batch, IInv, TypeOK, TaskRuns, Focus, Untouched, InExecute, InDoRun
<1>28. ASSUME PrepareFails PROVE Reported'
  BY <1>28 DEF Told, Unreported, NeverBegan, ToRun, AfterPrepare, PrepareFails,
     taskVars, loopVars, runVars, envVars, Reported, Settled, Cancelled, Batch, IInv,
     TypeOK, TaskRuns, Focus, Untouched, InExecute, InDoRun
<1>29. ASSUME OnKillEnds PROVE Reported'
  BY <1>29 DEF Told, Unreported, NeverBegan, ToRun, AfterPrepare, OnKillEnds, taskVars,
     loopVars, runVars, envVars, Reported, Settled, Cancelled, Batch, IInv, TypeOK,
     TaskRuns, Focus, Untouched, InExecute, InDoRun
<1>30. ASSUME KillRaised PROVE Reported'
  BY <1>30 DEF Told, Unreported, NeverBegan, ToRun, AfterPrepare, KillRaised, taskVars,
     loopVars, runVars, envVars, Reported, Settled, Cancelled, Batch, IInv, TypeOK,
     TaskRuns, Focus, Untouched, InExecute, InDoRun
<1>31. ASSUME kill PROVE Reported'
  BY <1>31 DEF kill, taskVars, loopVars, runVars, envVars, Reported, Settled,
     Cancelled, Batch, IInv, TypeOK, TaskRuns, Focus, Untouched, InExecute,
     InDoRun
<1>32. ASSUME HeartbeatKills PROVE Reported'
  BY <1>32 DEF Told, Unreported, NeverBegan, ToRun, AfterPrepare, HeartbeatKills,
     taskVars, loopVars, runVars, Alive, Reported, Settled, Cancelled, Batch, IInv,
     TypeOK, TaskRuns, Focus, Untouched, InExecute, InDoRun
<1>33. ASSUME HeartbeatStops PROVE Reported'
  BY <1>33 DEF Told, Unreported, NeverBegan, ToRun, AfterPrepare, HeartbeatStops,
     taskVars, loopVars, runVars, Reported, Settled, Cancelled, Batch, IInv, TypeOK,
     TaskRuns, Focus, Untouched, InExecute, InDoRun
<1>34. ASSUME KeyboardInterrupt PROVE Reported'
  BY <1>34 DEF Told, Unreported, NeverBegan, ToRun, AfterPrepare, KeyboardInterrupt,
     Raised, RaisedInTask, Swallowed, RaisedInDriver, RaisedInRun, RaisedOutside,
     LeaveDoRun, InTask, InDriver, taskVars, loopVars, runVars, Reported, Settled,
     Cancelled, Batch, IInv, TypeOK, TaskRuns, Focus, Untouched, InExecute, InDoRun
<1>35. ASSUME StopRequested PROVE Reported'
  BY <1>35 DEF Told, Unreported, NeverBegan, ToRun, AfterPrepare, StopRequested,
     taskVars, loopVars, envVars, Alive, Reported, Settled, Cancelled, Batch, IInv,
     TypeOK, TaskRuns, Focus, Untouched, InExecute, InDoRun
<1>36. ASSUME SigTerm PROVE Reported'
  BY <1>36 DEF Told, Unreported, NeverBegan, ToRun, AfterPrepare, SigTerm, taskVars,
     loopVars, runVars, Alive, Reported, Settled, Cancelled, Batch, IInv, TypeOK,
     TaskRuns, Focus, Untouched, InExecute, InDoRun
<1>37. ASSUME Crash PROVE Reported'
  BY <1>37 DEF Told, Unreported, NeverBegan, ToRun, AfterPrepare, Crash, taskVars,
     loopVars, runVars, envVars, Alive, Reported, Settled, Cancelled, Batch, IInv,
     TypeOK, TaskRuns, Focus, Untouched, InExecute, InDoRun
<1>38. ASSUME Finished PROVE Reported'
  BY <1>38 DEF Told, Unreported, NeverBegan, ToRun, AfterPrepare, ServerSettled,
     Finished, vars, taskVars, loopVars, runVars, envVars, Alive, Reported, Settled,
     Cancelled, Batch, IInv, TypeOK, TaskRuns, Focus, Untouched, InExecute, InDoRun
<1>39. ASSUME StartLoop PROVE Reported'
  BY <1>39 DEF Told, Unreported, NeverBegan, ToRun, AfterPrepare, StartLoop, taskVars,
     loopVars, runVars, envVars, Reported, Settled, Cancelled, Batch, IInv, TypeOK,
     TaskRuns, Focus, Untouched, InExecute, InDoRun
<1>40. ASSUME RunReturns PROVE Reported'
  <2> SUFFICES ASSUME fails = 0
               PROVE  Reported'
    BY <1>40 DEF RunReturns, Reported
  <2>1. pc = "exit" /\ pc' = "done" /\ UNCHANGED <<ex, taskVars, loopVars, killed, runVars, fails>>
    BY <1>40 DEF RunReturns
  <2>2. srv_run = run_state /\ run_state = "SUCCESS" /\ state[Driver] = "SUCCESS"
    BY <2>1 DEF DriverEnd
  <2>3. \A t \in ToRun : Settled(t) \/ (NeverBegan(t) /\ tracked[t] = "SCHEDULED")
    <3> TAKE t \in ToRun
    <3>1. NeverBegan(t) => tracked[t] = "SCHEDULED"
      BY <2>1 DEF Reported, AfterPrepare, NeverBegan
    <3>2. Settled(t) \/ NeverBegan(t)
      BY <2>1 DEF Reported
    <3>. QED  BY <3>1, <3>2
  <2>4. /\ \A t \in Reused : tracked[t] = "SUCCESS"
        /\ \A t \in disabled : tracked[t] = "NONE"
    BY <2>1 DEF Reported, AfterPrepare
  <2>5. \A r \in TaskRuns : tracked[r] \in final_states \cup {"NONE"} \/ NeverBegan(r)
    <3>1. tracked[Driver] \in final_states
      BY <2>1, <2>2 DEF Reported
    <3>. QED  BY <2>3, <2>4, <3>1 DEF Settled, ToRun, TaskRuns
  <2>6. ServerSettled'
    BY <2>1, <2>2, <2>3, <2>5
       DEF ServerSettled, Settled, ToRun, Unreported, NeverBegan, taskVars, loopVars, runVars
  <2>. QED  BY <2>1, <2>6 DEF Reported, InDoRun, InExecute, AfterPrepare
<1>41. ASSUME DriverExitFails PROVE Reported'
  BY <1>41 DEF Told, Unreported, NeverBegan, ToRun, AfterPrepare, DriverExitFails,
     taskVars, loopVars, runVars, envVars, Reported, Settled, Cancelled, Batch, IInv,
     TypeOK, TaskRuns, Focus, Untouched, InExecute, InDoRun
<1>42. ASSUME NEW t \in Tasks, UpstreamMissing(t) PROVE Reported'
  <2> SUFFICES ASSUME fails = 0
               PROVE  Reported'
    BY <1>42 DEF UpstreamMissing, Reported
  <2>1. /\ pc = "loop" /\ pc' = "driver_exc" /\ visited # Tasks \ disabled
        /\ UNCHANGED <<taskVars, loopVars, killed, runVars, fails>>
    BY <1>42 DEF UpstreamMissing, IsNext, LeaveDoRun
  <2>2. ASSUME NEW u \in ToRun PROVE Told(u)
    <3>1. state[u] = "NONE" => tracked[u] = "SCHEDULED" /\ (u \notin visited \/ NeverBegan(u))
      BY <2>1 DEF Reported, AfterPrepare, InDoRun, NeverBegan, ToRun
    <3>2. u \in batch => tracked[u] = "SCHEDULED"
      BY <2>1 DEF Reported, InDoRun
    <3>3. u \notin batch /\ state[u] # "NONE" => tracked[u] = state[u]
      BY <2>1 DEF Reported, AfterPrepare, InDoRun, ToRun
    <3>4. state[u] \in final_states \cup {"NONE"}
      BY <2>1 DEF IInv, Untouched, VisitedStates, ToRun, NoTask
    <3>. QED  BY <2>1, <3>1, <3>2, <3>3, <3>4 DEF Told, Settled, Unreported
  <2>3. \A u \in ToRun' : Told(u)'
    BY <2>1, <2>2 DEF Told, Settled, Unreported, NeverBegan, ToRun, taskVars, loopVars
  <2>. QED
    BY <2>1, <2>3 DEF Reported, AfterPrepare, InDoRun, InExecute, taskVars
<1>43. CASE UNCHANGED vars
  BY <1>43 DEF vars, taskVars, loopVars, runVars, envVars, ServerSettled, Told,
     Unreported, NeverBegan, ToRun, AfterPrepare, Reported, Settled, Cancelled, Batch,
     IInv, TypeOK, TaskRuns, Focus, Untouched, InExecute, InDoRun
<1>. QED
  BY <1>1, <1>2, <1>3, <1>4, <1>5, <1>6, <1>7, <1>8, <1>9, <1>10, <1>11,
        <1>12, <1>13, <1>14, <1>15, <1>16, <1>17, <1>18, <1>19, <1>20, <1>21,
        <1>22, <1>23, <1>24, <1>25, <1>26, <1>27, <1>28, <1>29, <1>30, <1>31,
        <1>32, <1>33, <1>34, <1>35, <1>36, <1>37, <1>38, <1>39, <1>40, <1>41, <1>42,
        <1>43
     DEF Next, FrameworkStep, UserStep, EnvironmentStep, Visit

\* Unless somebody calls kill() or kill_run(): when the run is over and every tracking
\* call returned, the server has the run's last state and, unless the run was cancelled,
\* the executor's own state of every task, or FAILED for what an error kept from being
\* reported: a driver that failed before the loop, or a loop left with its batch.
THEOREM ServerSettledHolds == ASSUME ~AllowKill PROVE Spec => []ServerSettled
<1>1. Init => Batch /\ FailureNoted /\ Outcome /\ DriverEnd /\ Reported
  BY GraphAssumption, TasksAssumption
     DEF Init, Batch, FailureNoted, Outcome, DriverEnd, Reported, InDoRun, InExecute, InError,
         AfterPrepare, TaskRuns
<1>2. IInv /\ IInv' /\ Batch /\ FailureNoted /\ Outcome /\ DriverEnd /\ Reported /\ [Next]_vars =>
        Batch' /\ FailureNoted' /\ Outcome' /\ DriverEnd' /\ Reported'
  BY BatchStep, OutcomeStep, DriverStep, ReportStep DEF IInv
<1>3. DriverEnd /\ Reported => ServerSettled
  BY DEF Reported, ServerSettled
<1>. QED  BY <1>1, <1>2, <1>3, Invariance, PTL DEF Spec

=============================================================================
