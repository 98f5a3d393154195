-------------------------- MODULE MultiServerMonitor --------------------------
(***************************************************************************)
(* The Airflow monitor's main loop: it reads from the web server which     *)
(* Airflow servers are to be monitored and which components of each are    *)
(* on, starts and stops the components to match, and tells the web server  *)
(* the status of each monitor and the errors of its functions, through an  *)
(* error aggregator.  Components run in the loop itself (runner seq) or as *)
(* child processes (runner mp), each with a copy of the aggregator made at *)
(* the fork.  Calls fail, components die, the configuration changes at any *)
(* moment and the monitor is stopped and started again.                    *)
(***************************************************************************)
EXTENDS Integers, Sequences

CONSTANTS Servers,    \* tracking sources
          Services,   \* SERVICES_COMPONENTS: the names of the components, in order
          Runners,    \* runner types to choose from: "seq", "mp"
          Nobody,     \* no server in hand
          MaxChanges, \* bound: changes of the configuration
          MaxFails,   \* bound: calls that fail and components that die
          MaxStops    \* bound: times the monitor reaches its stop_after

Components == {Services[i] : i \in DOMAIN Services}

ASSUME ServersAssumption == Nobody \notin Servers
ASSUME ServicesAssumption ==
  Len(Services) \in Nat /\ DOMAIN Services = 1..Len(Services) /\ "main" \notin Components
ASSUME RunnersAssumption == Runners \subseteq {"seq", "mp"}
ASSUME BoundsAssumption == {MaxChanges, MaxFails, MaxStops} \subseteq Nat

\* The functions that report through capture_monitor_exception and may fail.
Functions == {"start", "update_config", "is_monitored_server_alive", "runner.start",
              "runner.heartbeat", "refresh_config"} \cup Components

VARIABLES
  config,          \* web server: the components that are on, of each server it lists as enabled
  matched,         \* web server: it lists a source of the name that the monitor was given, if any
  state,           \* web server: status and error of each monitor
  runner,          \* runner_type
  tracking_errors, \* what _get_tracking_errors finds; nothing without a db fetcher
  active_monitors, \* server -> its component manager
  live,            \* the syncers that run: <<server, component, runner>>
  errors,          \* active_errors of the aggregators: by server, process and function
  pc, cur, next,   \* the loop: where it is, with which server, with which component
  todo,            \* the loop: servers it has still to visit
  servers,         \* the loop: the configuration it read
  method, raised,  \* the manager's method in hand, and whether it raised
  alive,           \* is_monitored_server_alive of _update_component_state
  changes, fails, stops, \* counters for the bounds
  lost             \* history: servers whose last report, or a child's errors, were lost

settings == <<config, matched, changes>>
web == <<settings, state>>
mode == <<runner, tracking_errors>>
loop == <<pc, cur, next, todo, servers, method, raised, alive, stops>>
vars == <<web, mode, active_monitors, live, errors, loop, fails, lost>>

Empty == [x \in {} |-> {}]
With(f, x, v) == [y \in DOMAIN f \cup {x} |-> IF y = x THEN v ELSE f[y]]
Without(f, S) == [y \in DOMAIN f \ S |-> f[y]]
NoErrors == [p \in {"main"} \cup Components |-> {}]

\* The packages and the configuration of the monitor's own environment are right, or not.
Validations == {{}, {"tracking"}}

Init ==
  /\ config \in {Empty, [s \in Servers |-> Components]}
  /\ state = [s \in Servers |-> [status |-> "none", error |-> {}]]
  /\ matched = TRUE
  /\ runner \in Runners
  /\ tracking_errors \in Validations
  /\ active_monitors = Empty
  /\ live = {}
  /\ errors = [s \in Servers |-> NoErrors]
  /\ pc = "configs" /\ cur = Nobody /\ next = 1
  /\ todo = {} /\ servers = Empty
  /\ method = "update_config" /\ raised = FALSE /\ alive = "unknown"
  /\ changes = 0 /\ fails = 0 /\ stops = 0
  /\ lost = {}

-----------------------------------------------------------------------------
(***************************************************************************)
(* The web server, and calls to it                                         *)
(***************************************************************************)
\* A user turns a server off, or on with some of its components.
Configure(s) ==
  /\ changes < MaxChanges
  /\ changes' = changes + 1
  /\ \/ s \in DOMAIN config /\ config' = Without(config, {s})
     \/ \E on \in SUBSET Components :
          config' = With(config, s, on)
  /\ config' # config
  /\ UNCHANGED matched
  /\ UNCHANGED <<state, mode, active_monitors, live, errors, loop, fails, lost>>

\* The source of the given name is renamed, or gets its name back.
Rename ==
  /\ changes < MaxChanges
  /\ changes' = changes + 1
  /\ matched' = ~matched
  /\ UNCHANGED <<config, state, mode, active_monitors, live, errors, loop, fails, lost>>

\* n calls fail in this step.
Fail(n) == fails + n <= MaxFails /\ fails' = fails + n

\* update_monitor_state, which may fail before or after it took effect.
UpdateMonitorState(s, new) ==
  state' = [state EXCEPT ![s] = new]

\* Fault: a success is not reported.
ReportOnlyErrors(all, s, p, f, ok, n) ==
  LET active == IF ok THEN all[s][p] \ {f} ELSE all[s][p] \cup {f}
  IN /\ errors' = [all EXCEPT ![s][p] = active]
     /\ \/ ok /\ Fail(n) /\ UNCHANGED <<state, lost>>
        \/ ~ok /\ Fail(n) /\ UpdateMonitorState(s, [state[s] EXCEPT !.error = active]) /\ lost' = lost \ {s}
        \/ ~ok /\ Fail(n + 1) /\ UNCHANGED state /\ lost' = lost \cup {s}

\* ErrorAggregator.report and BaseDbndTrackingService.report_error, in process p of
\* the monitor of s, when the aggregators hold all; n calls failed before in the same
\* step.  The function's error is held or forgotten first, and then the web server is
\* told, unless there was none and is none.
ReportWith(all, s, p, f, ok, n) ==
  LET active == IF ok THEN all[s][p] \ {f} ELSE all[s][p] \cup {f}
      should_update == ~ok \/ f \in all[s][p]
  IN /\ errors' = [all EXCEPT ![s][p] = active]
     /\ \/ ~should_update /\ Fail(n) /\ UNCHANGED <<state, lost>>
        \/ should_update /\ Fail(n) /\ UpdateMonitorState(s, [state[s] EXCEPT !.error = active]) /\ lost' = lost \ {s}
        \/ should_update /\ Fail(n + 1) /\ UNCHANGED state /\ lost' = lost \cup {s}

Report(s, p, f, ok, n) == ReportWith(errors, s, p, f, ok, n)

-----------------------------------------------------------------------------
(***************************************************************************)
(* BaseMultiServerMonitor: the loop over the servers                       *)
(***************************************************************************)
NewManager(on) == [config |-> on, components |-> Empty, metadata |-> FALSE]

\* Runners of s are stopped; with a child process goes what it had to report.
StopRunners(dead) ==
  /\ live' = live \ dead
  /\ IF runner = "mp"
     THEN /\ errors' = [s \in Servers |-> [p \in {"main"} \cup Components |->
                          IF \E x \in dead : x[1] = s /\ x[2] = p THEN {} ELSE errors[s][p]]]
          /\ lost' = lost \cup {s \in Servers : \E x \in dead : x[1] = s /\ errors[s][x[2]] # {}}
     ELSE UNCHANGED <<errors, lost>>

\* The runners that the managers of the servers S hold.
Holds(s, c, n) == c \in DOMAIN active_monitors[s].components /\ active_monitors[s].components[c] = n
Held(S) == {x \in S \X Components \X (0..1) : Holds(x[1], x[2], x[3])}

\* _stop_disabled_servers: monitor.stop() cleans up dead components and stops the others.
StopServers(S) ==
  /\ StopRunners(Held(S))
  /\ active_monitors' = Without(active_monitors, S)

\* The configuration is read and filtered, which raises if a name was given that no source has:
\* then nothing is stopped either.
GetServersConfigs ==
  /\ pc = "configs"
  /\ \/ matched /\ servers' = config /\ pc' = "disable" /\ Fail(0)
     \/ ~matched /\ pc' = "end" /\ Fail(0) /\ UNCHANGED servers
     \/ pc' = "end" /\ Fail(1) /\ UNCHANGED servers
  /\ UNCHANGED <<web, mode, active_monitors, live, errors, cur, next, todo, method, raised, alive, stops, lost>>

StopDisabledServers ==
  /\ pc = "disable"
  /\ StopServers(DOMAIN active_monitors \ DOMAIN servers)
  /\ todo' = DOMAIN servers
  /\ pc' = "ensure"
  /\ UNCHANGED <<web, mode, cur, next, servers, method, raised, alive, stops, fails>>

\* _ensure_monitored_servers: update_config, or a new manager and its start.
EnsureMonitoredServer(s) ==
  /\ pc = "ensure"
  /\ s \in todo
  /\ cur' = s
  /\ todo' = todo \ {s}
  /\ raised' = FALSE
  /\ \/ /\ s \in DOMAIN active_monitors
        /\ active_monitors' = [active_monitors EXCEPT ![s].config = servers[s]]
        /\ method' = "update_config" /\ pc' = "clean"
     \/ /\ s \notin DOMAIN active_monitors
        /\ active_monitors' = With(active_monitors, s, NewManager(servers[s]))
        /\ method' = "start" /\ pc' = "start"
  /\ UNCHANGED <<web, mode, live, errors, next, servers, alive, stops, fails, lost>>

ServersEnsured ==
  /\ pc = "ensure"
  /\ todo = {}
  /\ todo' = DOMAIN active_monitors
  /\ pc' = "heartbeats"
  /\ UNCHANGED <<web, mode, active_monitors, live, errors, cur, next, servers, method, raised, alive, stops,
                 fails, lost>>

\* run: the next iteration, or _should_stop, which stops all servers.
IterationEnds ==
  /\ pc = "end"
  /\ todo' = {} /\ servers' = Empty
  /\ \/ pc' = "configs" /\ UNCHANGED <<active_monitors, live, errors, lost, stops>>
     \/ /\ stops < MaxStops
        /\ stops' = stops + 1
        /\ pc' = "exited"
        /\ StopServers(DOMAIN active_monitors)
  /\ UNCHANGED <<web, mode, cur, next, method, raised, alive, fails>>

\* A new process of the monitor, in an environment that may be another.
Restart ==
  /\ pc = "exited"
  /\ pc' = "configs"
  /\ errors' = [s \in Servers |-> NoErrors]
  /\ tracking_errors' \in Validations
  /\ UNCHANGED <<web, runner, active_monitors, live, cur, next, todo, servers, method, raised, alive, stops,
                 fails, lost>>

-----------------------------------------------------------------------------
(***************************************************************************)
(* The component manager of the server in hand                             *)
(***************************************************************************)
manager == active_monitors[cur]
component == Services[next]
active_components == DOMAIN manager.components

SetStartingMonitorState ==
  /\ pc = "start"
  /\ \/ /\ UpdateMonitorState(cur, [status |-> "Scheduled", error |-> {}])
        /\ lost' = lost \ {cur}
        /\ Fail(0) /\ pc' = "clean" /\ UNCHANGED raised
     \/ /\ \/ UNCHANGED state
           \/ UpdateMonitorState(cur, [status |-> "Scheduled", error |-> {}])
        /\ Fail(1) /\ pc' = "done" /\ raised' = TRUE /\ UNCHANGED lost
  /\ UNCHANGED <<settings, mode, active_monitors, live, errors, cur, next, todo, servers, method, alive, stops>>

\* Fault: a dead component keeps its place.
CleanNothing(s) == UNCHANGED active_monitors

CleanDead(s) ==
  active_monitors' = [active_monitors EXCEPT ![s].components =
    Without(@, {c \in DOMAIN @ : <<s, c, @[c]>> \notin live})]

CleanDeadComponents ==
  /\ pc = "clean"
  /\ CleanDead(cur)
  /\ next' = 1 /\ alive' = "unknown"
  /\ pc' = "components"
  /\ UNCHANGED <<web, mode, live, errors, cur, todo, servers, method, raised, stops, fails, lost>>

ShouldStart == component \in manager.config /\ component \notin active_components
ShouldStop == component \in active_components /\ component \notin manager.config

AtComponent == pc = "components" /\ next \in DOMAIN Services

\* The answer is kept for the other components, unless the call raised.
IsMonitoredServerAlive ==
  /\ AtComponent
  /\ ShouldStart
  /\ alive = "unknown"
  /\ \/ alive' = "yes" /\ Report(cur, "main", "is_monitored_server_alive", TRUE, 0) /\ UNCHANGED next
     \/ alive' = "no" /\ Report(cur, "main", "is_monitored_server_alive", TRUE, 1) /\ UNCHANGED next
     \/ next' = next + 1 /\ Report(cur, "main", "is_monitored_server_alive", FALSE, 1) /\ UNCHANGED alive
  /\ UNCHANGED <<settings, mode, active_monitors, live, pc, cur, todo, servers, method, raised, stops>>

\* A child process begins with the errors its parent holds.
Forked == IF runner = "mp" THEN [errors EXCEPT ![cur][component] = errors[cur]["main"]] ELSE errors

StartComponent ==
  /\ AtComponent
  /\ ShouldStart
  /\ alive = "yes"
  /\ next' = next + 1
  /\ LET n == CHOOSE m \in 0..1 : <<cur, component, m>> \notin live IN
       /\ active_monitors' = [active_monitors EXCEPT ![cur].components = With(@, component, n)]
       /\ \/ /\ ReportWith(Forked, cur, "main", "runner.start", TRUE, 0)
             /\ live' = live \cup {<<cur, component, n>>}
          \/ /\ Report(cur, "main", "runner.start", FALSE, 1)
             /\ UNCHANGED live
  /\ UNCHANGED <<settings, mode, pc, cur, todo, servers, method, raised, alive, stops>>

\* Fault: the component is forgotten and not stopped.
StopComponentForgets ==
  /\ AtComponent
  /\ ShouldStop
  /\ next' = next + 1
  /\ active_monitors' = [active_monitors EXCEPT ![cur].components = Without(@, {component})]
  /\ UNCHANGED <<web, mode, live, errors, lost, pc, cur, todo, servers, method, raised, alive, stops, fails>>

StopComponent ==
  /\ AtComponent
  /\ ShouldStop
  /\ next' = next + 1
  /\ StopRunners({<<cur, component, manager.components[component]>>})
  /\ active_monitors' = [active_monitors EXCEPT ![cur].components = Without(@, {component})]
  /\ UNCHANGED <<web, mode, pc, cur, todo, servers, method, raised, alive, stops, fails>>

LeaveComponent ==
  /\ AtComponent
  /\ ~ShouldStop
  /\ ShouldStart => alive = "no"
  /\ next' = next + 1
  /\ UNCHANGED <<web, mode, active_monitors, live, errors, pc, cur, todo, servers, method, raised, alive,
                 stops, fails, lost>>

\* _set_running_monitor_state asks Airflow for its metadata and tells the web server, with the
\* tracking errors of the monitor's environment for a message.
SetRunningMonitorState ==
  /\ pc = "components"
  /\ next \notin DOMAIN Services
  /\ pc' = "done"
  /\ LET Running == UpdateMonitorState(cur, [status |-> "Running", error |-> tracking_errors]) IN
       \/ /\ alive # "yes" \/ manager.metadata
          /\ Fail(0) /\ UNCHANGED <<state, active_monitors, raised, lost>>
       \/ /\ alive = "yes" /\ ~manager.metadata
          /\ \/ /\ Running /\ Fail(0) /\ lost' = lost \ {cur}
                /\ active_monitors' = [active_monitors EXCEPT ![cur].metadata = TRUE]
                /\ UNCHANGED raised
             \/ /\ UNCHANGED state \/ Running
                /\ Fail(1) /\ raised' = TRUE /\ UNCHANGED <<active_monitors, lost>>
  /\ UNCHANGED <<settings, mode, live, errors, cur, next, todo, servers, method, alive, stops>>

\* start or update_config returns.
MethodDone ==
  /\ pc = "done"
  /\ Report(cur, "main", method, ~raised, 0)
  /\ cur' = Nobody /\ next' = 1 /\ method' = "update_config" /\ raised' = FALSE /\ alive' = "unknown"
  /\ pc' = "ensure"
  /\ UNCHANGED <<settings, mode, active_monitors, live, todo, servers, stops>>

-----------------------------------------------------------------------------
(***************************************************************************)
(* Heartbeats: with the sequential runner they run the syncers             *)
(***************************************************************************)
HeartbeatServer(s) ==
  /\ pc = "heartbeats"
  /\ s \in todo
  /\ todo' = todo \ {s}
  /\ cur' = s /\ next' = 1
  /\ pc' = "heartbeat"
  /\ UNCHANGED <<web, mode, active_monitors, live, errors, servers, method, raised, alive, stops, fails, lost>>

Beats == /\ component \in active_components
         /\ <<cur, component, manager.components[component]>> \in live
         /\ runner = "seq"

\* SequentialRunner.heartbeat: refresh_config, and no sync if the interval has not passed.
HeartbeatRefresh ==
  /\ pc = "heartbeat"
  /\ next \in DOMAIN Services /\ Beats
  /\ \E ok \in BOOLEAN : Report(cur, "main", "refresh_config", ok, IF ok THEN 0 ELSE 1)
  /\ pc' \in {"sync", "synced"}
  /\ UNCHANGED <<settings, mode, active_monitors, live, cur, next, todo, servers, method, raised, alive, stops>>

\* sync_once refreshes the configuration again, and syncs.
SyncRefresh ==
  /\ pc = "sync"
  /\ \E ok \in BOOLEAN : Report(cur, "main", "refresh_config", ok, IF ok THEN 0 ELSE 1)
  /\ pc' = "sync_once"
  /\ UNCHANGED <<settings, mode, active_monitors, live, cur, next, todo, servers, method, raised, alive, stops>>

\* _sync_once reports its own exception, or lets it out and the runner drops the syncer.
SyncOnce ==
  /\ pc = "sync_once"
  /\ \/ /\ \E ok \in BOOLEAN : Report(cur, "main", component, ok, IF ok THEN 0 ELSE 1)
        /\ pc' = "synced" /\ UNCHANGED <<live, next>>
     \/ /\ Report(cur, "main", "runner.heartbeat", FALSE, 1)
        /\ live' = live \ {<<cur, component, manager.components[component]>>}
        /\ pc' = "heartbeat" /\ next' = next + 1
  /\ UNCHANGED <<settings, mode, active_monitors, cur, todo, servers, method, raised, alive, stops>>

HeartbeatDone ==
  /\ pc = "synced"
  /\ Report(cur, "main", "runner.heartbeat", TRUE, 0)
  /\ pc' = "heartbeat" /\ next' = next + 1
  /\ UNCHANGED <<settings, mode, active_monitors, live, cur, todo, servers, method, raised, alive, stops>>

NoHeartbeat ==
  /\ pc = "heartbeat"
  /\ next \in DOMAIN Services /\ ~Beats
  /\ next' = next + 1
  /\ UNCHANGED <<web, mode, active_monitors, live, errors, pc, cur, todo, servers, method, raised, alive,
                 stops, fails, lost>>

\* The manager's heartbeat ends with a clean-up.
ServerBeaten ==
  /\ pc = "heartbeat"
  /\ next \notin DOMAIN Services
  /\ CleanDead(cur)
  /\ cur' = Nobody /\ next' = 1
  /\ pc' = "heartbeats"
  /\ UNCHANGED <<web, mode, live, errors, todo, servers, method, raised, alive, stops, fails, lost>>

\* create_liveness_file ends run_once.
HeartbeatsDone ==
  /\ pc = "heartbeats"
  /\ todo = {}
  /\ pc' = "end"
  /\ UNCHANGED <<web, mode, active_monitors, live, errors, cur, next, todo, servers, method, raised, alive,
                 stops, fails, lost>>

Loop ==
  \/ GetServersConfigs \/ StopDisabledServers \/ ServersEnsured \/ IterationEnds \/ Restart
  \/ \E s \in Servers : EnsureMonitoredServer(s) \/ HeartbeatServer(s)
  \/ SetStartingMonitorState \/ CleanDeadComponents
  \/ IsMonitoredServerAlive \/ StartComponent \/ StopComponent \/ LeaveComponent
  \/ SetRunningMonitorState \/ MethodDone
  \/ HeartbeatRefresh \/ SyncRefresh \/ SyncOnce \/ HeartbeatDone \/ NoHeartbeat
  \/ ServerBeaten \/ HeartbeatsDone

-----------------------------------------------------------------------------
(***************************************************************************)
(* Child processes, with the runner mp                                     *)
(***************************************************************************)
ChildSync(x) ==
  /\ runner = "mp"
  /\ x \in live
  /\ \E f \in {"refresh_config", x[2]}, ok \in BOOLEAN :
       Report(x[1], x[2], f, ok, IF ok THEN 0 ELSE 1)
  /\ UNCHANGED <<settings, mode, active_monitors, live, loop>>

ChildDies(x) ==
  /\ runner = "mp"
  /\ x \in live
  /\ Fail(1)
  /\ StopRunners({x})
  /\ UNCHANGED <<web, mode, active_monitors, loop>>

Next ==
  \/ Loop
  \/ (\E s \in Servers : Configure(s)) \/ Rename
  \/ \E x \in live : ChildSync(x) \/ ChildDies(x)

Spec == Init /\ [][Next]_vars

\* The loop goes on; a monitor that stopped is started again; the interval between
\* two syncs passes.
FairSpec ==
  /\ Spec
  /\ WF_vars(Loop)
  /\ \A s \in Servers, i \in DOMAIN Services :
       SF_vars(HeartbeatRefresh /\ cur = s /\ next = i /\ pc' = "sync")

-----------------------------------------------------------------------------
\* Dictionaries: functions with keys of K and values of V.
Dict(K, V) == UNION {[S -> V] : S \in SUBSET K}
Manager == [config : SUBSET Components, components : Dict(Components, 0..1), metadata : BOOLEAN]
MonitorState == [status : {"none", "Scheduled", "Running"}, error : SUBSET (Functions \cup {"tracking"})]
Errors == [{"main"} \cup Components -> SUBSET Functions]

\* Every variable keeps its type, and the server in hand has a manager.
TypeOK ==
  /\ config \in Dict(Servers, SUBSET Components) /\ servers \in Dict(Servers, SUBSET Components)
  /\ state \in [Servers -> MonitorState]
  /\ runner \in {"seq", "mp"} /\ tracking_errors \in Validations /\ matched \in BOOLEAN
  /\ active_monitors \in Dict(Servers, Manager)
  /\ live \subseteq Servers \X Components \X (0..1)
  /\ errors \in [Servers -> Errors]
  /\ pc \in {"configs", "disable", "ensure", "start", "clean", "components", "done", "heartbeats",
             "heartbeat", "sync", "sync_once", "synced", "end", "exited"}
  /\ cur \in DOMAIN active_monitors \cup {Nobody}
  /\ next \in 1..(Len(Services) + 1)
  /\ todo \subseteq Servers /\ lost \subseteq Servers
  /\ method \in {"start", "update_config"} /\ raised \in BOOLEAN
  /\ alive \in {"unknown", "yes", "no"}

\* What runs is what a manager holds: no syncer survives the one that started it, so
\* that a component of a server never runs twice, and nothing runs once the monitor
\* has stopped.
NoOrphans == live \subseteq Held(DOMAIN active_monitors)

\* The web server shows no error that the monitor does not hold, in its loop or a child process,
\* but for the tracking errors of the monitor's environment.  When a report is lost, with a call
\* or with a child, an old error stays no longer than to the next report that gets through.
NoGhostError ==
  \A s \in DOMAIN active_monitors \ (lost \cup {cur}) :
    state[s].error \subseteq tracking_errors \cup UNION {errors[s][p] : p \in DOMAIN errors[s]}

Running(s) == {c \in Components : \E x \in live : x[1] = s /\ x[2] = c}

\* What runs converges to the configuration through failed calls, deaths and restarts, unless the
\* monitor was given a name that no source has any more.
Converges ==
  \/ <>[](\A s \in Servers : Running(s) = IF s \in DOMAIN config THEN config[s] ELSE {})
  \/ <>[]~matched

===============================================================================
