---------------------- MODULE MultiServerMonitorProofs ----------------------
(***************************************************************************)
(* Proofs about MultiServerMonitor, for any servers, components, runners   *)
(* and any number of failures, changes and restarts: its types, that no    *)
(* syncer runs which no manager holds, and that the web server shows no    *)
(* error which nobody holds any more, once a later report got through.     *)
(***************************************************************************)
EXTENDS MultiServerMonitor, TLAPS

InMethod == {"start", "clean", "components", "done"}
InHeartbeat == {"heartbeat", "sync", "sync_once", "synced"}

\* Where the loop is: a server is in hand exactly inside a manager's method or heartbeat,
\* and the servers it has still to visit are ones it can look up.
LoopInv ==
  /\ pc \in InMethod \cup InHeartbeat => cur \in DOMAIN active_monitors
  /\ pc \notin InMethod \cup InHeartbeat => cur = Nobody
  /\ pc \in InMethod \cup {"ensure"} => todo \subseteq DOMAIN servers
  /\ pc \in InHeartbeat \cup {"heartbeats"} => todo \subseteq DOMAIN active_monitors
  /\ pc \in {"sync", "sync_once", "synced"} => next \in DOMAIN Services

IInv == TypeOK /\ LoopInv /\ NoOrphans

-----------------------------------------------------------------------------
(* Dictionaries *)

\* A Python dict has keys of K and values of V.
LEMMA DictElim ==
  ASSUME NEW K, NEW V, NEW f \in Dict(K, V)
  PROVE  /\ DOMAIN f \subseteq K
         /\ f \in [DOMAIN f -> V]
         /\ \A x \in DOMAIN f : f[x] \in V
  BY DEF Dict

\* A function on some keys of K is a dict.
LEMMA DictIntro ==
  ASSUME NEW K, NEW V, NEW S \in SUBSET K, NEW f \in [S -> V]
  PROVE  f \in Dict(K, V)
  BY DEF Dict

\* The empty dict is a dict of any type.
LEMMA EmptyType ==
  ASSUME NEW K, NEW V
  PROVE  Empty \in Dict(K, V) /\ DOMAIN Empty = {}
  <1>1. Empty \in [{} -> V] /\ DOMAIN Empty = {}
    BY DEF Empty
  <1> QED BY <1>1, DictIntro

\* A key gets a value.
LEMMA WithType ==
  ASSUME NEW K, NEW V, NEW f \in Dict(K, V), NEW k \in K, NEW v \in V
  PROVE  /\ With(f, k, v) \in Dict(K, V)
         /\ DOMAIN With(f, k, v) = DOMAIN f \cup {k}
         /\ With(f, k, v)[k] = v
         /\ \A x \in DOMAIN f \ {k} : With(f, k, v)[x] = f[x]
  <1>1. DOMAIN f \subseteq K /\ \A x \in DOMAIN f : f[x] \in V
    BY DictElim
  <1>2. With(f, k, v) \in [DOMAIN f \cup {k} -> V]
    BY <1>1 DEF With
  <1>3. With(f, k, v) \in Dict(K, V)
    BY <1>1, <1>2, DictIntro
  <1> QED BY <1>3 DEF With

\* Keys are removed.
LEMMA WithoutType ==
  ASSUME NEW K, NEW V, NEW f \in Dict(K, V), NEW S
  PROVE  /\ Without(f, S) \in Dict(K, V)
         /\ DOMAIN Without(f, S) = DOMAIN f \ S
         /\ \A x \in DOMAIN f \ S : Without(f, S)[x] = f[x]
  <1>1. DOMAIN f \subseteq K /\ \A x \in DOMAIN f : f[x] \in V
    BY DictElim
  <1>2. Without(f, S) \in [DOMAIN f \ S -> V]
    BY <1>1 DEF Without
  <1>3. Without(f, S) \in Dict(K, V)
    BY <1>1, <1>2, DictIntro
  <1> QED BY <1>3 DEF Without

\* The value of a key is replaced.
LEMMA UpdateType ==
  ASSUME NEW K, NEW V, NEW f \in Dict(K, V), NEW k \in DOMAIN f, NEW v \in V
  PROVE  /\ [f EXCEPT ![k] = v] \in Dict(K, V)
         /\ DOMAIN [f EXCEPT ![k] = v] = DOMAIN f
         /\ [f EXCEPT ![k] = v][k] = v
         /\ \A x \in DOMAIN f \ {k} : [f EXCEPT ![k] = v][x] = f[x]
  <1>1. DOMAIN f \subseteq K /\ f \in [DOMAIN f -> V]
    BY DictElim
  <1>2. [f EXCEPT ![k] = v] \in [DOMAIN f -> V]
    BY <1>1
  <1>3. [f EXCEPT ![k] = v] \in Dict(K, V)
    BY <1>1, <1>2, DictIntro
  <1> QED BY <1>3, <1>1

-----------------------------------------------------------------------------
(* Reports, runners and managers *)

\* A report keeps the types of what the aggregators hold and the web server shows.
LEMMA ReportType ==
  ASSUME NEW all \in [Servers -> Errors], state \in [Servers -> MonitorState], lost \subseteq Servers,
         NEW s \in Servers, NEW p \in {"main"} \cup Components, NEW f \in Functions,
         NEW ok \in BOOLEAN, NEW n, ReportWith(all, s, p, f, ok, n)
  PROVE  errors' \in [Servers -> Errors] /\ state' \in [Servers -> MonitorState] /\ lost' \subseteq Servers
  <1> DEFINE active == IF ok THEN all[s][p] \ {f} ELSE all[s][p] \cup {f}
  <1>1. all[s] \in Errors /\ all[s][p] \in SUBSET Functions
    BY DEF Errors
  <1>2. active \in SUBSET Functions
    BY <1>1
  <1>3. errors' = [all EXCEPT ![s][p] = active]
    BY DEF ReportWith
  <1>4. errors' \in [Servers -> Errors]
    <2>1. [all[s] EXCEPT ![p] = active] \in Errors
      BY <1>1, <1>2 DEF Errors
    <2> QED BY <2>1, <1>3
  <1>5. [state[s] EXCEPT !.error = active] \in MonitorState
    BY <1>2 DEF MonitorState
  <1>6. \/ UNCHANGED state
        \/ state' = [state EXCEPT ![s] = [state[s] EXCEPT !.error = active]]
    BY DEF ReportWith, UpdateMonitorState
  <1>7. lost' \in {lost, lost \cup {s}, lost \ {s}}
    BY DEF ReportWith
  <1>8. state' \in [Servers -> MonitorState]
    BY <1>5, <1>6
  <1> QED BY <1>4, <1>7, <1>8

\* Stopping runners keeps the types, and leaves only what ran before.
LEMMA StopRunnersType ==
  ASSUME TypeOK, NEW dead, StopRunners(dead)
  PROVE  /\ live' = live \ dead
         /\ errors' \in [Servers -> Errors]
         /\ lost' \subseteq Servers
  <1>1. CASE runner = "mp"
    <2>1. ASSUME NEW s \in Servers
          PROVE  [p \in {"main"} \cup Components |->
                    IF \E x \in dead : x[1] = s /\ x[2] = p THEN {} ELSE errors[s][p]] \in Errors
      BY DEF TypeOK, Errors
    <2>2. errors' \in [Servers -> Errors]
      BY <1>1, <2>1 DEF StopRunners
    <2>3. lost' \subseteq Servers
      BY <1>1 DEF StopRunners, TypeOK
    <2> QED BY <2>2, <2>3 DEF StopRunners
  <1>2. CASE runner # "mp"
    BY <1>2 DEF StopRunners, TypeOK
  <1> QED BY <1>1, <1>2

\* The manager of x's server holds x.
NotOrphan(x, managers) ==
  /\ x[1] \in DOMAIN managers
  /\ x[2] \in DOMAIN managers[x[1]].components
  /\ managers[x[1]].components[x[2]] = x[3]

\* NoOrphans, syncer by syncer.
LEMMA OrphansEach ==
  ASSUME live \subseteq Servers \X Components \X (0..1)
  PROVE  NoOrphans <=> \A x \in live : NotOrphan(x, active_monitors)
  BY DEF NoOrphans, Held, Holds, NotOrphan

\* The same after a step.
LEMMA OrphansEachPrime ==
  ASSUME live' \subseteq Servers \X Components \X (0..1)
  PROVE  NoOrphans' <=> \A x \in live' : NotOrphan(x, active_monitors')
  BY DEF NoOrphans, Held, Holds, NotOrphan

\* The managers keep their types when one of them changes.
LEMMA ManagerFields ==
  ASSUME TypeOK, NEW s \in DOMAIN active_monitors
  PROVE  /\ s \in Servers
         /\ active_monitors[s] \in Manager
         /\ active_monitors[s].config \in SUBSET Components
         /\ active_monitors[s].components \in Dict(Components, 0..1)
         /\ active_monitors[s].metadata \in BOOLEAN
  <1>1. active_monitors \in Dict(Servers, Manager)
    BY DEF TypeOK
  <1>2. s \in Servers /\ active_monitors[s] \in Manager
    BY <1>1, DictElim
  <1> QED BY <1>2 DEF Manager

\* The component at hand is one of the components.
LEMMA ComponentType ==
  ASSUME next \in DOMAIN Services
  PROVE  component \in Components /\ component \in Functions
  BY DEF component, Components, Functions

\* New components of a manager.
LEMMA ComponentsType ==
  ASSUME TypeOK, NEW s \in DOMAIN active_monitors, NEW c \in Dict(Components, 0..1),
         active_monitors' = [active_monitors EXCEPT ![s].components = c]
  PROVE  /\ active_monitors' \in Dict(Servers, Manager)
         /\ DOMAIN active_monitors' = DOMAIN active_monitors
         /\ active_monitors'[s].components = c
         /\ \A x \in DOMAIN active_monitors \ {s} : active_monitors'[x] = active_monitors[x]
  <1> DEFINE m == [active_monitors[s] EXCEPT !.components = c]
  <1>1. active_monitors[s] \in Manager
    BY ManagerFields
  <1>2. m \in Manager /\ m.components = c
    BY <1>1 DEF Manager
  <1>3. active_monitors' = [active_monitors EXCEPT ![s] = m]
    OBVIOUS
  <1>4. active_monitors \in Dict(Servers, Manager)
    BY DEF TypeOK
  <1> HIDE DEF m
  <1>5. /\ [active_monitors EXCEPT ![s] = m] \in Dict(Servers, Manager)
        /\ DOMAIN [active_monitors EXCEPT ![s] = m] = DOMAIN active_monitors
        /\ [active_monitors EXCEPT ![s] = m][s] = m
        /\ \A x \in DOMAIN active_monitors \ {s} :
             [active_monitors EXCEPT ![s] = m][x] = active_monitors[x]
    BY <1>2, <1>4, UpdateType
  <1> QED BY <1>2, <1>3, <1>5

-----------------------------------------------------------------------------
(* Steps that change neither the managers nor what runs *)

\* A step that starts nothing and drops no manager leaves no orphan.
LEMMA StillHeld ==
  ASSUME NoOrphans, UNCHANGED <<active_monitors, live>>
  PROVE  NoOrphans'
  BY DEF NoOrphans, Held, Holds

\* A step of the loop that makes a report for the server in hand.
Reporting ==
  \/ IsMonitoredServerAlive \/ MethodDone
  \/ HeartbeatRefresh \/ SyncRefresh \/ HeartbeatDone

\* Steps that change at most errors and the place in the loop keep the invariant.
LEMMA ReportingSteps ==
  ASSUME IInv, Reporting
  PROVE  IInv'
  <1> USE DEF IInv, InMethod, InHeartbeat, settings, mode
  <1>1. cur \in DOMAIN active_monitors /\ cur \in Servers
    <2>1. pc \in InMethod \cup InHeartbeat
      BY DEF Reporting, IsMonitoredServerAlive, AtComponent, MethodDone,
         HeartbeatRefresh, SyncRefresh, HeartbeatDone
    <2> QED BY <2>1, ManagerFields DEF LoopInv
  <1>2. \E f \in Functions, ok \in BOOLEAN, n \in {0, 1} : ReportWith(errors, cur, "main", f, ok, n)
    <2>1. {"start", "update_config", "is_monitored_server_alive", "runner.heartbeat", "refresh_config"}
            \subseteq Functions
      BY DEF Functions
    <2>2. CASE IsMonitoredServerAlive
      BY <2>1, <2>2 DEF IsMonitoredServerAlive, Report
    <2>3. CASE MethodDone
      <3>1. method \in Functions
        BY <2>1 DEF TypeOK
      <3>2. (~raised) \in BOOLEAN
        OBVIOUS
      <3> QED BY <2>3, <3>1, <3>2 DEF MethodDone, Report
    <2>4. CASE HeartbeatRefresh
      BY <2>1, <2>4 DEF HeartbeatRefresh, Report
    <2>5. CASE SyncRefresh
      BY <2>1, <2>5 DEF SyncRefresh, Report
    <2>6. CASE HeartbeatDone
      BY <2>1, <2>6 DEF HeartbeatDone, Report
    <2> QED BY <2>2, <2>3, <2>4, <2>5, <2>6 DEF Reporting
  <1>3. errors' \in [Servers -> Errors] /\ state' \in [Servers -> MonitorState] /\ lost' \subseteq Servers
    BY <1>1, <1>2, ReportType DEF TypeOK
  <1>4. UNCHANGED <<settings, mode, active_monitors, live, todo, servers>>
    BY DEF Reporting, IsMonitoredServerAlive, MethodDone, HeartbeatRefresh, SyncRefresh,
       HeartbeatDone
  <1>5. TypeOK'
    <2> USE DEF Reporting, IsMonitoredServerAlive, AtComponent, MethodDone, HeartbeatRefresh, SyncRefresh,
                HeartbeatDone, LoopInv
    <2>1. next' \in 1..(Len(Services) + 1)
      <3>1. next \in 1..(Len(Services) + 1)
        BY DEF TypeOK
      <3>2. next' \in {1, next} \/ (next' = next + 1 /\ next \in DOMAIN Services)
        OBVIOUS
      <3> QED BY <3>1, <3>2, ServicesAssumption
    <2>2. pc' \in {"components", "ensure", "heartbeat", "sync", "sync_once", "synced"}
         /\ cur' \in {cur, Nobody}
      BY DEF TypeOK
    <2>3. method' \in {"start", "update_config"} /\ alive' \in {"unknown", "yes", "no"}
      BY DEF TypeOK
    <2>4. raised' = raised \/ raised' = FALSE
      OBVIOUS
    <2>5. raised' \in BOOLEAN
      BY <2>4, Zenon DEF TypeOK
    <2> QED BY <1>1, <1>3, <1>4, <2>1, <2>2, <2>3, <2>5 DEF TypeOK
  <1>6. LoopInv'
    BY <1>1, <1>4 DEF LoopInv, Reporting, IsMonitoredServerAlive, AtComponent,
       MethodDone, HeartbeatRefresh, SyncRefresh, HeartbeatDone
  <1> QED BY <1>4, <1>5, <1>6, StillHeld

\* A step of the loop that only moves it on, or changes the status that the web server shows.
Moving ==
  \/ GetServersConfigs \/ ServersEnsured \/ Restart
  \/ \E s \in Servers : HeartbeatServer(s)
  \/ LeaveComponent \/ NoHeartbeat \/ HeartbeatsDone \/ SetStartingMonitorState

\* Steps from one part of the loop to the next keep the invariant.
LEMMA MovingSteps ==
  ASSUME IInv, Moving
  PROVE  IInv'
  <1> USE DEF IInv, InMethod, InHeartbeat, settings, mode
  <1>1. UNCHANGED <<settings, runner, active_monitors, live, method, alive>>
    BY DEF Moving, GetServersConfigs, ServersEnsured, Restart, HeartbeatServer, LeaveComponent,
           NoHeartbeat, HeartbeatsDone, SetStartingMonitorState, web
  <1>2. DOMAIN active_monitors \subseteq Servers
    BY ManagerFields
  <1>3. servers' \in {servers, config}
    BY DEF Moving, GetServersConfigs, ServersEnsured, Restart, HeartbeatServer, LeaveComponent,
           NoHeartbeat, HeartbeatsDone, SetStartingMonitorState, web
  <1>4. errors' \in [Servers -> Errors]
    <2>1. [s \in Servers |-> NoErrors] \in [Servers -> Errors]
      BY DEF NoErrors, Errors
    <2>2. errors' \in {errors, [s \in Servers |-> NoErrors]}
      BY DEF Moving, GetServersConfigs, ServersEnsured, Restart, HeartbeatServer,
         LeaveComponent, NoHeartbeat, HeartbeatsDone, SetStartingMonitorState, web
    <2> QED BY <2>1, <2>2 DEF TypeOK
  <1>5. state' \in [Servers -> MonitorState]
    <2>1. CASE SetStartingMonitorState
      <3>1. cur \in Servers
        BY <1>2, <2>1 DEF SetStartingMonitorState, LoopInv
      <3>2. [status |-> "Scheduled", error |-> {}] \in MonitorState
        BY DEF MonitorState
      <3>3. state' = state \/ state' = [state EXCEPT ![cur] = [status |-> "Scheduled", error |-> {}]]
        BY <2>1 DEF SetStartingMonitorState, UpdateMonitorState
      <3> QED BY <3>1, <3>2, <3>3 DEF TypeOK
    <2>2. CASE ~SetStartingMonitorState
      <3>1. UNCHANGED state
        BY <2>2 DEF Moving, GetServersConfigs, ServersEnsured, Restart, HeartbeatServer,
           LeaveComponent, NoHeartbeat, HeartbeatsDone, web
      <3> QED BY <3>1 DEF TypeOK
    <2> QED BY <2>1, <2>2
  <1>6. next' \in 1..(Len(Services) + 1)
    <2>1. next \in 1..(Len(Services) + 1)
      BY DEF TypeOK
    <2>2. next' \in {1, next} \/ (next' = next + 1 /\ next \in DOMAIN Services)
      BY DEF Moving, GetServersConfigs, ServersEnsured, Restart, HeartbeatServer,
         LeaveComponent, AtComponent, NoHeartbeat, HeartbeatsDone,
         SetStartingMonitorState
    <2> QED BY <2>1, <2>2, ServicesAssumption
  <1>7. raised' \in BOOLEAN
    <2>1. raised' = raised \/ raised' = TRUE
      BY DEF Moving, GetServersConfigs, ServersEnsured, Restart, HeartbeatServer,
         LeaveComponent, NoHeartbeat, HeartbeatsDone, SetStartingMonitorState
    <2> QED BY <2>1, Zenon DEF TypeOK
  <1>8. tracking_errors' \in Validations /\ lost' \subseteq Servers
    <2>1. CASE Restart
      BY <2>1 DEF Restart, TypeOK
    <2>2. CASE ~Restart
      BY <2>2 DEF Moving, GetServersConfigs, ServersEnsured, HeartbeatServer, LeaveComponent,
                  NoHeartbeat, HeartbeatsDone, SetStartingMonitorState, TypeOK
    <2> QED BY <2>1, <2>2
  <1>9. TypeOK' /\ LoopInv'
    <2> USE DEF Moving, GetServersConfigs, ServersEnsured, Restart, HeartbeatServer, LeaveComponent,
                AtComponent, NoHeartbeat, HeartbeatsDone, SetStartingMonitorState
    <2>1. todo' \subseteq Servers
      BY <1>2 DEF TypeOK
    <2>2. LoopInv'
      BY <1>1 DEF LoopInv, TypeOK
    <2>3. pc' \in {"configs", "disable", "ensure", "start", "clean", "components", "done", "heartbeats",
                  "heartbeat", "sync", "sync_once", "synced", "end", "exited"}
      BY DEF TypeOK
    <2>4. cur' \in DOMAIN active_monitors \cup {Nobody}
      BY DEF LoopInv, TypeOK
    <2> HIDE DEF Moving
    <2> QED BY <1>1, <1>3, <1>4, <1>5, <1>6, <1>7, <1>8, <2>1, <2>2, <2>3, <2>4 DEF TypeOK
  <1> QED BY <1>1, <1>9, StillHeld

\* The user and the child processes.
LEMMA OutsideSteps ==
  ASSUME IInv,
         (\E s \in Servers : Configure(s)) \/ Rename \/ (\E x \in live : ChildSync(x) \/ ChildDies(x))
  PROVE  IInv'
  <1> USE DEF IInv, settings, mode
  <1>1. ASSUME NEW s \in Servers, Configure(s)
        PROVE  IInv'
    <2>1. config' \in Dict(Servers, SUBSET Components)
      <3>1. config \in Dict(Servers, SUBSET Components)
        BY DEF TypeOK
      <3>2. Without(config, {s}) \in Dict(Servers, SUBSET Components)
        BY <3>1, WithoutType
      <3>3. \A on \in SUBSET Components : With(config, s, on) \in Dict(Servers, SUBSET Components)
        BY <3>1, WithType
      <3> QED BY <1>1, <3>2, <3>3 DEF Configure
    <2>2. UNCHANGED <<matched, state, mode, active_monitors, live, errors, loop, lost>>
      BY <1>1 DEF Configure
    <2>3. TypeOK' /\ LoopInv'
      BY <2>1, <2>2 DEF TypeOK, LoopInv, loop
    <2> QED BY <2>2, <2>3, StillHeld
  <1>2. ASSUME NEW x \in live, ChildSync(x)
        PROVE  IInv'
    <2>1. x[1] \in Servers /\ x[2] \in Components /\ x[2] \in {"main"} \cup Components
      BY DEF TypeOK
    <2>2. PICK f \in {"refresh_config", x[2]}, ok \in BOOLEAN, n \in {0, 1} :
            ReportWith(errors, x[1], x[2], f, ok, n)
      BY <1>2 DEF ChildSync, Report
    <2>3. f \in Functions
      BY <2>1 DEF Functions
    <2>4. errors' \in [Servers -> Errors] /\ state' \in [Servers -> MonitorState] /\ lost' \subseteq Servers
      <3>1. PICK s \in Servers, p \in {"main"} \cup Components : s = x[1] /\ p = x[2]
        BY <2>1
      <3>2. ReportWith(errors, s, p, f, ok, n)
        BY <2>2, <3>1
      <3> QED BY <2>3, <3>2, ReportType DEF TypeOK
    <2>5. UNCHANGED <<settings, mode, active_monitors, live, loop>>
      BY <1>2 DEF ChildSync
    <2>6. TypeOK' /\ LoopInv'
      BY <2>4, <2>5 DEF TypeOK, LoopInv, loop
    <2> QED BY <2>5, <2>6, StillHeld
  <1>3. ASSUME NEW x \in live, ChildDies(x)
        PROVE  IInv'
    <2>1. /\ live' = live \ {x} /\ errors' \in [Servers -> Errors] /\ lost' \subseteq Servers
      BY <1>3, StopRunnersType DEF ChildDies
    <2>2. UNCHANGED <<web, mode, active_monitors, loop>>
      BY <1>3 DEF ChildDies
    <2>3. TypeOK' /\ LoopInv'
      BY <2>1, <2>2 DEF TypeOK, LoopInv, loop, web
    <2>4. NoOrphans'
      BY <2>1, <2>2 DEF NoOrphans, Held, Holds
    <2> QED BY <2>3, <2>4
  <1>4. CASE Rename
    <2>1. matched' \in BOOLEAN
      <3>1. matched' = ~matched
        BY <1>4 DEF Rename
      <3> QED BY <3>1
    <2>2. UNCHANGED <<config, state, mode, active_monitors, live, errors, loop, lost>>
      BY <1>4 DEF Rename
    <2>3. TypeOK' /\ LoopInv'
      BY <2>1, <2>2 DEF TypeOK, LoopInv, loop
    <2> QED BY <2>2, <2>3, StillHeld
  <1> QED BY <1>1, <1>2, <1>3, <1>4

-----------------------------------------------------------------------------
(* Steps that change the managers or what runs *)

\* _clean_dead_components forgets only what does not run.
LEMMA CleanDeadKeeps ==
  ASSUME IInv, NEW s \in DOMAIN active_monitors, CleanDead(s), UNCHANGED live
  PROVE  /\ active_monitors' \in Dict(Servers, Manager)
         /\ DOMAIN active_monitors' = DOMAIN active_monitors
         /\ NoOrphans'
  <1> DEFINE old == active_monitors[s].components
             dead == {c \in DOMAIN old : <<s, c, old[c]>> \notin live}
             new == Without(old, dead)
  <1>1. old \in Dict(Components, 0..1)
    BY ManagerFields DEF IInv
  <1>2. active_monitors' = [active_monitors EXCEPT ![s].components = new]
    BY DEF CleanDead
  <1> HIDE DEF old, dead
  <1>3. /\ new \in Dict(Components, 0..1)
        /\ DOMAIN new = DOMAIN old \ dead
        /\ \A x \in DOMAIN old \ dead : new[x] = old[x]
    BY <1>1, WithoutType
  <1> HIDE DEF new
  <1>4. /\ active_monitors' \in Dict(Servers, Manager)
        /\ DOMAIN active_monitors' = DOMAIN active_monitors
        /\ active_monitors'[s].components = new
        /\ \A x \in DOMAIN active_monitors \ {s} : active_monitors'[x] = active_monitors[x]
    BY <1>2, <1>3, ComponentsType DEF IInv
  <1>5. live' \subseteq Servers \X Components \X (0..1)
    BY DEF IInv, TypeOK
  <1>6. ASSUME NEW x \in live'
        PROVE  NotOrphan(x, active_monitors')
    <2>1. x \in live /\ x \in Servers \X Components \X (0..1) /\ x = <<x[1], x[2], x[3]>>
      BY DEF IInv, TypeOK
    <2>2. NotOrphan(x, active_monitors)
      BY <2>1, OrphansEach DEF IInv, TypeOK
    <2>3. CASE x[1] # s
      BY <2>2, <2>3, <1>4 DEF NotOrphan
    <2>4. CASE x[1] = s
      <3>1. x[2] \in DOMAIN old /\ old[x[2]] = x[3]
        BY <2>2, <2>4 DEF NotOrphan, old
      <3>2. x[2] \notin dead
        BY <2>1, <2>4, <3>1 DEF dead
      <3> QED BY <2>4, <3>1, <3>2, <1>3, <1>4 DEF NotOrphan
    <2> QED BY <2>3, <2>4
  <1>7. NoOrphans'
    BY <1>5, <1>6, OrphansEachPrime
  <1> QED BY <1>4, <1>7

\* Stopping servers stops all that their managers hold, and they hold all of theirs that runs.
LEMMA StopServersKeeps ==
  ASSUME IInv, NEW S \in SUBSET DOMAIN active_monitors, StopServers(S)
  PROVE  /\ active_monitors' \in Dict(Servers, Manager)
         /\ live' \subseteq Servers \X Components \X (0..1)
         /\ errors' \in [Servers -> Errors]
         /\ lost' \subseteq Servers
         /\ NoOrphans'
  <1>1. /\ live' = live \ Held(S)
        /\ errors' \in [Servers -> Errors]
        /\ lost' \subseteq Servers
    BY StopRunnersType DEF IInv, StopServers
  <1>2. active_monitors \in Dict(Servers, Manager) /\ active_monitors' = Without(active_monitors, S)
    BY DEF IInv, TypeOK, StopServers
  <1>3. /\ active_monitors' \in Dict(Servers, Manager)
        /\ DOMAIN active_monitors' = DOMAIN active_monitors \ S
        /\ \A x \in DOMAIN active_monitors \ S : active_monitors'[x] = active_monitors[x]
    <2>1. Without(active_monitors, S) \in Dict(Servers, Manager)
      BY <1>2, WithoutType
    <2> QED BY <2>1, <1>2 DEF Without
  <1>4. live' \subseteq Servers \X Components \X (0..1)
    BY <1>1 DEF IInv, TypeOK
  <1>5. ASSUME NEW x \in live'
        PROVE  NotOrphan(x, active_monitors')
    <2>1. x \in live /\ x \notin Held(S) /\ x \in Servers \X Components \X (0..1)
      BY <1>1 DEF IInv, TypeOK
    <2>2. NotOrphan(x, active_monitors)
      BY <2>1, OrphansEach DEF IInv, TypeOK
    <2>3. x[1] \notin S
      BY <2>1, <2>2 DEF Held, Holds, NotOrphan
    <2> QED BY <2>2, <2>3, <1>3 DEF NotOrphan
  <1>6. NoOrphans'
    BY <1>4, <1>5, OrphansEachPrime
  <1> QED BY <1>1, <1>3, <1>4, <1>6

\* Stopping the components of disabled servers keeps the invariant.
LEMMA StoppingSteps ==
  ASSUME IInv, StopDisabledServers \/ IterationEnds
  PROVE  IInv'
  <1> USE DEF IInv, InMethod, InHeartbeat, settings, mode
  <1>1. CASE StopDisabledServers
    <2>1. UNCHANGED <<web, mode, cur, next, servers, method, raised, alive>> /\ pc' = "ensure" /\ cur = Nobody
      BY <1>1 DEF StopDisabledServers, LoopInv
    <2>2. todo' = DOMAIN servers /\ DOMAIN servers \subseteq Servers
      <3>1. servers \in Dict(Servers, SUBSET Components)
        BY DEF TypeOK
      <3> QED BY <1>1, <3>1, DictElim DEF StopDisabledServers
    <2>3. /\ active_monitors' \in Dict(Servers, Manager)
          /\ live' \subseteq Servers \X Components \X (0..1)
          /\ errors' \in [Servers -> Errors]
          /\ lost' \subseteq Servers
          /\ NoOrphans'
      BY <1>1, StopServersKeeps DEF StopDisabledServers
    <2>4. TypeOK' /\ LoopInv'
      BY <2>1, <2>2, <2>3 DEF TypeOK, LoopInv, web
    <2> QED BY <2>3, <2>4
  <1>2. CASE IterationEnds
    <2>1. /\ UNCHANGED <<web, mode, cur, next, method, raised, alive>>
          /\ todo' = {} /\ servers' = Empty /\ cur = Nobody /\ pc' \in {"configs", "exited"}
      BY <1>2 DEF IterationEnds, LoopInv
    <2>2. servers' \in Dict(Servers, SUBSET Components)
      BY <2>1, EmptyType
    <2>3. /\ active_monitors' \in Dict(Servers, Manager)
          /\ live' \subseteq Servers \X Components \X (0..1)
          /\ errors' \in [Servers -> Errors]
          /\ lost' \subseteq Servers
          /\ NoOrphans'
      <3>1. CASE UNCHANGED <<active_monitors, live, errors, lost>>
        BY <3>1, StillHeld DEF TypeOK
      <3>2. CASE StopServers(DOMAIN active_monitors)
        BY <3>2, StopServersKeeps
      <3> QED BY <1>2, <3>1, <3>2 DEF IterationEnds
    <2>4. TypeOK' /\ LoopInv'
      BY <2>1, <2>2, <2>3 DEF TypeOK, LoopInv, web
    <2> QED BY <2>3, <2>4
  <1> QED BY <1>1, <1>2

\* Dropping dead components, and the heartbeat of a server, keep the invariant.
LEMMA CleaningSteps ==
  ASSUME IInv, CleanDeadComponents \/ ServerBeaten
  PROVE  IInv'
  <1> USE DEF IInv, InMethod, InHeartbeat, settings, mode
  <1>1. cur \in DOMAIN active_monitors /\ CleanDead(cur) /\ UNCHANGED live
    BY DEF CleanDeadComponents, ServerBeaten, LoopInv
  <1>2. /\ active_monitors' \in Dict(Servers, Manager)
        /\ DOMAIN active_monitors' = DOMAIN active_monitors
        /\ NoOrphans'
    BY <1>1, CleanDeadKeeps
  <1>3. UNCHANGED <<web, mode, errors, todo, servers, method, raised, lost>>
    BY DEF CleanDeadComponents, ServerBeaten
  <1>4. \/ /\ pc = "clean" /\ pc' = "components" /\ UNCHANGED cur
        \/ /\ pc = "heartbeat" /\ pc' = "heartbeats" /\ cur' = Nobody
    BY DEF CleanDeadComponents, ServerBeaten
  <1>5. next' = 1 /\ alive' \in {"unknown", "yes", "no"} /\ 1 \in 1..(Len(Services) + 1)
    BY ServicesAssumption DEF CleanDeadComponents, ServerBeaten, TypeOK
  <1>6. TypeOK'
    BY <1>1, <1>2, <1>3, <1>4, <1>5 DEF TypeOK, web
  <1>7. LoopInv'
    BY <1>1, <1>2, <1>3, <1>4 DEF LoopInv
  <1> QED BY <1>2, <1>6, <1>7

\* A manager is given the new configuration, or made, and holds nothing yet.
LEMMA EnsureSteps ==
  ASSUME IInv, NEW s \in Servers, EnsureMonitoredServer(s)
  PROVE  IInv'
  <1> USE DEF IInv, InMethod, InHeartbeat, settings, mode
  <1>1. active_monitors \in Dict(Servers, Manager) /\ servers \in Dict(Servers, SUBSET Components)
    BY DEF TypeOK
  <1>2. s \in DOMAIN servers /\ servers[s] \in SUBSET Components
    <2>1. s \in DOMAIN servers
      BY DEF EnsureMonitoredServer, LoopInv
    <2> QED BY <1>1, <2>1, DictElim
  <1>3. UNCHANGED <<web, mode, live, errors, next, servers, alive, lost>>
    BY DEF EnsureMonitoredServer
  <1>4. cur' = s /\ todo' = todo \ {s} /\ raised' = FALSE
    BY DEF EnsureMonitoredServer
  <1>5. live \subseteq Servers \X Components \X (0..1) /\ \A x \in live : NotOrphan(x, active_monitors)
    BY OrphansEach DEF TypeOK
  <1>6. CASE s \in DOMAIN active_monitors
    <2> DEFINE m == [active_monitors[s] EXCEPT !.config = servers[s]]
    <2>1. m \in Manager /\ m.components = active_monitors[s].components
      BY <1>2, <1>6, ManagerFields DEF Manager
    <2>2. active_monitors' = [active_monitors EXCEPT ![s] = m] /\ method' = "update_config" /\ pc' = "clean"
      BY <1>6 DEF EnsureMonitoredServer
    <2> HIDE DEF m
    <2>3. active_monitors' \in Dict(Servers, Manager)
      <3>1. [active_monitors EXCEPT ![s] = m] \in Dict(Servers, Manager)
        BY <1>1, <1>6, <2>1, UpdateType
      <3> QED BY <3>1, <2>2
    <2>4. /\ DOMAIN active_monitors' = DOMAIN active_monitors
          /\ active_monitors'[s] = m
          /\ \A x \in DOMAIN active_monitors \ {s} : active_monitors'[x] = active_monitors[x]
      BY <2>2, <1>6
    <2>5. \A x \in live : NotOrphan(x, active_monitors')
      BY <1>5, <2>1, <2>4 DEF NotOrphan
    <2>6. NoOrphans'
      BY <1>3, <1>5, <2>5, OrphansEachPrime
    <2>7. TypeOK'
      BY <1>3, <1>4, <1>6, <2>2, <2>3, <2>4 DEF TypeOK, web
    <2>8. LoopInv'
      BY <1>3, <1>4, <1>6, <2>2, <2>4 DEF LoopInv, EnsureMonitoredServer
    <2> QED BY <2>6, <2>7, <2>8
  <1>7. CASE s \notin DOMAIN active_monitors
    <2> DEFINE m == NewManager(servers[s])
    <2>1. m \in Manager
      <3>1. Empty \in Dict(Components, 0..1)
        BY EmptyType
      <3> QED BY <1>2, <3>1 DEF NewManager, Manager
    <2>2. active_monitors' = With(active_monitors, s, m) /\ method' = "start" /\ pc' = "start"
      BY <1>7 DEF EnsureMonitoredServer
    <2> HIDE DEF m
    <2>3. active_monitors' \in Dict(Servers, Manager)
      <3>1. With(active_monitors, s, m) \in Dict(Servers, Manager)
        BY <1>1, <2>1, WithType
      <3> QED BY <3>1, <2>2
    <2>4. /\ DOMAIN active_monitors' = DOMAIN active_monitors \cup {s}
          /\ \A x \in DOMAIN active_monitors : active_monitors'[x] = active_monitors[x]
      BY <2>2, <1>7 DEF With
    <2>5. \A x \in live : NotOrphan(x, active_monitors')
      BY <1>5, <2>4 DEF NotOrphan
    <2>6. NoOrphans'
      BY <1>3, <1>5, <2>5, OrphansEachPrime
    <2>7. TypeOK'
      BY <1>3, <1>4, <2>2, <2>3, <2>4 DEF TypeOK, web
    <2>8. LoopInv'
      BY <1>3, <1>4, <2>2, <2>4 DEF LoopInv, EnsureMonitoredServer
    <2> QED BY <2>6, <2>7, <2>8
  <1> QED BY <1>6, <1>7

\* A component that is to be started does not run yet, so one of its two runners is free.
LEMMA StartSteps ==
  ASSUME IInv, StartComponent
  PROVE  IInv'
  <1> USE DEF IInv, InMethod, InHeartbeat, settings, mode
  <1>1. /\ pc = "components" /\ next \in DOMAIN Services /\ next' = next + 1 /\ ShouldStart
        /\ UNCHANGED <<settings, mode, pc, cur, todo, servers, method, raised, alive>>
    BY DEF StartComponent, AtComponent
  <1>2. cur \in DOMAIN active_monitors /\ cur \in Servers /\ component \in Components
    BY <1>1, ManagerFields, ComponentType DEF LoopInv
  <1> DEFINE old == active_monitors[cur].components
             n == CHOOSE m \in 0..1 : <<cur, component, m>> \notin live
             new == With(old, component, n)
  <1>3. component \notin DOMAIN old
    BY <1>1 DEF ShouldStart, active_components, manager
  <1>4. live \subseteq Servers \X Components \X (0..1) /\ \A x \in live : NotOrphan(x, active_monitors)
    BY OrphansEach DEF TypeOK
  <1>5. \A m : <<cur, component, m>> \notin live
    BY <1>3, <1>4 DEF NotOrphan
  <1>6. n \in 0..1
    BY <1>5
  <1>7. active_monitors' = [active_monitors EXCEPT ![cur].components = new]
    BY DEF StartComponent
  <1>8. /\ errors' \in [Servers -> Errors] /\ state' \in [Servers -> MonitorState] /\ lost' \subseteq Servers
        /\ live' \in {live, live \cup {<<cur, component, n>>}}
    <2>1. "runner.start" \in Functions /\ Forked \in [Servers -> Errors]
      BY <1>2 DEF Functions, Forked, Errors, TypeOK
    <2>2. CASE ReportWith(Forked, cur, "main", "runner.start", TRUE, 0) /\ live' = live \cup {<<cur, component, n>>}
      <3>1. errors' \in [Servers -> Errors] /\ state' \in [Servers -> MonitorState] /\ lost' \subseteq Servers
        BY <1>2, <2>1, <2>2, ReportType DEF TypeOK
      <3> QED BY <2>2, <3>1
    <2>3. CASE ReportWith(errors, cur, "main", "runner.start", FALSE, 1) /\ UNCHANGED live
      <3>1. errors' \in [Servers -> Errors] /\ state' \in [Servers -> MonitorState] /\ lost' \subseteq Servers
        BY <1>2, <2>1, <2>3, ReportType DEF TypeOK
      <3> QED BY <2>3, <3>1
    <2> QED BY <2>2, <2>3 DEF StartComponent, Report
  <1>9. old \in Dict(Components, 0..1)
    BY <1>2, ManagerFields
  <1> HIDE DEF n, old
  <1>10. /\ new \in Dict(Components, 0..1)
         /\ DOMAIN new = DOMAIN old \cup {component}
         /\ new[component] = n
         /\ \A x \in DOMAIN old : new[x] = old[x]
    <2>1. component \in Components /\ component \notin DOMAIN old
      BY <1>2, <1>3
    <2>2. /\ new \in Dict(Components, 0..1)
          /\ DOMAIN new = DOMAIN old \cup {component}
          /\ new[component] = n
          /\ \A x \in DOMAIN old \ {component} : new[x] = old[x]
      BY <1>6, <1>9, <2>1, WithType
    <2> QED BY <2>1, <2>2
  <1> HIDE DEF new
  <1>11. /\ active_monitors' \in Dict(Servers, Manager)
         /\ DOMAIN active_monitors' = DOMAIN active_monitors
         /\ active_monitors'[cur].components = new
         /\ \A x \in DOMAIN active_monitors \ {cur} : active_monitors'[x] = active_monitors[x]
    BY <1>2, <1>7, <1>10, ComponentsType
  <1>12. live' \subseteq Servers \X Components \X (0..1)
    BY <1>2, <1>4, <1>6, <1>8
  <1>13. ASSUME NEW x \in live'
         PROVE  NotOrphan(x, active_monitors')
    <2>1. CASE x \in live
      <3>1. NotOrphan(x, active_monitors)
        BY <1>4, <2>1
      <3> QED BY <3>1, <1>10, <1>11 DEF NotOrphan, old
    <2>2. CASE x = <<cur, component, n>>
      <3>1. x[1] = cur /\ x[2] = component /\ x[3] = n
        BY <2>2
      <3> QED BY <3>1, <1>2, <1>10, <1>11 DEF NotOrphan
    <2> QED BY <1>8, <2>1, <2>2
  <1>14. NoOrphans'
    BY <1>12, <1>13, OrphansEachPrime
  <1>15. TypeOK'
    BY <1>1, <1>2, <1>8, <1>11, <1>12, ServicesAssumption DEF TypeOK
  <1>16. LoopInv'
    BY <1>1, <1>2, <1>11 DEF LoopInv
  <1> QED BY <1>14, <1>15, <1>16

\* A component that is switched off is stopped and forgotten in one go.
LEMMA StopSteps ==
  ASSUME IInv, StopComponent
  PROVE  IInv'
  <1> USE DEF IInv, InMethod, InHeartbeat, settings, mode
  <1>1. /\ pc = "components" /\ next \in DOMAIN Services /\ next' = next + 1 /\ ShouldStop
        /\ UNCHANGED <<web, mode, pc, cur, todo, servers, method, raised, alive>>
    BY DEF StopComponent, AtComponent
  <1>2. cur \in DOMAIN active_monitors /\ cur \in Servers
    BY <1>1, ManagerFields DEF LoopInv
  <1> DEFINE old == active_monitors[cur].components
             new == Without(old, {component})
             x0 == <<cur, component, old[component]>>
  <1>3. /\ live' = live \ {x0} /\ errors' \in [Servers -> Errors] /\ lost' \subseteq Servers
    BY StopRunnersType DEF StopComponent, manager
  <1>4. active_monitors' = [active_monitors EXCEPT ![cur].components = new]
    BY DEF StopComponent
  <1>5. old \in Dict(Components, 0..1)
    BY <1>2, ManagerFields
  <1> HIDE DEF old
  <1>6. new \in Dict(Components, 0..1)
    BY <1>5, WithoutType
  <1>7. DOMAIN new = DOMAIN old \ {component} /\ \A c \in DOMAIN old \ {component} : new[c] = old[c]
    BY DEF Without
  <1> HIDE DEF new
  <1>8. /\ active_monitors' \in Dict(Servers, Manager)
        /\ DOMAIN active_monitors' = DOMAIN active_monitors
        /\ active_monitors'[cur].components = new
        /\ \A x \in DOMAIN active_monitors \ {cur} : active_monitors'[x] = active_monitors[x]
    BY <1>2, <1>4, <1>6, ComponentsType
  <1>9. live' \subseteq Servers \X Components \X (0..1)
    BY <1>3 DEF TypeOK
  <1>10. ASSUME NEW x \in live'
         PROVE  NotOrphan(x, active_monitors')
    <2>1. x \in live /\ x # x0 /\ x \in Servers \X Components \X (0..1) /\ x = <<x[1], x[2], x[3]>>
      BY <1>3 DEF TypeOK
    <2>2. NotOrphan(x, active_monitors)
      BY <2>1, OrphansEach DEF TypeOK
    <2>3. CASE x[1] # cur
      BY <2>2, <2>3, <1>8 DEF NotOrphan
    <2>4. CASE x[1] = cur
      <3>1. x[2] \in DOMAIN old /\ old[x[2]] = x[3]
        BY <2>2, <2>4 DEF NotOrphan, old
      <3>2. x[2] # component
        BY <2>1, <2>4, <3>1
      <3> QED BY <2>4, <3>1, <3>2, <1>2, <1>7, <1>8 DEF NotOrphan
    <2> QED BY <2>3, <2>4
  <1>11. NoOrphans'
    BY <1>9, <1>10, OrphansEachPrime
  <1>12. TypeOK'
    BY <1>1, <1>2, <1>3, <1>8, <1>9, ServicesAssumption DEF TypeOK, web
  <1>13. LoopInv'
    BY <1>1, <1>2, <1>8 DEF LoopInv
  <1> QED BY <1>11, <1>12, <1>13

\* The call that sets the state Running keeps the invariant.
LEMMA RunningSteps ==
  ASSUME IInv, SetRunningMonitorState
  PROVE  IInv'
  <1> USE DEF IInv, InMethod, InHeartbeat, settings, mode
  <1> DEFINE shown == [status |-> "Running", error |-> tracking_errors]
             m == [active_monitors[cur] EXCEPT !.metadata = TRUE]
  <1>1. /\ pc = "components" /\ pc' = "done"
        /\ UNCHANGED <<settings, mode, live, errors, cur, next, todo, servers, method, alive>>
        /\ lost' \in {lost, lost \ {cur}}
    BY DEF SetRunningMonitorState
  <1>2. cur \in DOMAIN active_monitors /\ cur \in Servers
    BY <1>1, ManagerFields DEF LoopInv
  <1>3. state' \in {state, [state EXCEPT ![cur] = shown]} /\ (raised' = raised \/ raised' = TRUE)
    BY DEF SetRunningMonitorState, UpdateMonitorState
  <1>4. active_monitors' \in {active_monitors, [active_monitors EXCEPT ![cur] = m]}
    BY DEF SetRunningMonitorState
  <1>5. shown \in MonitorState
    BY DEF MonitorState, TypeOK, Validations
  <1>6. m \in Manager /\ m.components = active_monitors[cur].components
    BY <1>2, ManagerFields DEF Manager
  <1> HIDE DEF m, shown
  <1>7. raised' \in BOOLEAN
    BY <1>3, Zenon DEF TypeOK
  <1>8. active_monitors' \in Dict(Servers, Manager)
    <2>1. active_monitors \in Dict(Servers, Manager)
      BY DEF TypeOK
    <2>2. [active_monitors EXCEPT ![cur] = m] \in Dict(Servers, Manager)
      BY <2>1, <1>2, <1>6, UpdateType
    <2> QED BY <2>1, <2>2, <1>4
  <1>9. /\ DOMAIN active_monitors' = DOMAIN active_monitors
        /\ \A s \in DOMAIN active_monitors : active_monitors'[s].components = active_monitors[s].components
    <2>1. active_monitors \in [DOMAIN active_monitors -> Manager]
      <3>1. active_monitors \in Dict(Servers, Manager)
        BY DEF TypeOK
      <3> QED BY <3>1, DictElim
    <2> QED BY <2>1, <1>2, <1>4, <1>6
  <1>10. live \subseteq Servers \X Components \X (0..1) /\ \A x \in live : NotOrphan(x, active_monitors)
    BY OrphansEach DEF TypeOK
  <1>11. NoOrphans'
    <2>1. \A x \in live' : NotOrphan(x, active_monitors')
      BY <1>1, <1>9, <1>10 DEF NotOrphan
    <2> QED BY <2>1, <1>1, <1>10, OrphansEachPrime
  <1>12. TypeOK'
    BY <1>1, <1>2, <1>3, <1>5, <1>7, <1>8, <1>9 DEF TypeOK
  <1>13. LoopInv'
    BY <1>1, <1>2, <1>9 DEF LoopInv
  <1> QED BY <1>11, <1>12, <1>13

\* A sync inside the loop keeps the invariant.
LEMMA SyncSteps ==
  ASSUME IInv, SyncOnce
  PROVE  IInv'
  <1> USE DEF IInv, InMethod, InHeartbeat, settings, mode
  <1>1. /\ pc = "sync_once" /\ pc' \in {"synced", "heartbeat"}
        /\ UNCHANGED <<settings, mode, active_monitors, cur, todo, servers, method, raised, alive>>
        /\ live' \subseteq live
        /\ \/ next' = next
           \/ next' = next + 1 /\ pc' = "heartbeat"
    BY DEF SyncOnce
  <1>2. cur \in DOMAIN active_monitors /\ cur \in Servers /\ next \in DOMAIN Services
    BY <1>1, ManagerFields DEF LoopInv
  <1>3. PICK f \in Functions, ok \in BOOLEAN, n \in {0, 1} : ReportWith(errors, cur, "main", f, ok, n)
    <2>1. component \in Functions /\ "runner.heartbeat" \in Functions
      BY <1>2, ComponentType DEF Functions
    <2> QED BY <2>1 DEF SyncOnce, Report
  <1>4. errors' \in [Servers -> Errors] /\ state' \in [Servers -> MonitorState] /\ lost' \subseteq Servers
    BY <1>2, <1>3, ReportType DEF TypeOK
  <1>5. TypeOK'
    BY <1>1, <1>2, <1>4, ServicesAssumption DEF TypeOK
  <1>6. LoopInv'
    BY <1>1, <1>2 DEF LoopInv
  <1>7. NoOrphans'
    BY <1>1 DEF NoOrphans, Held, Holds
  <1> QED BY <1>5, <1>6, <1>7

-----------------------------------------------------------------------------
(* The invariant and what follows from it *)

\* The monitor starts without managers and without components.
LEMMA InitIInv == Init => IInv
  <1> SUFFICES ASSUME Init PROVE IInv
    OBVIOUS
  <1>1. config \in Dict(Servers, SUBSET Components)
    <2>1. Empty \in Dict(Servers, SUBSET Components)
      BY EmptyType
    <2>2. [s \in Servers |-> Components] \in [Servers -> SUBSET Components]
      OBVIOUS
    <2>3. [s \in Servers |-> Components] \in Dict(Servers, SUBSET Components)
      BY <2>2, DictIntro
    <2> QED BY <2>1, <2>3 DEF Init
  <1>2. active_monitors \in Dict(Servers, Manager) /\ servers \in Dict(Servers, SUBSET Components)
    BY EmptyType DEF Init
  <1>3. state \in [Servers -> MonitorState] /\ errors \in [Servers -> Errors]
    BY DEF Init, MonitorState, Errors, NoErrors
  <1>4. TypeOK
    <2>1. runner \in {"seq", "mp"} /\ next \in 1..(Len(Services) + 1)
      BY RunnersAssumption, ServicesAssumption DEF Init
    <2>2. raised \in BOOLEAN /\ live = {} /\ todo = {} /\ lost = {}
      BY DEF Init
    <2>3. pc = "configs" /\ cur = Nobody /\ method = "update_config" /\ alive = "unknown"
      BY DEF Init
    <2>4. tracking_errors \in Validations /\ matched \in BOOLEAN
      BY DEF Init
    <2> QED BY <1>1, <1>2, <1>3, <2>1, <2>2, <2>3, <2>4 DEF TypeOK
  <1>5. LoopInv /\ NoOrphans
    BY DEF Init, LoopInv, NoOrphans, InMethod, InHeartbeat
  <1> QED BY <1>4, <1>5 DEF IInv

\* Every step of the monitor keeps types, NoOrphans and LoopInv.
LEMMA NextIInv == IInv /\ [Next]_vars => IInv'
  <1> SUFFICES ASSUME IInv, [Next]_vars PROVE IInv'
    OBVIOUS
  <1>1. CASE Reporting
    BY <1>1, ReportingSteps
  <1>2. CASE Moving
    BY <1>2, MovingSteps
  <1>3. CASE StopDisabledServers \/ IterationEnds
    BY <1>3, StoppingSteps
  <1>4. CASE CleanDeadComponents \/ ServerBeaten
    BY <1>4, CleaningSteps
  <1>5. CASE \E s \in Servers : EnsureMonitoredServer(s)
    BY <1>5, EnsureSteps
  <1>6. CASE StartComponent
    BY <1>6, StartSteps
  <1>7. CASE StopComponent
    BY <1>7, StopSteps
  <1>8. CASE SetRunningMonitorState
    BY <1>8, RunningSteps
  <1>9. CASE SyncOnce
    BY <1>9, SyncSteps
  <1>10. CASE (\E s \in Servers : Configure(s)) \/ Rename \/ (\E x \in live : ChildSync(x) \/ ChildDies(x))
    BY <1>10, OutsideSteps
  <1>11. CASE UNCHANGED vars
    BY <1>11 DEF IInv, TypeOK, LoopInv, NoOrphans, Held, Holds, vars, web, settings, mode, loop
  <1> QED BY <1>1, <1>2, <1>3, <1>4, <1>5, <1>6, <1>7, <1>8, <1>9, <1>10, <1>11
          DEF Next, Loop, Reporting, Moving

\* Every variable of the monitor keeps its type, and the loop looks up only servers it has.
THEOREM TypeCorrect == Spec => []TypeOK
  <1>1. Spec => []IInv
    BY InitIInv, NextIInv, PTL DEF Spec
  <1> QED BY <1>1, PTL DEF IInv

\* A syncer never runs without the manager that holds it, with any number of servers and
\* through failing calls, dying children, changes and restarts.
THEOREM NoOrphansHolds == Spec => []NoOrphans
  <1>1. Spec => []IInv
    BY InitIInv, NextIInv, PTL DEF Spec
  <1> QED BY <1>1, PTL DEF IInv

-----------------------------------------------------------------------------
(* No ghost errors *)

Shown(s) == state[s].error \subseteq tracking_errors \cup UNION {errors[s][p] : p \in DOMAIN errors[s]}

\* Errors are held by the loop, or by a child process that runs.
Owned ==
  \A s \in Servers, c \in Components :
    errors[s][c] # {} => runner = "mp" /\ \E x \in live : x[1] = s /\ x[2] = c

Mode ==
  /\ pc = "exited" => DOMAIN active_monitors = {}
  /\ pc \in {"sync", "sync_once", "synced"} => runner = "seq"
  /\ pc \notin InMethod => ~raised

\* What the web server shows is held, also of the server in hand once its manager's method
\* has made its first call and as long as it has not raised.
Visible ==
  \A s \in DOMAIN active_monitors \ lost : (s = cur => pc # "start" /\ ~raised) => Shown(s)

GInv == IInv /\ Owned /\ Mode /\ Visible

\* A report changes nothing of other servers and processes; unless it is lost, the web server
\* shows what the process holds, or neither changed.
LEMMA ReportShown ==
  ASSUME NEW all \in [Servers -> Errors], state \in [Servers -> MonitorState],
         NEW s \in Servers, NEW p \in {"main"} \cup Components, NEW f \in Functions,
         NEW ok \in BOOLEAN, NEW n, ReportWith(all, s, p, f, ok, n)
  PROVE  /\ \A r \in Servers \ {s} : errors'[r] = all[r] /\ state'[r] = state[r]
         /\ \A r \in Servers \ {s} : r \in lost' <=> r \in lost
         /\ \A q \in ({"main"} \cup Components) \ {p} : errors'[s][q] = all[s][q]
         /\ DOMAIN errors'[s] = {"main"} \cup Components
         /\ \/ s \in lost'
            \/ state'[s].error = errors'[s][p]
            \/ ok /\ errors'[s] = all[s] /\ state'[s] = state[s] /\ (s \in lost' <=> s \in lost)
  <1> DEFINE active == IF ok THEN all[s][p] \ {f} ELSE all[s][p] \cup {f}
  <1>1. all[s] \in [{"main"} \cup Components -> SUBSET Functions]
    BY DEF Errors
  <1>2. errors' = [all EXCEPT ![s] = [all[s] EXCEPT ![p] = active]]
    BY DEF ReportWith
  <1>3. errors'[s] = [all[s] EXCEPT ![p] = active] /\ \A r \in Servers \ {s} : errors'[r] = all[r]
    BY <1>2
  <1>4. errors'[s][p] = active /\ DOMAIN errors'[s] = {"main"} \cup Components
    BY <1>1, <1>3
  <1>5. \A q \in ({"main"} \cup Components) \ {p} : errors'[s][q] = all[s][q]
    BY <1>1, <1>3
  <1>6. CASE ok /\ f \notin all[s][p] /\ UNCHANGED <<state, lost>>
    <2>1. active = all[s][p]
      BY <1>6
    <2>2. errors'[s] = all[s]
      BY <1>1, <1>3, <2>1
    <2> QED BY <1>3, <1>4, <1>5, <1>6, <2>2
  <1>7. CASE state' = [state EXCEPT ![s] = [state[s] EXCEPT !.error = active]] /\ lost' = lost \ {s}
    <2>1. state[s] \in MonitorState
      OBVIOUS
    <2>2. [state[s] EXCEPT !.error = active].error = active
      BY <2>1 DEF MonitorState
    <2>3. state'[s].error = active /\ \A r \in Servers \ {s} : state'[r] = state[r]
      BY <1>7, <2>2
    <2> QED BY <1>3, <1>4, <1>5, <1>7, <2>3
  <1>8. CASE UNCHANGED state /\ lost' = lost \cup {s}
    BY <1>3, <1>4, <1>5, <1>8
  <1> QED BY <1>6, <1>7, <1>8 DEF ReportWith, UpdateMonitorState

\* The web server shows what the loop holds.
LEMMA ShownBy ==
  ASSUME NEW s \in Servers, NEW p \in DOMAIN errors'[s], state'[s].error \subseteq errors'[s][p]
  PROVE  Shown(s)'
  BY DEF Shown

\* A report leaves every server shown that was, and shows the one whose error it brings.
LEMMA ReportVisible ==
  ASSUME IInv, NEW s \in Servers, NEW p \in {"main"} \cup Components, NEW f \in Functions,
         NEW ok \in BOOLEAN, NEW n, ReportWith(errors, s, p, f, ok, n),
         UNCHANGED tracking_errors,
         NEW r \in Servers, r \notin lost', r \in lost \/ Shown(r) \/ (r = s /\ ~ok)
  PROVE  Shown(r)'
  <1>1. /\ \A q \in Servers \ {s} : errors'[q] = errors[q] /\ state'[q] = state[q]
        /\ \A q \in Servers \ {s} : q \in lost' <=> q \in lost
        /\ DOMAIN errors'[s] = {"main"} \cup Components
        /\ \/ s \in lost'
           \/ state'[s].error = errors'[s][p]
           \/ ok /\ errors'[s] = errors[s] /\ state'[s] = state[s] /\ (s \in lost' <=> s \in lost)
    BY ReportShown DEF IInv, TypeOK
  <1>2. CASE r # s \/ (ok /\ errors'[s] = errors[s] /\ state'[s] = state[s] /\ (s \in lost' <=> s \in lost))
    BY <1>1, <1>2 DEF Shown
  <1>3. CASE r = s /\ state'[s].error = errors'[s][p]
    BY <1>1, <1>3, ShownBy
  <1> QED BY <1>1, <1>2, <1>3

\* A report comes from the loop, or from a child that runs.
LEMMA ReportOwned ==
  ASSUME IInv, Owned, NEW s \in Servers, NEW p \in {"main"} \cup Components, NEW f \in Functions,
         NEW ok \in BOOLEAN, NEW n, ReportWith(errors, s, p, f, ok, n),
         UNCHANGED runner, UNCHANGED live \/ runner = "seq",
         p = "main" \/ (runner = "mp" /\ \E x \in live : x[1] = s /\ x[2] = p)
  PROVE  Owned'
  <1>1. /\ \A q \in Servers \ {s} : errors'[q] = errors[q]
        /\ \A q \in ({"main"} \cup Components) \ {p} : errors'[s][q] = errors[s][q]
    BY ReportShown DEF IInv, TypeOK
  <1> SUFFICES ASSUME NEW r \in Servers, NEW c \in Components, errors'[r][c] # {}
               PROVE  runner' = "mp" /\ \E x \in live' : x[1] = r /\ x[2] = c
    BY DEF Owned
  <1>2. CASE r = s /\ c = p
    <2>1. runner = "mp" /\ \E x \in live : x[1] = s /\ x[2] = p
      BY <1>2, ServicesAssumption
    <2> QED BY <2>1, <1>2
  <1>3. CASE ~(r = s /\ c = p)
    <2>1. errors'[r][c] = errors[r][c]
      BY <1>1, <1>3
    <2>2. runner = "mp" /\ \E x \in live : x[1] = r /\ x[2] = c
      BY <2>1 DEF Owned
    <2> QED BY <2>2
  <1> QED BY <1>2, <1>3

\* Stopping runners forgets no error of a server that is not noted as lost.
LEMMA StopRunnersShown ==
  ASSUME IInv, Owned, NEW dead, StopRunners(dead), UNCHANGED <<state, mode>>
  PROVE  /\ Owned'
         /\ lost \subseteq lost'
         /\ \A r \in Servers \ lost' : Shown(r) => Shown(r)'
  <1> USE DEF mode
  <1>0. \A r \in Servers : DOMAIN errors[r] = {"main"} \cup Components
    BY DEF IInv, TypeOK, Errors
  <1>1. CASE runner = "mp"
    <2>1. /\ errors' = [s \in Servers |-> [p \in {"main"} \cup Components |->
                          IF \E x \in dead : x[1] = s /\ x[2] = p THEN {} ELSE errors[s][p]]]
          /\ lost' = lost \cup {s \in Servers : \E x \in dead : x[1] = s /\ errors[s][x[2]] # {}}
          /\ live' = live \ dead
      BY <1>1 DEF StopRunners
    <2>2. ASSUME NEW s \in Servers, NEW p \in {"main"} \cup Components
          PROVE  errors'[s][p] = IF \E x \in dead : x[1] = s /\ x[2] = p THEN {} ELSE errors[s][p]
      BY <2>1
    <2>3. Owned'
      <3> SUFFICES ASSUME NEW r \in Servers, NEW c \in Components, errors'[r][c] # {}
                   PROVE  runner' = "mp" /\ \E x \in live' : x[1] = r /\ x[2] = c
        BY DEF Owned
      <3>1. errors[r][c] # {} /\ ~\E x \in dead : x[1] = r /\ x[2] = c
        BY <2>2
      <3>2. PICK x \in live : x[1] = r /\ x[2] = c
        BY <3>1 DEF Owned
      <3> QED BY <1>1, <2>1, <3>1, <3>2
    <2>4. ASSUME NEW r \in Servers, r \notin lost', Shown(r)
          PROVE  Shown(r)'
      <3>1. ASSUME NEW p \in {"main"} \cup Components
            PROVE  errors'[r][p] = errors[r][p]
        BY <2>1, <2>2, <2>4
      <3>2. DOMAIN errors'[r] = {"main"} \cup Components
        BY <2>1
      <3> QED BY <1>0, <2>4, <3>1, <3>2 DEF Shown
    <2> QED BY <2>1, <2>3, <2>4
  <1>2. CASE runner # "mp"
    <2>1. UNCHANGED <<errors, lost>>
      BY <1>2 DEF StopRunners
    <2> QED BY <1>2, <2>1 DEF Owned, Shown
  <1> QED BY <1>1, <1>2

\* The monitor starts without errors.
LEMMA InitGInv == Init => GInv
  <1> SUFFICES ASSUME Init PROVE GInv
    OBVIOUS
  <1>1. Owned
    BY DEF Init, Owned, NoErrors
  <1>2. Mode /\ Visible
    BY DEF Init, Mode, Visible, Empty
  <1> QED BY <1>1, <1>2, InitIInv DEF GInv

\* Reports of the loop: the method that raised is shown, or its report is lost.
LEMMA ReportingGhosts ==
  ASSUME GInv, Reporting \/ SyncOnce
  PROVE  Owned' /\ Mode' /\ Visible'
  <1> USE DEF InMethod, InHeartbeat, mode
  <1>0. IInv /\ Owned /\ Mode /\ Visible /\ TypeOK /\ LoopInv
    BY DEF GInv, IInv
  <1>1. pc \in (InMethod \cup InHeartbeat) \ {"start"} /\ cur \in DOMAIN active_monitors /\ cur \in Servers
    <2>1. pc \in (InMethod \cup InHeartbeat) \ {"start"}
      BY DEF Reporting, IsMonitoredServerAlive, AtComponent, MethodDone,
         HeartbeatRefresh, SyncRefresh, HeartbeatDone, SyncOnce
    <2> QED BY <1>0, <2>1, ManagerFields DEF LoopInv
  <1>2. PICK f \in Functions, ok \in BOOLEAN, n \in {0, 1} :
          ReportWith(errors, cur, "main", f, ok, n) /\ (MethodDone => ok = ~raised)
    <2>1. {"start", "update_config", "is_monitored_server_alive", "runner.heartbeat", "refresh_config"}
            \subseteq Functions
      BY DEF Functions
    <2>2. CASE IsMonitoredServerAlive
      BY <2>1, <2>2 DEF IsMonitoredServerAlive, AtComponent, Report, MethodDone
    <2>3. CASE MethodDone
      <3>1. method \in Functions
        BY <1>0, <2>1 DEF TypeOK
      <3>2. (~raised) \in BOOLEAN
        OBVIOUS
      <3> QED BY <2>3, <3>1, <3>2 DEF MethodDone, Report
    <2>4. CASE HeartbeatRefresh
      BY <2>1, <2>4 DEF HeartbeatRefresh, Report, MethodDone
    <2>5. CASE SyncRefresh
      BY <2>1, <2>5 DEF SyncRefresh, Report, MethodDone
    <2>6. CASE HeartbeatDone
      BY <2>1, <2>6 DEF HeartbeatDone, Report, MethodDone
    <2>7. CASE SyncOnce
      <3>1. component \in Functions
        BY <1>0, <2>7, ComponentType DEF SyncOnce, LoopInv
      <3> QED BY <2>1, <2>7, <3>1 DEF SyncOnce, Report, MethodDone
    <2> QED BY <2>2, <2>3, <2>4, <2>5, <2>6, <2>7 DEF Reporting
  <1>3. UNCHANGED <<active_monitors, mode>> /\ (UNCHANGED live \/ runner = "seq")
    BY <1>0 DEF Mode, Reporting, IsMonitoredServerAlive, MethodDone, HeartbeatRefresh,
       SyncRefresh, HeartbeatDone, SyncOnce
  <1>4. Owned'
    BY <1>0, <1>1, <1>2, <1>3, ReportOwned
  <1>5. \/ MethodDone /\ pc' = "ensure" /\ cur' = Nobody /\ raised' = FALSE
        \/ /\ ~MethodDone /\ UNCHANGED <<cur, raised>>
           /\ pc' \in {"components", "heartbeat", "sync", "sync_once", "synced"}
           /\ pc' \notin InMethod => pc \notin InMethod
           /\ pc' \in {"sync", "sync_once", "synced"} => runner = "seq"
    BY <1>0 DEF Mode, Reporting, IsMonitoredServerAlive, AtComponent, MethodDone,
       HeartbeatRefresh, Beats, SyncRefresh, HeartbeatDone, SyncOnce
  <1>6. Mode'
    <2>1. CASE MethodDone
      BY <1>5, <2>1 DEF Mode
    <2>2. CASE ~MethodDone
      <3>1. pc \notin InMethod => ~raised
        BY <1>0 DEF Mode
      <3>2. pc' \notin InMethod => ~raised'
        BY <1>5, <2>2, <3>1
      <3> QED BY <1>3, <1>5, <2>2, <3>2 DEF Mode
    <2> QED BY <2>1, <2>2
  <1>7. ASSUME NEW r \in DOMAIN active_monitors, r \notin lost', r = cur' => pc' # "start" /\ ~raised'
        PROVE  Shown(r)'
    <2>1. r \in Servers
      BY <1>0, <1>7, ManagerFields
    <2>2. r \in lost \/ Shown(r) \/ (r = cur /\ ~ok)
      BY <1>0, <1>1, <1>2, <1>5, <1>7, <2>1 DEF Visible
    <2> QED BY <1>0, <1>1, <1>2, <1>3, <1>7, <2>1, <2>2, ReportVisible
  <1>8. Visible'
    BY <1>3, <1>7 DEF Visible
  <1> QED BY <1>4, <1>6, <1>8

\* Steps from one part of the loop to the next keep the invariant behind NoGhostError.
LEMMA MovingGhosts ==
  ASSUME GInv, Moving
  PROVE  Owned' /\ Mode' /\ Visible'
  <1> USE DEF InMethod, InHeartbeat, mode
  <1>0. IInv /\ Owned /\ Mode /\ Visible /\ TypeOK /\ LoopInv
    BY DEF GInv, IInv
  <1>1. CASE Restart
    <2>1. errors' = [s \in Servers |-> NoErrors] /\ pc = "exited" /\ pc' = "configs"
          /\ UNCHANGED <<active_monitors, raised>>
      BY <1>1 DEF Restart
    <2>2. Owned'
      BY <2>1 DEF Owned, NoErrors
    <2> QED BY <1>0, <2>1, <2>2 DEF Mode, Visible
  <1>2. CASE SetStartingMonitorState
    <2>1. /\ pc = "start" /\ pc' \in {"clean", "done"}
          /\ UNCHANGED <<mode, active_monitors, live, errors, cur>>
          /\ lost' \in {lost, lost \ {cur}}
      BY <1>2 DEF SetStartingMonitorState
    <2>2. cur \in Servers
      BY <1>0, <2>1, ManagerFields DEF LoopInv
    <2>3. /\ \A r \in Servers \ {cur} : state'[r] = state[r]
          /\ ~raised' => state'[cur].error = {}
      BY <1>0, <1>2, <2>2 DEF SetStartingMonitorState, UpdateMonitorState, TypeOK
    <2>4. Owned' /\ Mode'
      BY <1>0, <2>1 DEF Owned, Mode
    <2>5. Visible'
      BY <1>0, <2>1, <2>2, <2>3, ManagerFields DEF Visible, Shown
    <2> QED BY <2>4, <2>5
  <1>3. CASE ~Restart /\ ~SetStartingMonitorState
    <2> USE DEF Moving, GetServersConfigs, ServersEnsured, HeartbeatServer, LeaveComponent,
                AtComponent, NoHeartbeat, HeartbeatsDone, web
    <2>1. UNCHANGED <<mode, active_monitors, live, errors, state, lost, raised>>
      BY <1>3
    <2>2. \/ UNCHANGED cur /\ pc # "start"
          \/ pc = "heartbeats" /\ pc' = "heartbeat"
      BY <1>3
    <2>3. pc' \notin {"exited", "sync", "sync_once", "synced"} /\ (pc' \notin InMethod => pc \notin InMethod)
      BY <1>3
    <2> HIDE DEF Moving
    <2>6. Mode'
      <3>1. pc \notin InMethod => ~raised
        BY <1>0 DEF Mode
      <3>2. pc' \notin InMethod => ~raised'
        BY <2>1, <2>3, <3>1
      <3> QED BY <2>3, <3>2 DEF Mode
    <2>4. Owned'
      BY <1>0, <2>1 DEF Owned
    <2>5. Visible'
      BY <1>0, <2>1, <2>2, ServersAssumption, ManagerFields DEF Visible, Shown, LoopInv, Mode
    <2> QED BY <2>4, <2>5, <2>6
  <1> QED BY <1>1, <1>2, <1>3

\* Stopping, starting and cleaning.
LEMMA ChangingGhosts ==
  ASSUME GInv,
         \/ StopDisabledServers \/ IterationEnds \/ CleanDeadComponents \/ ServerBeaten
         \/ \E s \in Servers : EnsureMonitoredServer(s)
         \/ StopComponent \/ SetRunningMonitorState
  PROVE  Owned' /\ Mode' /\ Visible'
  <1> USE DEF InMethod, InHeartbeat, mode
  <1>0. IInv /\ Owned /\ Mode /\ Visible /\ TypeOK /\ LoopInv
    BY DEF GInv, IInv
  <1>1. DOMAIN active_monitors \subseteq Servers
    BY <1>0, ManagerFields
  <1>2. ASSUME NEW S \in SUBSET DOMAIN active_monitors, StopServers(S), UNCHANGED <<state, mode, cur, raised>>,
               cur = Nobody, pc \notin InMethod, pc' \notin InMethod \cup InHeartbeat,
               pc' = "exited" => S = DOMAIN active_monitors
        PROVE  Owned' /\ Mode' /\ Visible'
    <2>1. DOMAIN active_monitors' = DOMAIN active_monitors \ S
      BY <1>2 DEF StopServers, Without
    <2>2. Owned' /\ lost \subseteq lost' /\ \A r \in Servers \ lost' : Shown(r) => Shown(r)'
      BY <1>0, <1>2, StopRunnersShown DEF StopServers
    <2>3. Mode'
      BY <1>0, <1>2, <2>1 DEF Mode
    <2>4. Visible'
      BY <1>0, <1>1, <1>2, <2>1, <2>2, ServersAssumption DEF Visible
    <2> QED BY <2>2, <2>3, <2>4
  <1>3. CASE StopDisabledServers
    BY <1>0, <1>2, <1>3 DEF StopDisabledServers, LoopInv, web
  <1>4. CASE IterationEnds
    <2>1. cur = Nobody /\ UNCHANGED <<state, mode, cur, raised>> /\ pc = "end"
      BY <1>0, <1>4 DEF IterationEnds, LoopInv, web
    <2>2. CASE pc' = "exited" /\ StopServers(DOMAIN active_monitors)
      BY <1>2, <2>1, <2>2
    <2>3. CASE pc' = "configs" /\ UNCHANGED <<active_monitors, live, errors, lost>>
      BY <1>0, <2>1, <2>3 DEF Owned, Mode, Visible, Shown
    <2> QED BY <1>4, <2>2, <2>3 DEF IterationEnds
  <1>5. CASE CleanDeadComponents \/ ServerBeaten
    <2>1. cur \in DOMAIN active_monitors /\ CleanDead(cur) /\ UNCHANGED live
      BY <1>0, <1>5 DEF CleanDeadComponents, ServerBeaten, LoopInv
    <2>2. DOMAIN active_monitors' = DOMAIN active_monitors
      BY <1>0, <2>1, CleanDeadKeeps
    <2>3. UNCHANGED <<state, mode, errors, lost, raised>>
      BY <1>5 DEF CleanDeadComponents, ServerBeaten, web
    <2>4. \/ pc = "clean" /\ pc' = "components" /\ UNCHANGED cur
          \/ pc = "heartbeat" /\ pc' = "heartbeats" /\ cur' = Nobody
      BY <1>5 DEF CleanDeadComponents, ServerBeaten
    <2>5. Owned' /\ Mode'
      BY <1>0, <2>1, <2>3, <2>4 DEF Owned, Mode
    <2>6. Visible'
      BY <1>0, <2>2, <2>3, <2>4 DEF Visible, Shown, Mode
    <2> QED BY <2>5, <2>6
  <1>6. ASSUME NEW s \in Servers, EnsureMonitoredServer(s)
        PROVE  Owned' /\ Mode' /\ Visible'
    <2>1. /\ UNCHANGED <<state, mode, live, errors, lost>> /\ cur' = s /\ raised' = FALSE
          /\ pc = "ensure" /\ cur = Nobody
      BY <1>0, <1>6 DEF EnsureMonitoredServer, LoopInv, web
    <2>2. Owned'
      BY <1>0, <2>1 DEF Owned
    <2>3. CASE s \in DOMAIN active_monitors
      <3>1. DOMAIN active_monitors' = DOMAIN active_monitors /\ pc' = "clean"
        BY <1>6, <2>3 DEF EnsureMonitoredServer
      <3>2. Mode'
        BY <2>1, <3>1 DEF Mode
      <3>3. Visible'
        BY <1>0, <1>1, <2>1, <3>1, ServersAssumption DEF Visible, Shown
      <3> QED BY <2>2, <3>2, <3>3
    <2>4. CASE s \notin DOMAIN active_monitors
      <3>1. DOMAIN active_monitors' = DOMAIN active_monitors \cup {s} /\ pc' = "start"
        BY <1>6, <2>4 DEF EnsureMonitoredServer, With
      <3>2. Mode'
        BY <2>1, <3>1 DEF Mode
      <3>3. Visible'
        BY <1>0, <1>1, <2>1, <3>1, ServersAssumption DEF Visible, Shown
      <3> QED BY <2>2, <3>2, <3>3
    <2> QED BY <2>3, <2>4
  <1>7. CASE StopComponent
    <2>1. /\ pc = "components" /\ UNCHANGED <<state, mode, pc, cur, raised>>
          /\ DOMAIN active_monitors' = DOMAIN active_monitors
      BY <1>7 DEF StopComponent, AtComponent, web
    <2>2. Owned' /\ lost \subseteq lost' /\ \A r \in Servers \ lost' : Shown(r) => Shown(r)'
      BY <1>0, <1>7, <2>1, StopRunnersShown DEF StopComponent
    <2>3. Mode'
      BY <2>1 DEF Mode
    <2>4. Visible'
      BY <1>0, <1>1, <2>1, <2>2 DEF Visible
    <2> QED BY <2>2, <2>3, <2>4
  <1>8. CASE SetRunningMonitorState
    <2>1. /\ pc = "components" /\ pc' = "done" /\ UNCHANGED <<mode, live, errors, cur>> /\ lost' \in {lost, lost \ {cur}}
          /\ DOMAIN active_monitors' = DOMAIN active_monitors
      BY <1>8 DEF SetRunningMonitorState
    <2>2. cur \in Servers
      BY <1>0, <1>1, <2>1 DEF LoopInv
    <2>3. /\ \A r \in Servers \ {cur} : state'[r] = state[r]
          /\ ~raised' => state'[cur].error = tracking_errors \/ (state'[cur] = state[cur] /\ ~raised /\ UNCHANGED lost)
      BY <1>0, <1>8, <2>2 DEF SetRunningMonitorState, UpdateMonitorState, TypeOK
    <2>4. Owned' /\ Mode'
      BY <1>0, <2>1 DEF Owned, Mode
    <2>5. Visible'
      BY <1>0, <1>1, <2>1, <2>2, <2>3 DEF Visible, Shown
    <2> QED BY <2>4, <2>5
  <1> QED BY <1>3, <1>4, <1>5, <1>6, <1>7, <1>8

\* A child begins with the errors of the loop; what its predecessor held is gone by then.
LEMMA StartGhosts ==
  ASSUME GInv, StartComponent
  PROVE  Owned' /\ Mode' /\ Visible'
  <1> USE DEF InMethod, InHeartbeat, mode
  <1>0. IInv /\ Owned /\ Mode /\ Visible /\ TypeOK /\ LoopInv
    BY DEF GInv, IInv
  <1>1. /\ pc = "components" /\ next \in DOMAIN Services /\ ShouldStart
        /\ UNCHANGED <<mode, pc, cur, raised>>
        /\ DOMAIN active_monitors' = DOMAIN active_monitors
    BY DEF StartComponent, AtComponent
  <1>2. cur \in DOMAIN active_monitors /\ cur \in Servers /\ component \in Components /\ component # "main"
    BY <1>0, <1>1, ManagerFields, ComponentType, ServicesAssumption DEF LoopInv
  <1>3. errors[cur][component] = {}
    <2>1. component \notin DOMAIN active_monitors[cur].components
      BY <1>1 DEF ShouldStart, active_components, manager
    <2>2. \A x \in live : NotOrphan(x, active_monitors)
      BY <1>0, OrphansEach DEF IInv, TypeOK
    <2>3. ~\E x \in live : x[1] = cur /\ x[2] = component
      BY <2>1, <2>2 DEF NotOrphan
    <2> QED BY <1>0, <1>2, <2>3 DEF Owned
  <1>4. PICK n \in 0..1 :
          \/ ReportWith(Forked, cur, "main", "runner.start", TRUE, 0) /\ live' = live \cup {<<cur, component, n>>}
          \/ ReportWith(errors, cur, "main", "runner.start", FALSE, 1) /\ UNCHANGED live
    <2>1. \E m \in 0..1 : <<cur, component, m>> \notin live
      <3>1. component \notin DOMAIN active_monitors[cur].components
        BY <1>1 DEF ShouldStart, active_components, manager
      <3>2. \A x \in live : NotOrphan(x, active_monitors)
        BY <1>0, OrphansEach DEF IInv, TypeOK
      <3> QED BY <3>1, <3>2 DEF NotOrphan
    <2> DEFINE n == CHOOSE m \in 0..1 : <<cur, component, m>> \notin live
    <2>2. n \in 0..1
      BY <2>1
    <2>3. \/ ReportWith(Forked, cur, "main", "runner.start", TRUE, 0) /\ live' = live \cup {<<cur, component, n>>}
          \/ ReportWith(errors, cur, "main", "runner.start", FALSE, 1) /\ UNCHANGED live
      BY DEF StartComponent, Report
    <2> QED BY <2>2, <2>3
  <1>5. "runner.start" \in Functions
    BY DEF Functions
  <1>6. Mode'
    BY <1>1 DEF Mode
  <1>7. CASE ReportWith(errors, cur, "main", "runner.start", FALSE, 1) /\ UNCHANGED live
    <2>1. Owned'
      BY <1>0, <1>1, <1>2, <1>5, <1>7, ReportOwned
    <2>3. ASSUME NEW r \in DOMAIN active_monitors, r \notin lost', r = cur => pc # "start" /\ ~raised
          PROVE  Shown(r)'
      <3>1. r \in Servers /\ (r \in lost \/ Shown(r))
        BY <1>0, <2>3, ManagerFields DEF Visible
      <3> QED BY <1>0, <1>1, <1>2, <1>5, <1>7, <2>3, <3>1, ReportVisible
    <2> QED BY <1>1, <1>6, <2>1, <2>3 DEF Visible
  <1>8. CASE ReportWith(Forked, cur, "main", "runner.start", TRUE, 0) /\ live' = live \cup {<<cur, component, n>>}
    <2>1. Forked \in [Servers -> Errors] /\ errors \in [Servers -> Errors]
      BY <1>0, <1>2 DEF Forked, Errors, TypeOK
    <2>2. /\ \A r \in Servers \ {cur} : errors'[r] = Forked[r] /\ state'[r] = state[r]
          /\ \A r \in Servers \ {cur} : r \in lost' <=> r \in lost
          /\ \A q \in ({"main"} \cup Components) \ {"main"} : errors'[cur][q] = Forked[cur][q]
          /\ DOMAIN errors'[cur] = {"main"} \cup Components
          /\ \/ cur \in lost'
             \/ state'[cur].error = errors'[cur]["main"]
             \/ errors'[cur] = Forked[cur] /\ state'[cur] = state[cur] /\ (cur \in lost' <=> cur \in lost)
      <3>1. PICK all \in [Servers -> Errors], p \in {"main"} \cup Components, f \in Functions, ok \in BOOLEAN :
              all = Forked /\ p = "main" /\ f = "runner.start" /\ ok = TRUE
        BY <1>5, <2>1
      <3>2. ReportWith(all, cur, p, f, ok, 0)
        BY <1>8, <3>1
      <3>3. /\ \A r \in Servers \ {cur} : errors'[r] = all[r] /\ state'[r] = state[r]
            /\ \A r \in Servers \ {cur} : r \in lost' <=> r \in lost
            /\ \A q \in ({"main"} \cup Components) \ {p} : errors'[cur][q] = all[cur][q]
            /\ DOMAIN errors'[cur] = {"main"} \cup Components
            /\ \/ cur \in lost'
               \/ state'[cur].error = errors'[cur][p]
               \/ ok /\ errors'[cur] = all[cur] /\ state'[cur] = state[cur] /\ (cur \in lost' <=> cur \in lost)
        BY <1>0, <1>2, <3>2, ReportShown DEF TypeOK
      <3> QED BY <3>1, <3>3
    <2>3. /\ \A r \in Servers \ {cur} : Forked[r] = errors[r]
          /\ \A q \in ({"main"} \cup Components) \ {component} : Forked[cur][q] = errors[cur][q]
          /\ runner # "mp" => Forked = errors
          /\ DOMAIN Forked[cur] = {"main"} \cup Components /\ DOMAIN errors[cur] = {"main"} \cup Components
      BY <1>2, <2>1 DEF Forked, Errors
    <2>4. Owned'
      <3> SUFFICES ASSUME NEW r \in Servers, NEW c \in Components, errors'[r][c] # {}
                   PROVE  runner' = "mp" /\ \E x \in live' : x[1] = r /\ x[2] = c
        BY DEF Owned
      <3>1. errors'[r][c] = Forked[r][c]
        BY <2>2, ServicesAssumption
      <3>2. CASE r = cur /\ c = component
        <4>1. runner = "mp"
          BY <1>3, <2>3, <3>1, <3>2
        <4>2. <<cur, component, n>> \in live'
          BY <1>8
        <4> QED BY <1>1, <3>2, <4>1, <4>2
      <3>3. CASE ~(r = cur /\ c = component)
        <4>1. errors[r][c] # {}
          BY <2>3, <3>1, <3>3
        <4> QED BY <1>0, <1>1, <1>8, <4>1 DEF Owned
      <3> QED BY <3>2, <3>3
    <2>5. ASSUME NEW r \in DOMAIN active_monitors, r \notin lost', r = cur => pc # "start" /\ ~raised
          PROVE  Shown(r)'
      <3>1. r \in Servers /\ (r \in lost \/ Shown(r))
        BY <1>0, <2>5, ManagerFields DEF Visible
      <3>2. CASE r # cur
        BY <1>1, <2>2, <2>3, <2>5, <3>1, <3>2 DEF Shown
      <3>3. CASE r = cur /\ state'[cur].error = errors'[cur]["main"]
        BY <1>2, <2>2, <3>3, ShownBy
      <3>4. CASE /\ r = cur /\ errors'[cur] = Forked[cur] /\ state'[cur] = state[cur]
                 /\ (cur \in lost' <=> cur \in lost)
        <4> SUFFICES ASSUME NEW e \in state[cur].error, e \notin tracking_errors
                     PROVE  \E q \in {"main"} \cup Components : e \in Forked[cur][q]
          BY <1>1, <2>3, <3>4 DEF Shown
        <4>0. e \in UNION {errors[cur][q] : q \in DOMAIN errors[cur]}
          BY <2>5, <3>1, <3>4 DEF Shown
        <4>1. PICK q \in {"main"} \cup Components : e \in errors[cur][q]
          BY <2>3, <4>0
        <4>2. q # component
          BY <1>3, <4>1
        <4> QED BY <2>3, <4>1, <4>2
      <3> QED BY <2>2, <2>5, <3>2, <3>3, <3>4
    <2> QED BY <1>1, <1>6, <2>4, <2>5 DEF Visible
  <1> QED BY <1>4, <1>7, <1>8

\* Every step of the monitor keeps the invariant behind NoGhostError.
LEMMA NextGInv == GInv /\ [Next]_vars => GInv'
  <1> SUFFICES ASSUME GInv, [Next]_vars PROVE GInv'
    OBVIOUS
  <1>0. IInv /\ Owned /\ Mode /\ Visible /\ TypeOK
    BY DEF GInv, IInv
  <1>1. IInv'
    BY NextIInv DEF GInv
  <1>2. Owned' /\ Mode' /\ Visible'
    <2>1. CASE Reporting \/ SyncOnce
      BY <2>1, ReportingGhosts
    <2>2. CASE Moving
      BY <2>2, MovingGhosts
    <2>3. CASE \/ StopDisabledServers \/ IterationEnds \/ CleanDeadComponents \/ ServerBeaten
               \/ \E s \in Servers : EnsureMonitoredServer(s)
               \/ StopComponent \/ SetRunningMonitorState
      BY <2>3, ChangingGhosts
    <2>4. CASE StartComponent
      BY <2>4, StartGhosts
    <2>5. ASSUME NEW s \in Servers, Configure(s)
          PROVE  Owned' /\ Mode' /\ Visible'
      BY <1>0, <2>5 DEF Configure, loop, mode, Owned, Mode, Visible, Shown
    <2>9. CASE Rename
      BY <1>0, <2>9 DEF Rename, loop, mode, Owned, Mode, Visible, Shown
    <2>6. ASSUME NEW x \in live, ChildSync(x)
          PROVE  Owned' /\ Mode' /\ Visible'
      <3>1. /\ UNCHANGED <<runner, tracking_errors, active_monitors, live, pc, cur, raised>> /\ runner = "mp"
        BY <2>6 DEF ChildSync, loop, mode
      <3>2. x[1] \in Servers /\ x[2] \in Components
        BY <1>0 DEF TypeOK
      <3>3. PICK s \in Servers, p \in {"main"} \cup Components : s = x[1] /\ p = x[2]
        BY <3>2
      <3>4. PICK f \in {"refresh_config", p}, ok \in BOOLEAN, n \in {0, 1} : ReportWith(errors, s, p, f, ok, n)
        BY <2>6, <3>3 DEF ChildSync, Report
      <3>5. f \in Functions
        BY <3>2, <3>3 DEF Functions
      <3>6. Owned'
        BY <1>0, <3>1, <3>3, <3>4, <3>5, ReportOwned
      <3>8. ASSUME NEW r \in DOMAIN active_monitors, r \notin lost', r = cur => pc # "start" /\ ~raised
            PROVE  Shown(r)'
        <4>1. r \in Servers /\ (r \in lost \/ Shown(r))
          BY <1>0, <3>8, ManagerFields DEF Visible
        <4> QED BY <1>0, <3>1, <3>4, <3>5, <3>8, <4>1, ReportVisible
      <3>9. Mode' /\ Visible'
        BY <1>0, <3>1, <3>8 DEF Mode, Visible
      <3> QED BY <3>6, <3>9
    <2>7. ASSUME NEW x \in live, ChildDies(x)
          PROVE  Owned' /\ Mode' /\ Visible'
      <3>1. UNCHANGED <<state, mode, active_monitors, pc, cur, raised>>
        BY <2>7 DEF ChildDies, loop, web
      <3>2. Owned' /\ lost \subseteq lost' /\ \A r \in Servers \ lost' : Shown(r) => Shown(r)'
        BY <1>0, <2>7, <3>1, StopRunnersShown DEF ChildDies
      <3>3. Mode' /\ Visible'
        BY <1>0, <3>1, <3>2, ManagerFields DEF mode, Mode, Visible
      <3> QED BY <3>2, <3>3
    <2>8. CASE UNCHANGED vars
      BY <1>0, <2>8 DEF vars, web, settings, mode, loop, Owned, Mode, Visible, Shown
    <2> QED BY <2>1, <2>2, <2>3, <2>4, <2>5, <2>6, <2>7, <2>8, <2>9 DEF Next, Loop, Reporting, Moving
  <1> QED BY <1>1, <1>2 DEF GInv

\* The web server shows no error that no process of the monitor holds, but for the tracking
\* errors of the monitor's environment, and but for a server whose last report was lost, with a
\* call or with a child that died, until its next report gets through.
THEOREM NoGhostErrorHolds == Spec => []NoGhostError
  <1>1. GInv => NoGhostError
    BY DEF GInv, Visible, NoGhostError, Shown
  <1>2. Spec => []GInv
    BY InitGInv, NextGInv, PTL DEF Spec
  <1> QED BY <1>1, <1>2, PTL
=============================================================================
