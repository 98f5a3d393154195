---------------------------- MODULE RuntimeSyncer ----------------------------
(***************************************************************************)
(* The Airflow monitor's runtime syncer and runtime fixer: two processes   *)
(* that copy the dag runs of an Airflow server to the tracking service.    *)
(* The syncer asks the tracking service what it knows and how far it got   *)
(* (last_seen_dag_run_id, last_seen_log_id), asks the export plugin of the *)
(* Airflow server what is new, and sends it on in chunks; the fixer sends  *)
(* the state of all known dag runs again.  Airflow changes meanwhile, any  *)
(* call may fail, before or after it took effect, and the syncer may die.  *)
(***************************************************************************)
EXTENDS Integers, Sequences, SequencesExt, FiniteSetsExt

CONSTANTS MaxRuns,     \* bound: dag runs of the Airflow server
          RunsBefore,  \* how many of them may be running when the monitor is installed
          MaxChanges,  \* bound: changes in the Airflow server
          MaxFails,    \* bound: calls that fail and deaths of the syncer
          BulkSize,    \* dag_run_bulk_size
          FixerEnabled \* fixer_enabled

ASSUME RunsAssumption == {MaxRuns, MaxChanges, MaxFails, BulkSize} \subseteq Nat
ASSUME BeforeAssumption == RunsBefore \subseteq 0..MaxRuns
ASSUME FixerAssumption == FixerEnabled \in BOOLEAN

Runs == 1..MaxRuns
None == -2

VARIABLES
  af,          \* Airflow: its dag runs, in the order of their ids
  logs,        \* Airflow: the log table
  srv,         \* tracking service: its dag runs
  last_seen_dag_run_id, last_seen_log_id,  \* tracking service: the cursors
  pc,          \* syncer: where it is in _sync_once
  dbnd,        \* syncer: dbnd_response
  to_init, to_update,  \* syncer: what its loops have still to send, id and max_log_id
  data,        \* syncer: the data of the chunk in hand
  fix, fix_data,  \* fixer: the same
  changes, fails, \* counters for the bounds
  base,        \* history: the cursors that the tracking service began with
  sent,        \* history: for each dag run, the last log entry of it that was sent
  dropped      \* history: dag runs whose init failed in a sync that went on

airflow == <<af, logs, changes>>
service == <<srv, last_seen_dag_run_id, last_seen_log_id, base, sent>>
syncer == <<pc, dbnd, to_init, to_update, data, dropped>>
fixer == <<fix, fix_data>>
vars == <<airflow, service, syncer, fixer, fails>>

Nothing == [run \in {} |-> {}]
NoResponse == [active |-> {}, run |-> None, log |-> None]
Absent == [state |-> "none", paused |-> FALSE, last |-> 0]

Init ==
  /\ \E n \in RunsBefore : af = [r \in 1..n |-> [state |-> "running", paused |-> FALSE]]
  /\ logs = <<>> /\ changes = 0
  /\ srv = [r \in Runs |-> Absent]
  /\ last_seen_dag_run_id = None /\ last_seen_log_id = None
  /\ base = [run |-> None, log |-> None]
  /\ sent = [r \in Runs |-> 0]
  /\ pc = "idle"
  /\ dbnd = NoResponse
  /\ to_init = <<>> /\ to_update = <<>> /\ data = Nothing /\ dropped = {}
  /\ fix = <<>> /\ fix_data = Nothing
  /\ fails = 0

-----------------------------------------------------------------------------
(***************************************************************************)
(* The Airflow server                                                      *)
(***************************************************************************)
Change(r, new) ==
  /\ changes < MaxChanges
  /\ changes' = changes + 1
  /\ af' = [af EXCEPT ![r] = new]
  /\ UNCHANGED <<service, syncer, fixer, fails>>

StartRun(paused) ==
  /\ changes < MaxChanges
  /\ Len(af) < MaxRuns
  /\ changes' = changes + 1
  /\ af' = Append(af, [state |-> "running", paused |-> paused])
  /\ UNCHANGED <<logs, service, syncer, fixer, fails>>

FinishRun(r) ==
  /\ af[r].state = "running"
  /\ ~af[r].paused
  /\ Change(r, [af[r] EXCEPT !.state = "success"])
  /\ UNCHANGED logs

PauseRun(r) ==
  /\ Change(r, [af[r] EXCEPT !.paused = ~@])
  /\ UNCHANGED logs

\* A task's event, or a user who clears a task or marks a state.
LogEvent(r, state) ==
  /\ Change(r, [af[r] EXCEPT !.state = state])
  /\ logs' = Append(logs, [run |-> r, view |-> FALSE])

\* A user looks at the run.
LogView(r) ==
  /\ changes < MaxChanges
  /\ changes' = changes + 1
  /\ logs' = Append(logs, [run |-> r, view |-> TRUE])
  /\ UNCHANGED <<af, service, syncer, fixer, fails>>

Airflow ==
  \/ \E paused \in BOOLEAN : StartRun(paused)
  \/ \E r \in DOMAIN af : \/ FinishRun(r)
                          \/ PauseRun(r)
                          \/ LogView(r)
                          \/ \E state \in {"running", "success"} : LogEvent(r, state)

-----------------------------------------------------------------------------
(***************************************************************************)
(* The export plugin                                                       *)
(***************************************************************************)
\* find_all_logs_grouped_by_runs: the log entries of r after the cursor.
NewLogs(r) == {l \in DOMAIN logs : l > dbnd.log /\ logs[l].run = r}


\* Fault: the dag run cursor is not used.
IsNewActive(r) ==
  \/ r \in dbnd.active
  \/ af[r].state = "running" /\ ~af[r].paused
  \/ NewLogs(r) # {}

\* _get_new_dag_runs_filter_condition
IsNew(r) ==
  \/ r \in dbnd.active
  \/ af[r].state = "running" /\ ~af[r].paused
  \/ r > dbnd.run
  \/ NewLogs(r) # {}

\* get_new_dag_runs
NewDagRun(r) ==
  [id |-> r, state |-> af[r].state, is_paused |-> af[r].paused,
   has_updated_task_instances |-> NewLogs(r) # {},
   max_log_id |-> IF NewLogs(r) = {} THEN None ELSE Max(NewLogs(r)),
   events |-> {logs[l].view : l \in NewLogs(r)}]


\* AirflowDagRunsResponse.from_dict: the events do not get through.
FromDict(dr) == [dr EXCEPT !.events = {}]

\* A dag run with its task instances, which are as new as its last log entry.
LastLog(r) == Max({0} \cup {l \in DOMAIN logs : logs[l].run = r})
FullDagRun(r) == [state |-> af[r].state, paused |-> af[r].paused, last |-> LastLog(r)]

\* get_full_dag_runs and get_dag_runs_state_data for a chunk.
Fetch(ids) == [r \in ids |-> FullDagRun(r)]

-----------------------------------------------------------------------------
(***************************************************************************)
(* The tracking service                                                    *)
(***************************************************************************)
known == {r \in Runs : srv[r] # Absent}

Active == {r \in known : srv[r].state = "running" /\ ~srv[r].paused}

Store(d) ==
  /\ srv' = [r \in Runs |-> IF r \in DOMAIN d THEN d[r] ELSE srv[r]]
  /\ sent' = [r \in Runs |-> IF r \in DOMAIN d THEN Max({sent[r], d[r].last}) ELSE sent[r]]

InitDagRuns(d) ==
  /\ Store(d)
  /\ last_seen_dag_run_id' = Max({last_seen_dag_run_id} \cup DOMAIN d)
  /\ UNCHANGED <<last_seen_log_id, base>>

UpdateDagRuns(d, log) ==
  /\ Store(d)
  /\ last_seen_log_id' = Max({last_seen_log_id, log})
  /\ UNCHANGED <<last_seen_dag_run_id, base>>

\* A call of the tracking service with the given effect on it: it works, or it
\* raises, also on the second try, and took effect or not.
Works(Effect) == Effect /\ UNCHANGED fails
Raises(Effect) ==
  /\ fails < MaxFails
  /\ fails' = fails + 1
  /\ Effect \/ UNCHANGED service

-----------------------------------------------------------------------------
(***************************************************************************)
(* AirflowRuntimeSyncer                                                    *)
(***************************************************************************)
\* _sync_once: what the tracking service knows, and how far it got.
GetActiveDagRuns ==
  /\ pc = "idle"
  /\ dbnd' = [active |-> Active, run |-> last_seen_dag_run_id, log |-> last_seen_log_id]
  /\ pc' = IF None \in {last_seen_dag_run_id, last_seen_log_id} THEN "seed" ELSE "fetch"
  /\ UNCHANGED <<airflow, service, to_init, to_update, data, dropped, fixer, fails>>

\* The first sync begins at the present end of both tables.
GetLastSeenValues ==
  /\ pc = "seed"
  /\ dbnd' = [dbnd EXCEPT !.run = IF af = <<>> THEN -1 ELSE Len(af),
                          !.log = IF logs = <<>> THEN -1 ELSE Len(logs)]
  /\ pc' = "seed_post"
  /\ UNCHANGED <<airflow, service, to_init, to_update, data, dropped, fixer, fails>>

Seed ==
  /\ last_seen_dag_run_id' = dbnd.run
  /\ last_seen_log_id' = dbnd.log
  /\ base' = [run |-> dbnd.run, log |-> dbnd.log]
  /\ UNCHANGED <<srv, sent>>

UpdateLastSeenValues ==
  /\ pc = "seed_post"
  /\ Works(Seed) \/ Raises(Seed)
  /\ pc' = "idle"
  /\ dbnd' = NoResponse
  /\ UNCHANGED <<airflow, to_init, to_update, data, dropped, fixer>>

\* The plugin gives the state as Airflow has it, in lower case.
IsFinished(dr) == dr.state # "RUNNING"
IsViewOnlyEvents(dr) == dr.events = {TRUE}

\* categorize_dag_runs
ToUpdate(dr) ==
  \/ IsFinished(dr) /\ IsViewOnlyEvents(dr)
  \/ /\ dr.id \in dbnd.active
     /\ IsFinished(dr) \/ dr.has_updated_task_instances \/ dr.is_paused
ToInit(dr) == ~(IsFinished(dr) /\ IsViewOnlyEvents(dr)) /\ dr.id \notin dbnd.active

\* What the loops use of a dag run.
Entry(dr) == [id |-> dr.id, max_log_id |-> dr.max_log_id]


\* Fault: the newest dag run first.
ByIdDescending(a, b) == a.id > b.id

ById(a, b) == a.id < b.id

\* Entries without a log come last.
ByLog(a, b) ==
  \/ a.max_log_id # None /\ (b.max_log_id = None \/ a.max_log_id < b.max_log_id)
  \/ a.max_log_id = None /\ b.max_log_id = None /\ a.id < b.id

\* sorted(): the elements of S in the given strict order, of which there is one list.
Sorted(S, _\prec_) ==
  {s \in [1..Cardinality(S) -> S] :
     Range(s) = S /\ \A i, j \in DOMAIN s : i < j => s[i] \prec s[j]}

GetDagRunsToSync ==
  /\ pc = "fetch"
  /\ LET dag_runs == {FromDict(NewDagRun(r)) : r \in {q \in DOMAIN af : IsNew(q)}} IN
       /\ to_init' \in Sorted({Entry(dr) : dr \in {x \in dag_runs : ToInit(x)}}, ById)
       /\ to_update' \in Sorted({Entry(dr) : dr \in {x \in dag_runs : ToUpdate(x)}}, ByLog)
  /\ dbnd' = NoResponse
  /\ pc' = "init"
  /\ UNCHANGED <<airflow, service, data, dropped, fixer, fails>>

Ids(dag_runs) == {dag_runs[i].id : i \in DOMAIN dag_runs}
Bulk(s) == IF BulkSize = 0 \/ Len(s) < BulkSize THEN Len(s) ELSE BulkSize
Chunk(s) == SubSeq(s, 1, Bulk(s))
Rest(s) == SubSeq(s, Bulk(s) + 1, Len(s))

\* init_dagruns: the data of the next chunk, from Airflow.
FetchToInit ==
  /\ pc = "init"
  /\ to_init # <<>>
  /\ data' = Fetch(Ids(Chunk(to_init)))
  /\ pc' = "init_post"
  /\ UNCHANGED <<airflow, service, dbnd, to_init, to_update, dropped, fixer, fails>>

InitChunk ==
  /\ pc = "init_post"
  /\ Works(InitDagRuns(data))
  /\ to_init' = Rest(to_init)
  /\ data' = Nothing
  /\ pc' = "init"
  /\ UNCHANGED <<airflow, dbnd, to_update, dropped, fixer>>

\* An exception leaves the loop over the chunks, and the sync goes on.
InitFails ==
  /\ \/ pc = "init" /\ to_init # <<>> /\ Raises(UNCHANGED service)
     \/ pc = "init_post" /\ Raises(InitDagRuns(data))
  /\ dropped' = dropped \cup Ids(to_init)
  /\ to_init' = <<>>
  /\ data' = Nothing
  /\ pc' = "init"
  /\ UNCHANGED <<airflow, dbnd, to_update, fixer>>

InitEnds ==
  /\ pc = "init"
  /\ to_init = <<>>
  /\ pc' = "update"
  /\ UNCHANGED <<airflow, service, dbnd, to_init, to_update, data, dropped, fixer, fails>>

\* update_dagruns; without dag runs, one empty update.
FetchToUpdate ==
  /\ pc = "update"
  /\ data' = Fetch(Ids(Chunk(to_update)))
  /\ pc' = "update_post"
  /\ UNCHANGED <<airflow, service, dbnd, to_init, to_update, dropped, fixer, fails>>

MaxLog(dag_runs) == Max({None} \cup {dag_runs[i].max_log_id : i \in DOMAIN dag_runs})

UpdateChunk ==
  /\ pc = "update_post"
  /\ Works(UpdateDagRuns(data, MaxLog(Chunk(to_update))))
  /\ to_update' = Rest(to_update)
  /\ data' = Nothing
  /\ pc' = IF Rest(to_update) = <<>> THEN "idle" ELSE "update"
  /\ UNCHANGED <<airflow, dbnd, to_init, dropped, fixer>>

\* Any other call fails, which ends the sync, or the process dies.
SyncEnds ==
  /\ pc # "idle"
  /\ \/ pc # "update_post" /\ Raises(UNCHANGED service)
     \/ pc = "update_post" /\ Raises(UpdateDagRuns(data, MaxLog(Chunk(to_update))))
  /\ pc' = "idle"
  /\ dbnd' = NoResponse
  /\ to_init' = <<>> /\ to_update' = <<>> /\ data' = Nothing
  /\ UNCHANGED <<airflow, dropped, fixer>>

Syncer ==
  \/ GetActiveDagRuns
  \/ GetLastSeenValues
  \/ UpdateLastSeenValues
  \/ GetDagRunsToSync
  \/ FetchToInit
  \/ InitChunk
  \/ InitFails
  \/ InitEnds
  \/ FetchToUpdate
  \/ UpdateChunk
  \/ SyncEnds

-----------------------------------------------------------------------------
(***************************************************************************)
(* AirflowRuntimeFixer: an empty list is its idle state                    *)
(***************************************************************************)

GetAllDagRuns ==
  /\ FixerEnabled
  /\ fix = <<>>
  /\ fix' \in Sorted(known, >)
  /\ UNCHANGED <<airflow, service, syncer, fix_data, fails>>

FetchToFix ==
  /\ fix # <<>>
  /\ fix_data = Nothing
  /\ fix_data' = Fetch(Range(Chunk(fix)))
  /\ UNCHANGED <<airflow, service, syncer, fix, fails>>

FixChunk ==
  /\ fix_data # Nothing
  /\ fix' = Rest(fix)
  /\ fix_data' = Nothing
  /\ Works(UpdateDagRuns(fix_data, None))
  /\ UNCHANGED <<airflow, syncer>>

FixFails ==
  /\ fix # <<>>
  /\ fix' = <<>>
  /\ fix_data' = Nothing
  /\ Raises(UpdateDagRuns(fix_data, None))
  /\ UNCHANGED <<airflow, syncer>>

Fixer == GetAllDagRuns \/ FetchToFix \/ FixChunk \/ FixFails

-----------------------------------------------------------------------------
Next == Airflow \/ Syncer \/ Fixer

Spec == Init /\ [][Next]_vars

\* Both processes run their loops for ever; the sleep between two rounds ends.
FairSpec == Spec /\ WF_vars(Syncer) /\ WF_vars(Fixer)

-----------------------------------------------------------------------------
DagRun == [state : {"running", "success"}, paused : BOOLEAN]
Full == [state : {"running", "success"}, paused : BOOLEAN, last : Nat]
Work == [id : Nat, max_log_id : Nat \cup {None}]
Stored == [state : {"none", "running", "success"}, paused : BOOLEAN, last : Nat]
IsData(d) == DOMAIN d \subseteq Runs /\ d \in [DOMAIN d -> Full]

TypeOK ==
  /\ af \in Seq(DagRun) /\ Len(af) <= MaxRuns
  /\ logs \in Seq([run : DOMAIN af, view : BOOLEAN])
  /\ srv \in [Runs -> Stored] /\ sent \in [Runs -> Nat]
  /\ last_seen_dag_run_id \in (-1..Len(af)) \cup {None}
  /\ last_seen_log_id \in (-1..Len(logs)) \cup {None}
  /\ base \in [run : Int, log : Int]
  /\ dbnd \in [active : SUBSET Runs, run : Int, log : Int]
  /\ dbnd.run \in (-1..Len(af)) \cup {None} /\ dbnd.log \in (-1..Len(logs)) \cup {None}
  /\ pc \in {"idle", "seed", "seed_post", "fetch", "init", "init_post", "update", "update_post"}
  /\ to_init \in Seq(Work) /\ to_update \in Seq(Work) /\ fix \in Seq(Nat)
  /\ Ids(to_init) \cup Ids(to_update) \subseteq DOMAIN af
  /\ IsData(data) /\ IsData(fix_data)
  /\ dropped \subseteq Runs
  /\ known \subseteq DOMAIN af /\ Range(fix) \subseteq known

\* The dag run cursor passes no dag run that the tracking service does not have:
\* every one after the first sync's is known or still ahead of the cursor.
NoRunSkipped ==
  last_seen_dag_run_id # None =>
    \A r \in DOMAIN af : base.run < r /\ r <= last_seen_dag_run_id => r \in known

\* The log cursor passes the last log entry of a dag run only if data that is as
\* new as that entry was sent for it, unless its init failed.
NoLogSkipped ==
  last_seen_log_id # None =>
    \A r \in known \ dropped :
      base.log < LastLog(r) /\ LastLog(r) <= last_seen_log_id => sent[r] >= LastLog(r)

\* Neither cursor hides what the tracking service lacks, whatever calls failed in between.
NothingSkipped == NoRunSkipped /\ NoLogSkipped

\* Once Airflow is quiet and calls work, the tracking service has every dag run
\* from the first sync on, in its last state.
Converges ==
  <>[](\A r \in DOMAIN af : (base.run < r \/ r \in known) => r \in known /\ srv[r] = FullDagRun(r))
=============================================================================
