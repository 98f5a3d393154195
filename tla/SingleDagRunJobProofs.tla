----------------------- MODULE SingleDagRunJobProofs -----------------------
(***************************************************************************)
(* Proofs about SingleDagRunJob, for any DAG, any number of retries, both  *)
(* kinds of executor, and any number of tries that die or give up, of      *)
(* instances that a user clears, kills, exceptions and crashes of the job. *)
(***************************************************************************)
EXTENDS SingleDagRunJob, TLAPS

Ours == Tasks \ cleared
To_run == ti_status["to_run"]
Running == ti_status["running"]
NoProc(t) == \A k \in Tries : procs[t][k] = "none"
NoEvent(t) == \A e \in events : e[1] # t
\* The job waits for the result of the task, or it is about to end.
Held(t) == (t \in waiting /\ t \in Running) \/ pc \in {"finally", "clean"}
Closed(t) == ti[t] \notin OpenStates

(***************************************************************************)
(* The stages of a task that no user cleared: nothing of it is with the    *)
(* executor; it is queued; one process of it is there; or a result is.     *)
(***************************************************************************)
Away(t) == t \notin queued /\ NoProc(t) /\ NoEvent(t)

InQueue(t) == t \in queued /\ NoProc(t) /\ NoEvent(t) /\ Held(t) /\ ti[t] = "queued"

\* The try is over; only one that met a limit goes back to to_run before its result is there.
Over(t) ==
  \/ Closed(t)
  \/ Held(t) /\ ti[t] \in {"none", "queued", "running", "up_for_retry"}
  \/ ti[t] = "scheduled" /\ t \notin Running

Process(t, k) ==
  \/ procs[t][k] = "launched" /\ k = try[t] + 1
       /\ \/ Held(t) /\ ti[t] = "queued"
          \/ Closed(t) /\ Upstream[t] \cap cleared # {}
  \/ procs[t][k] = "running" /\ k = try[t] /\ Held(t) /\ ti[t] = "running"
  \/ procs[t][k] \in {"wrote", "exited"} /\ Over(t) /\ (ti[t] \in {"none", "scheduled"} => k = try[t] + 1)

Started(t) ==
  /\ t \notin queued /\ NoEvent(t)
  /\ \E k \in Tries : Process(t, k) /\ \A i \in Tries \ {k} : procs[t][i] = "none"

Told(t) ==
  /\ t \notin queued /\ NoProc(t) /\ Over(t)
  /\ \E e \in events : e[1] = t /\ \A f \in events : f[1] = t => f = e

Stage(t) == Away(t) \/ InQueue(t) \/ Started(t) \/ Told(t)
Staged(t) == pc \notin {"done", "crashed"} /\ t \notin cleared => Stage(t)

\* A process is launched for the try that is next; an executor in the process of the job has none.
Slot(t) ==
  /\ \A k \in Tries : procs[t][k] = "launched" => k = try[t] + 1
  /\ executor = "in_process" => NoProc(t)

\* A task that may be sent to the executor in the process of the job has a try left.
Retriable == {"none", "scheduled", "queued", "up_for_retry"}
TryLeft(t) == try[t] <= Retries[t]
Left(t) ==
  executor = "in_process" =>
    /\ ti[t] \in Retriable \/ t \in queued => TryLeft(t)
    /\ pc = "scan" /\ status[t] = "none" => TryLeft(t)
    /\ pc = "events" /\ mem[t] = "none" => TryLeft(t)

\* The states that were read are those of the database where the loop relies on them.
Read(t) ==
  t \notin cleared =>
    /\ pc = "scan" /\ t \in scan => status[t] = ti[t]
    /\ pc = "events" => /\ mem[t] \notin OpenStates => ti[t] = mem[t]
                        /\ mem[t] = "none" => ti[t] = "none"

\* A task that succeeded stays so.
Success(t) ==
  t \notin cleared => /\ ti[t] = "success" => \A k \in Tries : procs[t][k] # "running"
                      /\ pc # "clean" /\ status[t] = "success" => ti[t] = "success"

Attempt(t) ==
  active /\ ({t} \cup Upstream[t]) \cap cleared = {} =>
    /\ pc = "heartbeat" /\ t \in queued => attempt[t] = try[t] + 1
    /\ \A k \in Tries : procs[t][k] \in AtWork => attempt[t] = k

OneAtWork(t) ==
  t \notin cleared => \A i, k \in Tries : procs[t][i] \in AtWork /\ procs[t][k] \in AtWork => i = k

Task(t) == Staged(t) /\ Slot(t) /\ Left(t) /\ Read(t) /\ Success(t) /\ Attempt(t) /\ OneAtWork(t)

\* An exception left the loop in the middle of an in-process batch.
Interrupted == pc = "finally" /\ executor = "in_process" /\ outcome = "raised"

\* What an iteration leaves for the next one.
Phases ==
  /\ scan \subseteq To_run /\ (pc # "scan" => scan = {})
  /\ To_run \cap Running = {}
  /\ pc = "start" => Running = {}
  /\ pc \notin {"scan", "heartbeat"} /\ ~Interrupted => queued = {}
  /\ pc \notin {"heartbeat", "check", "events"} /\ ~Interrupted => events = {}
  /\ pc = "heartbeat" /\ executor = "remote" => events = {}

\* The job knows that the upstream tasks of a task succeeded when it sends it, and they stay so.
Sent(t) == t \in queued \/ \E k \in Tries : procs[t][k] = "launched"
Upstreams ==
  \A t \in Tasks : \A u \in Upstream[t] \ cleared : Sent(t) => ti[u] = "success" /\ status[u] = "success"

IInv == TypeOK /\ Phases /\ Upstreams /\ \A t \in Tasks : Task(t)

(***************************************************************************)
(* How the job ends: Databand knows of the tasks that were not run, the    *)
(* DAG run is looked at as long as it is open, and once it is closed, with *)
(* no task open, the tasks stay closed.                                    *)
(***************************************************************************)
Loop == {"start", "top", "scan", "heartbeat", "check", "events", "state", "databand"}

Known(t) == ti[t] = "upstream_failed" => task_run_state[t] \in FailedStates

Settled(t) ==
  t \notin cleared /\ ~closed_early =>
    /\ pc \in {"start", "top"} \/ (pc \in Loop /\ ~active) => Known(t)
    /\ pc \in {"finally", "clean", "done"} /\ outcome # "raised" => Known(t)
    /\ pc \notin {"done", "crashed"} /\ dag_run # "running" => Closed(t)
    /\ pc = "done" /\ dag_run # "running" /\ NoProc(t) => ti[t] \notin {"scheduled", "queued", "running", "up_for_retry"}

Settling ==
  /\ pc \in Loop /\ ~active => dag_run # "running"
  /\ \A t \in Tasks : Settled(t)

(***************************************************************************)
(* The lists, if no user cleared a task: they hold the tasks of a set T,   *)
(* the finished ones where they belong.                                    *)
(***************************************************************************)
Succeeded == ti_status["succeeded"]
Skipped == ti_status["skipped"]
Troubled == ti_status["failed"] \cup ti_status["deadlocked"]

\* The loop is over, and nothing went wrong by the lists.
Idle == To_run \cup Running \cup Troubled = {}

\* A deadlock ends the loop, and empties to_run.
InLists(t) ==
  ti_status["deadlocked"] = {} => t \in To_run \cup Running \cup Succeeded \cup Skipped \cup ti_status["failed"]

Accounted(T) ==
  /\ pc = "start" => \A l \in Lists : ti_status[l] = {}
  /\ pc \in Loop \ {"start"} =>
       /\ \A t \in T : /\ InLists(t)
                       /\ t \in Succeeded => ti[t] = "success"
                       /\ t \in Skipped => ti[t] = "skipped"
       /\ pc \in {"databand", "top"} /\ Idle => dag_run = "success" \/ closed_early

\* A DAG run that is closed as failed, with no task open, has a leaf that failed.
FailedLeaf ==
  pc \in Loop /\ ~closed_early /\ dag_run = "failed" => \E t \in Tasks : Leaf(t) /\ ti[t] \in FailedStates

Ended(t) == ti[t] \in {"success", "skipped"}
GivenUp(t) == <<t, "upstream_failed">> \in events

\* When the loop is about to end without an error, every task has ended.
Finishes == cleared = {} /\ pc \in {"top", "state"} /\ Idle => \A t \in Tasks : Ended(t)

\* After a success nothing is at work that could undo it.
Good == outcome = "success" => AllDone /\ \A t \in Tasks, k \in Tries : procs[t][k] \notin AtWork

Ending(T) ==
  /\ closed_early => dag_run # "running"
  /\ outcome = "success" => pc \in {"finally", "clean", "done"}
  /\ cleared = {} => Accounted(T) /\ FailedLeaf /\ Good

\* The executor in the process of the job gives tasks up in the fail_fast mode.
GivesUp == fail_fast /\ executor = "in_process"
NoneGivenUp == ~GivesUp => \A e \in events : e[2] = "finished"

-----------------------------------------------------------------------------
(***************************************************************************)
(* Frames                                                                  *)
(***************************************************************************)
LEMMA GraphFacts ==
  /\ \A t \in Tasks : Upstream[t] \subseteq Tasks /\ Retries[t] \in 0..MaxRetries
  /\ MaxRetries \in Nat /\ Tries = 1..(MaxRetries + 1)
BY GraphAssumption, BoundsAssumption DEF Tries

\* A step that leaves what the executor has of a task, and the state of its instance.
SameStage(t) ==
  /\ t \in queued' <=> t \in queued
  /\ \A k \in Tries : procs'[t][k] = procs[t][k]
  /\ \A e : e[1] = t => (e \in events' <=> e \in events)
  /\ t \in waiting' <=> t \in waiting
  /\ t \in Running' <=> t \in Running
  /\ ti'[t] = ti[t] /\ try'[t] = try[t]

\* A task none of whose variables changed is in the same stage.
LEMMA StageKept == 
  ASSUME NEW t, Stage(t), SameStage(t), cleared \subseteq cleared', pc \in {"finally", "clean"} => pc' = pc
  PROVE  Stage(t)'
<1>1. (NoProc(t)' <=> NoProc(t)) /\ (NoEvent(t)' <=> NoEvent(t)) /\ (Held(t) => Held(t)') /\ (Closed(t)' <=> Closed(t))
  BY DEF SameStage, NoProc, NoEvent, Held, Closed
<1>2. Over(t) => Over(t)'
  BY <1>1 DEF SameStage, Over
<1>3. Away(t) => Away(t)'
  BY <1>1 DEF SameStage, Away
<1>4. InQueue(t) => InQueue(t)'
  BY <1>1 DEF SameStage, InQueue
<1>5. \A k \in Tries : Process(t, k) => Process(t, k)'
  BY <1>1, <1>2 DEF SameStage, Process
<1>6. Started(t) => Started(t)'
  BY <1>1, <1>5 DEF SameStage, Started
<1>7. Told(t) => Told(t)'
  BY <1>1, <1>2 DEF SameStage, Told
<1>. QED  BY <1>3, <1>4, <1>6, <1>7 DEF Stage

\* The same, and what the job knows of the task.
SameTask(t) ==
  /\ SameStage(t)
  /\ status'[t] = status[t] /\ mem'[t] = mem[t] /\ attempt'[t] = attempt[t]
  /\ t \in scan' <=> t \in scan

\* A step that touches nothing of a task keeps what the invariant says of it.
LEMMA TaskKept ==
  ASSUME NEW t, Task(t), SameTask(t), UNCHANGED <<pc, active, executor>>, cleared \subseteq cleared'
  PROVE  Task(t)'
<1>0. SameStage(t)
  BY DEF SameTask
<1>1. Staged(t)'
  BY <1>0, StageKept DEF Task, Staged
<1>2. Slot(t)'
  BY <1>0 DEF Task, Slot, SameStage, NoProc
<1>3. Left(t)'
  BY <1>0 DEF Task, Left, SameTask, SameStage, TryLeft
<1>4. Read(t)'
  BY <1>0 DEF Task, Read, SameTask, SameStage, Closed
<1>5. Success(t)'
  BY <1>0 DEF Task, Success, SameTask, SameStage
<1>6. Attempt(t)'
  BY <1>0 DEF Task, Attempt, SameTask, SameStage
<1>7. OneAtWork(t)'
  BY <1>0 DEF Task, OneAtWork, SameStage
<1>. QED  BY <1>1, <1>2, <1>3, <1>4, <1>5, <1>6, <1>7 DEF Task

\* A step that concerns one task.
LEMMA OneTask ==
  ASSUME IInv, NEW t \in Tasks, \A u \in Tasks \ {t} : SameTask(u),
         UNCHANGED <<pc, active, executor, status>>, cleared \subseteq cleared',
         t \notin cleared' /\ ti[t] = "success" => ti'[t] = "success",
         Sent(t)' => Sent(t) \/ (pc = "scan" /\ Trigger(t) = "met"),
         TypeOK', Phases', Task(t)'
  PROVE  IInv'
<1>1. \A u \in Tasks \ {t} : Task(u)'
  BY TaskKept DEF IInv
<1>2. ASSUME NEW x \in Tasks, NEW u \in Upstream[x] \ cleared', Sent(x)'
      PROVE  ti'[u] = "success" /\ status'[u] = "success"
  <2>1. u \in Tasks /\ u \notin cleared
    BY GraphFacts
  <2>2. Sent(x) \/ (x = t /\ pc = "scan" /\ Trigger(t) = "met")
    BY <1>2 DEF Sent, SameTask, SameStage
  <2>3. CASE Sent(x)
    <3>1. ti[u] = "success" /\ status[u] = "success"
      BY <2>1, <2>3 DEF IInv, Upstreams
    <3>. QED  BY <1>2, <2>1, <3>1 DEF SameTask, SameStage
  <2>4. CASE x = t /\ pc = "scan" /\ Trigger(t) = "met"
    <3>1. status[u] = "success"
      BY <1>2, <2>4 DEF Trigger
    <3>2. ti[u] = "success"
      BY <2>1, <2>4, <3>1 DEF IInv, Task, Success
    <3>. QED  BY <1>2, <2>1, <3>1, <3>2 DEF SameTask, SameStage
  <2>. QED  BY <2>2, <2>3, <2>4
<1>3. Upstreams'
  BY <1>2 DEF Upstreams
<1>. QED  BY <1>1, <1>3 DEF IInv

-----------------------------------------------------------------------------
(***************************************************************************)
(* Steps that leave the database and the executor alone                    *)
(***************************************************************************)
LEMMA Still ==
  ASSUME IInv, UNCHANGED <<ti, try, queued, procs, events, waiting, cleared, executor>>, Running' = Running,
         status' = status \/ status' = ti, pc' \notin {"done", "crashed"} => pc \notin {"done", "crashed"},
         pc \in {"finally", "clean"} => pc' = pc, pc = "clean" => pc' = pc,
         TypeOK', Phases', \A t \in Tasks : Left(t)' /\ Read(t)' /\ Attempt(t)'
  PROVE  IInv'
<1>1. ASSUME NEW t \in Tasks PROVE Task(t)'
  <2>0. Task(t)
    BY DEF IInv
  <2>1. SameStage(t)
    BY DEF SameStage
  <2>2. Staged(t)'
    BY <2>0, <2>1, StageKept DEF Task, Staged
  <2>3. Slot(t)' /\ OneAtWork(t)'
    BY <2>0 DEF Task, Slot, OneAtWork, NoProc
  <2>4. Success(t)'
    BY <2>0 DEF Task, Success
  <2>. QED  BY <2>2, <2>3, <2>4 DEF Task
<1>2. Upstreams'
  BY DEF IInv, Upstreams, Sent
<1>. QED  BY <1>1, <1>2 DEF IInv

\* What a list of the job holds is a set of tasks.
LEMMA ListFacts ==
  ASSUME TypeOK
  PROVE  /\ \A l \in Lists : ti_status[l] \subseteq Tasks
         /\ To_run \subseteq Tasks /\ Running \subseteq Tasks
BY DEF TypeOK, Lists, To_run, Running

\* The head of the scheduling loop.
LEMMA LoopTopKeeps == ASSUME IInv, LoopTop PROVE IInv'
<1>. USE DEF LoopTop, Refresh, db, tracking, exec, env
<1>1. To_run' = To_run /\ Running' = Running
  BY DEF IInv, TypeOK, Lists, To_run, Running
<1>2. TypeOK'
  BY ListFacts DEF IInv, TypeOK, Lists
<1>3. Phases'
  BY <1>1 DEF IInv, Phases, Interrupted, To_run
<1>4. ASSUME NEW t \in Tasks PROVE Left(t)' /\ Read(t)' /\ Attempt(t)'
  <2>0. Task(t)
    BY DEF IInv
  <2>1. Left(t)'
    BY <2>0 DEF Task, Left, TryLeft, Retriable
  <2>2. Read(t)'
    BY DEF Read
  <2>3. Attempt(t)'
    BY <2>0 DEF Task, Attempt
  <2>. QED  BY <2>1, <2>2, <2>3
<1>. QED  BY <1>1, <1>2, <1>3, <1>4, Still

\* Leaving the loop, killed or with nothing left to do.
LEMMA LoopLeft == ASSUME IInv, LoopKilled \/ LoopEnds PROVE IInv'
<1>. USE DEF LoopKilled, LoopEnds, db, tracking, exec, env
<1>1. To_run' = To_run /\ Running' = Running
  BY DEF To_run, Running
<1>2. TypeOK'
  BY DEF IInv, TypeOK
<1>3. Phases'
  BY <1>1 DEF IInv, Phases, Interrupted
<1>4. ASSUME NEW t \in Tasks PROVE Left(t)' /\ Read(t)' /\ Attempt(t)'
  <2>0. Task(t)
    BY DEF IInv
  <2>1. Left(t)'
    BY <2>0 DEF Task, Left, TryLeft
  <2>2. Read(t)'
    BY DEF Read
  <2>3. Attempt(t)'
    BY <2>0 DEF Task, Attempt
  <2>. QED  BY <2>1, <2>2, <2>3
<1>. QED  BY <1>1, <1>2, <1>3, <1>4, Still

\* A task leaves to_run for a list of finished tasks.
LEMMA ListedFacts ==
  ASSUME TypeOK, NEW t \in Tasks, NEW l \in Lists, ti_status' = Listed(t, l)
  PROVE  /\ ti_status' \in [Lists -> SUBSET Tasks]
         /\ Running' = IF l = "running" THEN Running \cup {t} ELSE Running \ {t}
         /\ To_run' = IF l = "to_run" THEN To_run \cup {t} ELSE To_run \ {t}
BY DEF TypeOK, Listed, Lists, Running, To_run

\* A task read as finished moves from to_run to its list.
LEMMA ScanFinishedKeeps == ASSUME IInv, NEW t \in Tasks, ScanFinished(t) PROVE IInv'
<1>. USE DEF ScanFinished, Scanned, db, tracking, exec, env
<1>0. ListOf(status[t]) \in {"succeeded", "skipped", "failed"}
  BY DEF IInv, TypeOK, ListOf, States, OpenStates, FailedStates
<1>1. /\ ti_status' \in [Lists -> SUBSET Tasks]
      /\ Running' = Running \ {t} /\ To_run' = To_run \ {t}
  BY <1>0, ListedFacts DEF IInv, Lists
<1>2. t \in To_run /\ t \notin Running
  BY DEF IInv, Phases
<1>3. Running' = Running
  BY <1>1, <1>2
<1>4. TypeOK'
  BY <1>1 DEF IInv, TypeOK
<1>5. Phases'
  BY <1>1, <1>2 DEF IInv, Phases, Interrupted
<1>6. ASSUME NEW u \in Tasks PROVE Left(u)' /\ Read(u)' /\ Attempt(u)'
  <2>0. Task(u)
    BY DEF IInv
  <2>1. Left(u)'
    BY <2>0 DEF Task, Left, TryLeft
  <2>2. Read(u)'
    BY <2>0 DEF Task, Read
  <2>3. Attempt(u)'
    BY <2>0 DEF Task, Attempt
  <2>. QED  BY <2>1, <2>2, <2>3
<1>. QED  BY <1>3, <1>4, <1>5, <1>6, Still

\* The attempt is the number of the try that is queued, launched or runs.
LEMMA SyncAttemptsKeeps == ASSUME IInv, SyncAttempts PROVE IInv'
<1>. USE DEF SyncAttempts, db, env
<1>1. To_run' = To_run /\ Running' = Running
  BY DEF To_run, Running
<1>2. TypeOK'
  <2>1. \A t \in Tasks : AfTry(t) \in 0..(MaxRetries + 2)
    BY GraphFacts DEF IInv, TypeOK, AfTry, TryNumber
  <2>2. attempt' \in [Tasks -> 0..(MaxRetries + 2)]
    BY <2>1 DEF IInv, TypeOK
  <2>. QED  BY <2>2 DEF IInv, TypeOK
<1>3. Phases'
  BY <1>1 DEF IInv, Phases, Interrupted
<1>4. ASSUME NEW t \in Tasks PROVE Left(t)' /\ Read(t)' /\ Attempt(t)'
  <2>0. Task(t)
    BY DEF IInv
  <2>1. Left(t)'
    BY <2>0 DEF Task, Left, TryLeft
  <2>2. Read(t)'
    BY DEF Read
  <2>3. ASSUME active', ({t} \cup Upstream[t]) \cap cleared' = {} PROVE
          /\ t \in queued' => attempt'[t] = try'[t] + 1
          /\ \A k \in Tries : procs'[t][k] \in AtWork => attempt'[t] = k
    <3>1. Stage(t) /\ attempt'[t] = AfTry(t)
      BY <2>0, <2>3 DEF Task, Staged
    <3>2. t \in queued => ti[t] = "queued" /\ \A k \in Tries : procs[t][k] \notin AtWork
      BY <3>1 DEF Stage, Away, InQueue, Started, Told, NoProc, AtWork
    <3>3. ASSUME NEW k \in Tries, procs[t][k] \in AtWork
          PROVE  (ti[t] = "queued" /\ k = try[t] + 1) \/ (ti[t] = "running" /\ k = try[t])
      <4>1. Started(t)
        BY <3>1, <3>3 DEF Stage, Away, InQueue, Told, NoProc, AtWork
      <4>2. Process(t, k)
        BY <3>3, <4>1 DEF Started, AtWork
      <4>. QED  BY <2>3, <3>3, <4>2 DEF Process, AtWork
    <3>. QED  BY <3>1, <3>2, <3>3 DEF AfTry, TryNumber
  <2>4. Attempt(t)'
    BY <2>3 DEF Attempt
  <2>. QED  BY <2>1, <2>2, <2>4
<1>. QED  BY <1>1, <1>2, <1>3, <1>4, Still

\* The in-process executor has run its try to the end.
LEMMA InProcessDoneKeeps == ASSUME IInv, InProcessDone PROVE IInv'
<1>. USE DEF InProcessDone, db, tracking, exec, env
<1>1. To_run' = To_run /\ Running' = Running
  BY DEF To_run, Running
<1>2. TypeOK'
  BY DEF IInv, TypeOK
<1>3. Phases'
  BY <1>1 DEF IInv, Phases
<1>4. ASSUME NEW t \in Tasks PROVE Left(t)' /\ Read(t)' /\ Attempt(t)'
  <2>0. Task(t)
    BY DEF IInv
  <2>1. Left(t)'
    BY <2>0 DEF Task, Left, TryLeft
  <2>2. Read(t)'
    BY DEF Read
  <2>3. Attempt(t)'
    BY <2>0 DEF Task, Attempt
  <2>. QED  BY <2>1, <2>2, <2>3
<1>. QED  BY <1>1, <1>2, <1>3, <1>4, Still

\* The test for a deadlock after a pass.
LEMMA DeadlockCheckKeeps == ASSUME IInv, DeadlockCheck PROVE IInv'
<1>. USE DEF DeadlockCheck, Refresh, db, tracking, exec, env
<1>1. Running' = Running /\ To_run' \in {{}, To_run}
  BY DEF IInv, TypeOK, Lists, To_run, Running
<1>2. TypeOK'
  <2>1. ti_status' \in [Lists -> SUBSET Tasks]
    BY ListFacts DEF IInv, TypeOK, Lists
  <2>. QED  BY <2>1 DEF IInv, TypeOK
<1>3. Phases'
  BY <1>1 DEF IInv, Phases, Interrupted
<1>4. ASSUME NEW t \in Tasks PROVE Left(t)' /\ Read(t)' /\ Attempt(t)'
  <2>0. Task(t)
    BY DEF IInv
  <2>1. Left(t)'
    BY <2>0 DEF Task, Left, TryLeft, Retriable
  <2>2. Read(t)'
    BY DEF Read
  <2>3. Attempt(t)'
    BY <2>0 DEF Task, Attempt
  <2>. QED  BY <2>1, <2>2, <2>3
<1>. QED  BY <1>1, <1>2, <1>3, <1>4, Still

\* A kill request, and a retry delay that passes.
LEMMA OutsideKeeps == ASSUME IInv, Kill \/ \E t \in Tasks : DelayPasses(t) PROVE IInv'
<1>. USE DEF Kill, DelayPasses, db, tracking, exec, job, env
<1>1. To_run' = To_run /\ Running' = Running /\ pc' = pc
  BY DEF To_run, Running
<1>2. TypeOK'
  <2>1. resting' \subseteq Tasks /\ killed' \in BOOLEAN
    BY DEF IInv, TypeOK
  <2>. QED  BY <2>1 DEF IInv, TypeOK
<1>3. Phases'
  BY <1>1 DEF IInv, Phases, Interrupted
<1>4. ASSUME NEW t \in Tasks PROVE Left(t)' /\ Read(t)' /\ Attempt(t)'
  <2>0. Task(t)
    BY DEF IInv
  <2>1. Left(t)'
    BY <2>0 DEF Task, Left, TryLeft
  <2>2. Read(t)'
    BY <2>0 DEF Task, Read, Closed
  <2>3. Attempt(t)'
    BY <2>0 DEF Task, Attempt
  <2>. QED  BY <2>1, <2>2, <2>3
<1>. QED  BY <1>1, <1>2, <1>3, <1>4, Still

-----------------------------------------------------------------------------
(***************************************************************************)
(* The pass over to_run                                                    *)
(***************************************************************************)

\* A task in to_run is not held: nothing of it is with the executor, but perhaps the process of
\* a try that met a limit.
Limited(t) ==
  /\ t \notin queued /\ NoEvent(t) /\ ti[t] = "scheduled" /\ try[t] + 1 \in Tries
  /\ procs[t][try[t] + 1] \in {"wrote", "exited"}
  /\ \A i \in Tries \ {try[t] + 1} : procs[t][i] = "none"

\* A task read as open is in to_run, not running, and its try is over or none was made.
LEMMA ScanStage ==
  ASSUME IInv, NEW t \in Tasks, Scanned(t), status[t] \in OpenStates
  PROVE  /\ t \in To_run /\ t \notin Running
         /\ t \notin cleared => status[t] = ti[t] /\ (Away(t) \/ Limited(t))
<1>1. t \in To_run /\ t \notin Running
  BY DEF IInv, Phases, Scanned
<1>2. ASSUME t \notin cleared PROVE status[t] = ti[t] /\ (Away(t) \/ Limited(t))
  <2>1. Stage(t) /\ status[t] = ti[t]
    BY <1>2 DEF IInv, Task, Staged, Read, Scanned
  <2>2. ~Held(t) /\ ~Closed(t)
    BY <1>1, <2>1 DEF Held, Closed, Scanned
  <2>3. ~InQueue(t)
    BY <2>2 DEF InQueue
  <2>4. ~Told(t)
    BY DEF Told, IInv, Phases, Interrupted, Scanned
  <2>5. ASSUME Started(t) PROVE Limited(t)
    <3>1. PICK k \in Tries : Process(t, k) /\ \A i \in Tries \ {k} : procs[t][i] = "none"
      BY <2>5 DEF Started
    <3>2. procs[t][k] \in {"wrote", "exited"} /\ Over(t) /\ (ti[t] \in {"none", "scheduled"} => k = try[t] + 1)
      BY <2>2, <3>1 DEF Process
    <3>3. ti[t] = "scheduled"
      BY <2>2, <3>2 DEF Over
    <3>. QED  BY <2>5, <3>1, <3>2, <3>3 DEF Limited, Started
  <2>. QED  BY <2>1, <2>3, <2>4, <2>5 DEF Stage
<1>. QED  BY <1>1, <1>2

\* A task with a process of a try that met a limit is in a stage, whatever closes it.
LEMMA LimitedStage ==
  ASSUME NEW t, Limited(t), UNCHANGED <<queued, events, procs, try>>, Running' = Running, t \notin Running,
         Closed(t)' \/ ti'[t] = "scheduled"
  PROVE  Stage(t)'
<1>1. Over(t)'
  BY DEF Over
<1>2. Process(t, try[t] + 1)'
  BY <1>1 DEF Process, Limited
<1>3. t \notin queued' /\ NoEvent(t)'
  BY DEF Limited, NoEvent
<1>4. \A i \in Tries \ {try[t] + 1} : procs'[t][i] = "none"
  BY DEF Limited
<1>5. try[t] + 1 \in Tries
  BY DEF Limited
<1>. QED  BY <1>2, <1>3, <1>4, <1>5 DEF Stage, Started

\* A task flagged because of an upstream failure or skip.
LEMMA ScanFlaggedKeeps == ASSUME IInv, NEW t \in Tasks, ScanFlagged(t) PROVE IInv'
<1>. USE DEF ScanFlagged, Scanned, tracking, exec, env
<1>1. /\ t \in To_run /\ t \notin Running
      /\ t \notin cleared => status[t] = ti[t] /\ (Away(t) \/ Limited(t))
  BY ScanStage
<1>2. ti' = [ti EXCEPT ![t] = Trigger(t)] /\ Trigger(t) \in {"upstream_failed", "skipped"} /\ ti'[t] = Trigger(t)
  BY DEF IInv, TypeOK
<1>3. /\ ti_status' \in [Lists -> SUBSET Tasks]
      /\ Running' = Running /\ (To_run' = To_run \ {t} \/ To_run' = To_run)
  <2>1. CASE Trigger(t) = "upstream_failed"
    <3>1. ti_status' = Listed(t, "failed") /\ TypeOK /\ "failed" \in Lists
      BY <2>1 DEF IInv, Lists
    <3>2. Running' = Running \ {t} /\ To_run' = To_run \ {t} /\ ti_status' \in [Lists -> SUBSET Tasks]
      BY <3>1, ListedFacts
    <3>. QED  BY <1>1, <3>2
  <2>2. CASE Trigger(t) # "upstream_failed"
    BY <2>2, ListFacts DEF IInv, TypeOK, Lists, To_run, Running
  <2>. QED  BY <2>1, <2>2
<1>4. TypeOK'
  <2>1. ti' \in [Tasks -> States] /\ mem' \in [Tasks -> States]
    BY <1>2 DEF IInv, TypeOK, States
  <2>. QED  BY <1>3, <2>1 DEF IInv, TypeOK
<1>5. Phases'
  BY <1>1, <1>3 DEF IInv, Phases, Interrupted
<1>6. \A u \in Tasks \ {t} : SameTask(u)
  BY <1>2, <1>3 DEF SameTask, SameStage, IInv, TypeOK
<1>7. Task(t)'
  <2>0. Task(t)
    BY DEF IInv
  <2>1. Staged(t)'
    <3>1. Away(t) => Away(t)'
      BY DEF Away, NoProc, NoEvent
    <3>2. Limited(t) => Stage(t)'
      BY <1>1, <1>2, <1>3, LimitedStage DEF Closed, OpenStates
    <3>. QED  BY <1>1, <3>1, <3>2 DEF Staged, Stage
  <2>2. Slot(t)' /\ OneAtWork(t)' /\ Attempt(t)'
    BY <2>0 DEF Task, Slot, OneAtWork, Attempt, NoProc
  <2>3. Left(t)'
    BY <1>2, <2>0 DEF Task, Left, TryLeft, Retriable
  <2>4. Read(t)'
    BY DEF Read
  <2>5. Success(t)'
    BY <1>1, <1>2 DEF Success, OpenStates
  <2>. QED  BY <2>1, <2>2, <2>3, <2>4, <2>5 DEF Task
<1>8. t \notin cleared => ti[t] # "success"
  BY <1>1 DEF OpenStates
<1>9. Sent(t)' => Sent(t)
  BY DEF Sent
<1>. QED  BY <1>4, <1>5, <1>6, <1>7, <1>8, <1>9, OneTask

\* What is stored is the state that was read, but scheduled for none.
LEMMA StoredFacts ==
  ASSUME IInv, NEW t \in Tasks, Scanned(t), status[t] \in OpenStates
  PROVE  /\ Stored(t) \in States /\ Seen(t) \in States
         /\ t \notin cleared => Stored(t) \in OpenStates
         /\ Limited(t) /\ t \notin cleared => Stored(t) = "scheduled"
         /\ executor = "in_process" /\ Stored(t) \in Retriable => TryLeft(t)
<1>1. t \notin cleared => status[t] = ti[t]
  BY ScanStage
<1>2. executor = "in_process" /\ (ti[t] \in Retriable \/ status[t] = "none") => TryLeft(t)
  BY DEF IInv, Task, Left, Scanned
<1>. QED  BY <1>1, <1>2 DEF Stored, Seen, Limited, IInv, TypeOK, States, OpenStates

\* A task whose dependencies are not met.
LEMMA ScanUnmetKeeps == ASSUME IInv, NEW t \in Tasks, ScanUnmet(t) PROVE IInv'
<1>. USE DEF ScanUnmet, Scanned, tracking, exec, env
<1>1. /\ t \in To_run /\ t \notin Running
      /\ t \notin cleared => status[t] = ti[t] /\ (Away(t) \/ Limited(t))
  BY ScanStage
<1>2. ti' = [ti EXCEPT ![t] = Stored(t)] /\ ti'[t] = Stored(t)
  BY DEF IInv, TypeOK
<1>s. /\ Stored(t) \in States /\ Seen(t) \in States
      /\ t \notin cleared => Stored(t) \in OpenStates
      /\ Limited(t) /\ t \notin cleared => Stored(t) = "scheduled"
      /\ executor = "in_process" /\ Stored(t) \in Retriable => TryLeft(t)
  BY StoredFacts
<1>3. /\ ti_status' \in [Lists -> SUBSET Tasks]
      /\ Running' = Running /\ To_run' = To_run
  <2>1. CASE Seen(t) = "up_for_retry"
    <3>1. "to_run" \in Lists /\ ti_status' = Listed(t, "to_run")
      BY <2>1 DEF Lists
    <3>2. /\ ti_status' \in [Lists -> SUBSET Tasks]
          /\ Running' = Running \ {t} /\ To_run' = To_run \cup {t}
      BY <3>1, ListedFacts DEF IInv
    <3>. QED  BY <1>1, <3>2
  <2>2. CASE Seen(t) # "up_for_retry"
    BY <2>2, ListFacts DEF IInv, TypeOK, Lists, To_run, Running
  <2>. QED  BY <2>1, <2>2
<1>4. TypeOK'
  <2>1. ti' \in [Tasks -> States] /\ mem' \in [Tasks -> States]
    BY <1>2, <1>s DEF IInv, TypeOK
  <2>. QED  BY <1>3, <2>1 DEF IInv, TypeOK
<1>5. Phases'
  BY <1>1, <1>3 DEF IInv, Phases, Interrupted
<1>6. \A u \in Tasks \ {t} : SameTask(u)
  BY <1>2, <1>3 DEF SameTask, SameStage, IInv, TypeOK
<1>7. Task(t)'
  <2>0. Task(t)
    BY DEF IInv
  <2>1. Staged(t)'
    <3>1. Away(t) => Away(t)'
      BY DEF Away, NoProc, NoEvent
    <3>2. Limited(t) /\ t \notin cleared => Stage(t)'
      BY <1>1, <1>2, <1>3, <1>s, LimitedStage
    <3>. QED  BY <1>1, <3>1, <3>2 DEF Staged, Stage
  <2>2. Slot(t)' /\ OneAtWork(t)' /\ Attempt(t)'
    BY <2>0 DEF Task, Slot, OneAtWork, Attempt, NoProc
  <2>3. Left(t)'
    BY <1>2, <1>s, <2>0 DEF Task, Left, TryLeft
  <2>4. Read(t)'
    BY DEF Read
  <2>5. Success(t)'
    BY <1>1, <1>2, <1>s DEF Success, OpenStates
  <2>. QED  BY <2>1, <2>2, <2>3, <2>4, <2>5 DEF Task
<1>8. t \notin cleared => ti[t] # "success"
  BY <1>1 DEF OpenStates
<1>9. Sent(t)' => Sent(t)
  BY DEF Sent
<1>. QED  BY <1>4, <1>5, <1>6, <1>7, <1>8, <1>9, OneTask

\* A task whose dependencies are met is queued for its next try.
LEMMA ScanMetKeeps == ASSUME IInv, NEW t \in Tasks, ScanMet(t) PROVE IInv'
<1>. DEFINE send == Stored(t) \in {"scheduled", "up_for_retry"} /\ ~has_task(t)
<1>. USE DEF ScanMet, Scanned, tracking, env
<1>1. /\ t \in To_run /\ t \notin Running
      /\ t \notin cleared => status[t] = ti[t] /\ (Away(t) \/ Limited(t))
  BY ScanStage
<1>2. /\ ti' = [ti EXCEPT ![t] = IF send THEN "queued" ELSE Stored(t)]
      /\ ti'[t] = IF send THEN "queued" ELSE Stored(t)
      /\ mem' = [mem EXCEPT ![t] = ti'[t]]
  BY DEF IInv, TypeOK
<1>s. /\ Stored(t) \in States /\ Seen(t) \in States
      /\ t \notin cleared => Stored(t) \in OpenStates
      /\ Limited(t) /\ t \notin cleared => Stored(t) = "scheduled"
      /\ executor = "in_process" /\ Stored(t) \in Retriable => TryLeft(t)
  BY StoredFacts
<1>3. /\ ti_status' \in [Lists -> SUBSET Tasks]
      /\ Running' = (IF send THEN Running \cup {t} ELSE Running)
      /\ To_run' = (IF send THEN To_run \ {t} ELSE To_run)
  <2>1. CASE send
    BY <1>1, <2>1, ListedFacts DEF IInv, Lists
  <2>2. CASE ~send
    BY <2>2, ListFacts DEF IInv, TypeOK, To_run, Running
  <2>. QED  BY <2>1, <2>2
<1>q. queued' = (IF send THEN queued \cup {t} ELSE queued) /\ waiting' = (IF send THEN waiting \cup {t} ELSE waiting)
  OBVIOUS
<1>4. TypeOK'
  <2>1. ti' \in [Tasks -> States] /\ mem' \in [Tasks -> States]
    BY <1>2, <1>s DEF IInv, TypeOK, States, OpenStates
  <2>2. queued' \subseteq Tasks /\ waiting' \subseteq Tasks
    BY <1>q DEF IInv, TypeOK
  <2>. QED  BY <1>3, <2>1, <2>2 DEF IInv, TypeOK
<1>5. Phases'
  BY <1>1, <1>3 DEF IInv, Phases, Interrupted
<1>6. \A u \in Tasks \ {t} : SameTask(u)
  BY <1>2, <1>3, <1>q DEF SameTask, SameStage, IInv, TypeOK
<1>7. Task(t)'
  <2>0. Task(t)
    BY DEF IInv
  <2>1. Staged(t)'
    <3>1. Limited(t) /\ t \notin cleared => ~send
      BY DEF Limited, has_task
    <3>2. Away(t) /\ send => InQueue(t)'
      BY <1>2, <1>3, <1>q DEF Away, InQueue, NoProc, NoEvent, Held
    <3>3. Away(t) /\ ~send => Away(t)'
      BY <1>q DEF Away, NoProc, NoEvent
    <3>4. Limited(t) /\ t \notin cleared => Stage(t)'
      BY <1>1, <1>2, <1>3, <1>q, <1>s, <3>1, LimitedStage
    <3>. QED  BY <1>1, <3>2, <3>3, <3>4 DEF Staged, Stage
  <2>2. Slot(t)' /\ OneAtWork(t)' /\ Attempt(t)'
    BY <2>0 DEF Task, Slot, OneAtWork, Attempt, NoProc
  <2>3. Left(t)'
    BY <1>2, <1>s, <1>q, <2>0 DEF Task, Left, TryLeft, Retriable
  <2>4. Read(t)'
    BY DEF Read
  <2>5. Success(t)'
    BY <1>1, <1>2, <1>s DEF Success, OpenStates
  <2>. QED  BY <2>1, <2>2, <2>3, <2>4, <2>5 DEF Task
<1>8. t \notin cleared => ti[t] # "success"
  BY <1>1 DEF OpenStates
<1>9. pc = "scan" /\ Trigger(t) = "met"
  OBVIOUS
<1>10. UNCHANGED <<pc, active, executor, status, cleared>>
  OBVIOUS
<1>. HIDE DEF send, ScanMet
<1>. QED  BY <1>4, <1>5, <1>6, <1>7, <1>8, <1>9, <1>10, OneTask

-----------------------------------------------------------------------------
(***************************************************************************)
(* Tries in the process of the job, and results of the executor            *)
(***************************************************************************)
LEMMA RunInProcessKeeps == ASSUME IInv, NEW t \in Tasks, RunInProcess(t) PROVE IInv'
<1>. USE DEF tracking, job, env
<1>1. /\ pc = "heartbeat" /\ executor = "in_process" /\ t \in queued /\ queued' = queued \ {t}
      /\ UNCHANGED <<dag_run, tracking, procs, job, env>>
  BY DEF RunInProcess
<1>2. /\ NoProc(t) /\ TryLeft(t)
      /\ t \notin cleared => ti[t] = "queued" /\ NoEvent(t) /\ Held(t)
  <2>1. Task(t)
    BY DEF IInv
  <2>2. NoProc(t) /\ TryLeft(t)
    BY <1>1, <2>1 DEF Task, Slot, Left
  <2>3. t \notin cleared => InQueue(t)
    BY <1>1, <2>1 DEF Task, Staged, Stage, Away, Started, Told
  <2>. QED  BY <2>2, <2>3 DEF InQueue
<1>3. PICK end \in States, r \in Results :
        /\ ti' = [ti EXCEPT ![t] = end] /\ events' = events \cup {<<t, r>>}
        /\ end \in {"success", "failed", "upstream_failed", "skipped", "up_for_retry"}
        /\ try' = try \/ try' = [try EXCEPT ![t] = @ + 1]
        /\ end = "up_for_retry" => try'[t] <= Retries[t]
        /\ resting' = resting \/ resting' = resting \cup {t}
        /\ task_failed' \in BOOLEAN
  <2>1. CASE fail_fast /\ task_failed
    BY <2>1 DEF RunInProcess, IInv, TypeOK, States, OpenStates, Results
  <2>2. CASE ~(fail_fast /\ task_failed) /\ killed
    BY <2>2 DEF RunInProcess, IInv, TypeOK, States, OpenStates, Results
  <2>3. CASE ~(fail_fast /\ task_failed) /\ ~killed
    <3>1. PICK s \in {"success", "failed"} \cup (IF t \in Skippable THEN {"skipped"} ELSE {}) :
            LET e == IF s = "failed" /\ try'[t] <= Retries[t] THEN "up_for_retry" ELSE s IN
            /\ ti' = [ti EXCEPT ![t] = e]
            /\ resting' = (IF e = "up_for_retry" THEN resting \cup {t} ELSE resting)
            /\ events' = events \cup {<<t, "finished">>}
            /\ task_failed' = (task_failed \/ s = "failed")
      BY <2>3 DEF RunInProcess
    <3>2. try' = [try EXCEPT ![t] = @ + 1]
      BY <2>3 DEF RunInProcess
    <3>3. s \in {"success", "failed", "skipped"}
      BY <3>1
    <3>4. CASE s = "failed" /\ try'[t] <= Retries[t]
      <4>1. ti' = [ti EXCEPT ![t] = "up_for_retry"] /\ resting' = resting \cup {t}
            /\ events' = events \cup {<<t, "finished">>} /\ task_failed' = TRUE
        BY <3>1, <3>4
      <4>. QED  BY <3>2, <3>4, <4>1 DEF States, OpenStates, Results
    <3>5. CASE ~(s = "failed" /\ try'[t] <= Retries[t])
      <4>1. ti' = [ti EXCEPT ![t] = s] /\ resting' = resting
            /\ events' = events \cup {<<t, "finished">>} /\ task_failed' \in BOOLEAN
        BY <3>1, <3>3, <3>5
      <4>. QED  BY <3>2, <3>3, <3>5, <4>1 DEF States, OpenStates, Results
    <3>. QED  BY <3>4, <3>5
  <2>. QED  BY <2>1, <2>2, <2>3
<1>4. ti'[t] = end /\ try'[t] \in {try[t], try[t] + 1} /\ try[t] \in 0..(MaxRetries + 1)
  BY <1>3 DEF IInv, TypeOK
<1>5. TypeOK'
  <2>1. ti' \in [Tasks -> States]
    BY <1>3 DEF IInv, TypeOK
  <2>2. try' \in [Tasks -> 0..(MaxRetries + 1)]
    <3>1. try[t] + 1 \in 0..(MaxRetries + 1)
      BY <1>2, <1>4, GraphFacts DEF TryLeft
    <3>. QED  BY <1>3, <3>1 DEF IInv, TypeOK
  <2>3. events' \subseteq Tasks \X Results /\ resting' \subseteq Tasks /\ queued' \subseteq Tasks
    BY <1>1, <1>3 DEF IInv, TypeOK
  <2>. QED  BY <1>1, <1>3, <2>1, <2>2, <2>3 DEF IInv, TypeOK
<1>6. Phases'
  BY <1>1 DEF IInv, Phases, To_run, Running
<1>7. \A u \in Tasks \ {t} : SameTask(u)
  BY <1>1, <1>3 DEF SameTask, SameStage, IInv, TypeOK, Running
<1>8. Task(t)'
  <2>0. Task(t)
    BY DEF IInv
  <2>n. NoProc(t)'
    BY <1>1, <1>2 DEF NoProc
  <2>1. Staged(t)'
    <3>1. ASSUME t \notin cleared PROVE Told(t)'
      <4>1. Over(t)'
        BY <1>1, <1>2, <1>3, <1>4, <3>1 DEF Over, Closed, Held, Running, OpenStates
      <4>2. <<t, r>> \in events' /\ <<t, r>>[1] = t /\ \A f \in events' : f[1] = t => f = <<t, r>>
        BY <1>2, <1>3, <3>1 DEF NoEvent
      <4>. QED  BY <1>1, <2>n, <4>1, <4>2 DEF Told
    <3>. QED  BY <1>1, <3>1 DEF Staged, Stage
  <2>2. Slot(t)' /\ OneAtWork(t)' /\ Attempt(t)'
    BY <1>1, <2>n DEF Slot, OneAtWork, Attempt, NoProc, AtWork
  <2>3. Left(t)'
    BY <1>1, <1>3, <1>4 DEF Left, TryLeft, Retriable
  <2>4. Read(t)'
    BY <1>1 DEF Read
  <2>5. Success(t)'
    BY <1>1, <1>2, <2>0, <2>n DEF Success, NoProc, Task
  <2>. QED  BY <2>1, <2>2, <2>3, <2>4, <2>5 DEF Task
<1>9. t \notin cleared => ti[t] # "success"
  BY <1>2
<1>10. Sent(t)' => Sent(t)
  BY <1>1 DEF Sent
<1>11. UNCHANGED <<pc, active, executor, status, cleared>>
  BY <1>1
<1>. QED  BY <1>5, <1>6, <1>7, <1>8, <1>9, <1>10, <1>11, OneTask

\* The result that is collected is the only one of its task, and no try of the task is left.
LEMMA ResultStage ==
  ASSUME IInv, NEW e \in events, pc = "events", e[1] \notin cleared
  PROVE  /\ e[1] \in Tasks /\ e[1] \notin queued /\ NoProc(e[1])
         /\ \A f \in events : f[1] = e[1] => f = e
<1>1. e[1] \in Tasks
  BY DEF IInv, TypeOK
<1>2. Stage(e[1])
  BY <1>1 DEF IInv, Task, Staged
<1>3. Told(e[1])
  BY <1>2 DEF Stage, Away, InQueue, Started, NoEvent
<1>. QED  BY <1>1, <1>3 DEF Told

\* A result that is not waited for is ignored.
LEMMA IgnoreEventKeeps == ASSUME IInv, NEW e \in events, IgnoreEvent(e) PROVE IInv'
<1>. USE DEF IgnoreEvent, db, tracking, job, env
<1>1. PICK t \in Tasks : t = e[1]
  BY DEF IInv, TypeOK
<1>2. TypeOK'
  BY DEF IInv, TypeOK
<1>3. To_run' = To_run /\ Running' = Running
  BY DEF To_run, Running
<1>4. Phases'
  BY <1>3 DEF IInv, Phases, Interrupted
<1>5. \A u \in Tasks \ {t} : SameTask(u)
  BY <1>1, <1>3 DEF SameTask, SameStage
<1>6. Task(t)'
  <2>0. Task(t)
    BY DEF IInv
  <2>1. Staged(t)'
    <3>1. ASSUME t \notin cleared PROVE Away(t)'
      <4>1. t \notin queued /\ NoProc(t) /\ \A f \in events : f[1] = t => f = e
        BY <1>1, <3>1, ResultStage
      <4>. QED  BY <4>1 DEF Away, NoProc, NoEvent
    <3>. QED  BY <3>1 DEF Staged, Stage
  <2>2. Slot(t)' /\ OneAtWork(t)' /\ Attempt(t)' /\ Success(t)'
    BY <2>0 DEF Task, Slot, OneAtWork, Attempt, NoProc, Success
  <2>3. Left(t)' /\ Read(t)'
    BY <2>0 DEF Task, Left, TryLeft, Read, Closed
  <2>. QED  BY <2>1, <2>2, <2>3 DEF Task
<1>7. Sent(t)' => Sent(t)
  BY DEF Sent
<1>. QED  BY <1>2, <1>4, <1>5, <1>6, <1>7, OneTask

\* A result of a running task, checked against the state in the database.
LEMMA ManageEventKeeps == ASSUME IInv, NEW e \in events, ManageEvent(e) PROVE IInv'
<1>. USE DEF tracking, env
<1>1. PICK t \in Tasks : t = e[1]
  BY DEF IInv, TypeOK
<1>2. PICK seen, lost :
        /\ seen = (IF mem[t] \in {"running", "queued"} THEN ti[t] ELSE mem[t])
        /\ lost = (e[2] = "finished" /\ seen \in {"running", "queued"})
        /\ pc = "events" /\ events' = events \ {e} /\ waiting' = waiting \ {t}
        /\ mem' = [mem EXCEPT ![t] = IF lost THEN Failure(t, seen) ELSE seen]
        /\ ti' = (IF lost THEN [ti EXCEPT ![t] = Failure(t, seen)] ELSE ti)
        /\ resting' = (IF lost /\ ti'[t] = "up_for_retry" THEN resting \cup {t} ELSE resting)
        /\ ti_status' = (IF e[2] = "upstream_failed" THEN [ti_status EXCEPT !["running"] = @ \ {t}] ELSE ti_status)
        /\ UNCHANGED <<try, dag_run, tracking, queued, procs, task_failed, env, status, active, scan, pc, outcome, closed_early>>
  BY <1>1 DEF ManageEvent
<1>f. Failure(t, seen) \in {"up_for_retry", "failed"} /\ (Failure(t, seen) = "up_for_retry" => TryLeft(t))
  BY GraphFacts DEF Failure, TryNumber, TryLeft, IInv, TypeOK
<1>l. /\ lost => seen = ti[t] /\ ti[t] \in {"running", "queued"}
      /\ mem[t] \in States /\ ti[t] \in States /\ seen \in States
  BY <1>2 DEF IInv, TypeOK
<1>m. /\ mem'[t] = (IF lost THEN Failure(t, seen) ELSE seen)
      /\ ti'[t] = (IF lost THEN Failure(t, seen) ELSE ti[t])
      /\ \A u \in Tasks \ {t} : mem'[u] = mem[u] /\ ti'[u] = ti[u]
  BY <1>2 DEF IInv, TypeOK
<1>3. /\ To_run' = To_run /\ Running' \in {Running, Running \ {t}}
      /\ ti_status' \in [Lists -> SUBSET Tasks]
  BY <1>2 DEF To_run, Running, IInv, TypeOK, Lists
<1>4. TypeOK'
  <2>1. ti' \in [Tasks -> States] /\ mem' \in [Tasks -> States]
    BY <1>2, <1>f, <1>l DEF IInv, TypeOK, States, OpenStates
  <2>2. events' \subseteq Tasks \X Results /\ resting' \subseteq Tasks /\ waiting' \subseteq Tasks
    BY <1>2 DEF IInv, TypeOK
  <2>. QED  BY <1>2, <1>3, <2>1, <2>2 DEF IInv, TypeOK
<1>5. Phases'
  BY <1>2, <1>3 DEF IInv, Phases, Interrupted
<1>6. \A u \in Tasks \ {t} : SameTask(u)
  BY <1>1, <1>2, <1>3, <1>m DEF SameTask, SameStage
<1>7. Task(t)'
  <2>0. Task(t)
    BY DEF IInv
  <2>1. Staged(t)'
    <3>1. ASSUME t \notin cleared PROVE Away(t)'
      <4>1. t \notin queued /\ NoProc(t) /\ \A f \in events : f[1] = t => f = e
        BY <1>1, <1>2, <3>1, ResultStage
      <4>. QED  BY <1>2, <4>1 DEF Away, NoProc, NoEvent
    <3>. QED  BY <1>2, <3>1 DEF Staged, Stage
  <2>2. Slot(t)' /\ OneAtWork(t)' /\ Attempt(t)'
    BY <1>2, <2>0 DEF Task, Slot, OneAtWork, Attempt, NoProc
  <2>3. Left(t)'
    BY <1>2, <1>f, <1>l, <1>m, <2>0 DEF Task, Left, TryLeft, Retriable
  <2>4. Read(t)'
    BY <1>2, <1>f, <1>l, <1>m, <2>0 DEF Task, Read, Closed, OpenStates
  <2>5. Success(t)'
    BY <1>2, <1>f, <1>l, <1>m, <2>0 DEF Task, Success
  <2>. QED  BY <2>1, <2>2, <2>3, <2>4, <2>5 DEF Task
<1>8. ti[t] = "success" => ti'[t] = "success"
  BY <1>l, <1>m
<1>9. Sent(t)' => Sent(t)
  BY <1>2 DEF Sent
<1>10. UNCHANGED <<pc, active, executor, status, cleared>>
  BY <1>2
<1>. QED  BY <1>4, <1>5, <1>6, <1>7, <1>8, <1>9, <1>10, OneTask

-----------------------------------------------------------------------------
(***************************************************************************)
(* The processes of the tries, and a user who clears a task                *)
(***************************************************************************)

\* A process belongs to the task's only try.
LEMMA ProcessStage ==
  ASSUME IInv, NEW t \in Tasks, NEW k \in Tries, procs[t][k] # "none", pc \notin {"done", "crashed"}, t \notin cleared
  PROVE  /\ t \notin queued /\ NoEvent(t) /\ Process(t, k)
         /\ \A i \in Tries \ {k} : procs[t][i] = "none"
<1>1. Stage(t)
  BY DEF IInv, Task, Staged
<1>2. Started(t)
  BY <1>1 DEF Stage, Away, InQueue, Told, NoProc
<1>. QED  BY <1>2 DEF Started

\* A process that is at work holds its task, or the task was flagged after a cleared one.
LEMMA AtWorkStage ==
  ASSUME IInv, NEW t \in Tasks, NEW k \in Tries, procs[t][k] \in AtWork, pc \notin {"done", "crashed"}, t \notin cleared
  PROVE  \/ /\ Held(t) /\ t \notin scan /\ ti[t] \in {"queued", "running"}
            /\ pc = "events" => mem[t] \in OpenStates /\ mem[t] # "none"
            /\ ti[t] = "queued" => procs[t][k] = "launched"
            /\ ti[t] = "running" => procs[t][k] = "running"
         \/ Closed(t) /\ procs[t][k] = "launched"
<1>1. Process(t, k)
  BY ProcessStage DEF AtWork
<1>2. (Held(t) /\ ti[t] = "queued" /\ procs[t][k] = "launched") \/ (Closed(t) /\ procs[t][k] = "launched")
      \/ (Held(t) /\ ti[t] = "running" /\ procs[t][k] = "running")
  BY <1>1 DEF Process, AtWork
<1>3. Held(t) => t \notin scan
  BY DEF Held, IInv, Phases
<1>4. pc = "events" => (mem[t] \notin OpenStates => Closed(t)) /\ (mem[t] = "none" => ti[t] = "none")
  BY DEF IInv, Task, Read, Closed
<1>. QED  BY <1>2, <1>3, <1>4 DEF Closed, OpenStates

\* One process of a task takes a step.
LEMMA OneProc ==
  ASSUME IInv, NEW t \in Tasks, NEW k \in Tries, NEW p \in ProcStates, NEW s \in States, NEW n \in 0..(MaxRetries + 1),
         procs' = [procs EXCEPT ![t][k] = p], ti' = [ti EXCEPT ![t] = s], try' = [try EXCEPT ![t] = n],
         UNCHANGED <<queued, events, waiting, ti_status, status, mem, attempt, scan, pc, outcome, active, executor, cleared>>,
         TypeOK'
  PROVE  /\ procs'[t][k] = p /\ ti'[t] = s /\ try'[t] = n
         /\ \A i \in Tries \ {k} : procs'[t][i] = procs[t][i]
         /\ \A u \in Tasks \ {t} : SameTask(u)
         /\ Running' = Running /\ Phases' /\ (Held(t)' <=> Held(t)) /\ (NoEvent(t)' <=> NoEvent(t))
<1>1. Running' = Running /\ To_run' = To_run
  BY DEF Running, To_run
<1>2. procs'[t][k] = p /\ ti'[t] = s /\ try'[t] = n /\ \A i \in Tries \ {k} : procs'[t][i] = procs[t][i]
  BY DEF IInv, TypeOK
<1>3. \A u \in Tasks \ {t} : SameTask(u)
  BY <1>1 DEF SameTask, SameStage, IInv, TypeOK
<1>4. Phases'
  BY <1>1 DEF IInv, Phases, Interrupted
<1>. QED  BY <1>1, <1>2, <1>3, <1>4 DEF Held, NoEvent

\* One step of the process of a try, given what the process writes.
LEMMA ProcStep ==
  ASSUME IInv, NEW t \in Tasks, NEW k \in Tries, NEW p \in ProcStates, NEW s \in States, NEW n \in 0..(MaxRetries + 1),
         procs' = [procs EXCEPT ![t][k] = p], ti' = [ti EXCEPT ![t] = s], try' = [try EXCEPT ![t] = n],
         UNCHANGED <<queued, events, waiting, ti_status, status, mem, attempt, scan, pc, outcome, active, executor, cleared>>,
         TypeOK',
         procs[t][k] # "none",
         n = try[t] \/ (n = try[t] + 1 /\ procs[t][k] = "launched"),
         p # "launched", p \in AtWork => procs[t][k] \in AtWork,
         t \notin cleared /\ pc \notin {"done", "crashed"} => Process(t, k)',
         t \notin cleared /\ s = "success" => ti[t] = "success" \/ (p # "running" /\ procs[t][k] = "running"),
         t \notin cleared /\ ti[t] = "success" => s = "success" /\ p # "running",
         t \notin cleared => Read(t)'
  PROVE  IInv'
<1>0. Task(t)
  BY DEF IInv
<1>1. /\ procs'[t][k] = p /\ ti'[t] = s /\ try'[t] = n
      /\ \A i \in Tries \ {k} : procs'[t][i] = procs[t][i]
      /\ \A u \in Tasks \ {t} : SameTask(u)
      /\ Running' = Running /\ Phases' /\ (Held(t)' <=> Held(t)) /\ (NoEvent(t)' <=> NoEvent(t))
  BY OneProc
<1>2. executor = "remote"
  BY <1>0 DEF Task, Slot, NoProc, IInv, TypeOK
<1>3. Staged(t)'
  <2>1. ASSUME t \notin cleared, pc \notin {"done", "crashed"} PROVE Started(t)'
    <3>1. t \notin queued /\ NoEvent(t) /\ \A i \in Tries \ {k} : procs[t][i] = "none"
      BY <2>1, ProcessStage
    <3>. QED  BY <1>1, <2>1, <3>1 DEF Started
  <2>. QED  BY <2>1 DEF Staged, Stage
<1>4. \A i \in Tries \ {k} : procs[t][k] = "launched" => procs[t][i] # "launched"
  BY <1>0 DEF Task, Slot
<1>5. Slot(t)'
  BY <1>0, <1>1, <1>2, <1>4 DEF Task, Slot
<1>6. Left(t)'
  BY <1>2 DEF Left
<1>7. OneAtWork(t)'
  BY <1>0, <1>1 DEF Task, OneAtWork
<1>8. Attempt(t)'
  <2>1. \A i \in Tries : procs'[t][i] \in AtWork => procs[t][i] \in AtWork
    BY <1>1
  <2>2. pc = "heartbeat" /\ t \in queued /\ t \notin cleared => FALSE
    BY ProcessStage
  <2>. QED  BY <1>0, <2>1, <2>2 DEF Task, Attempt
<1>9. Success(t)'
  <2>1. ASSUME t \notin cleared, s = "success", NEW i \in Tries PROVE procs'[t][i] # "running"
    <3>1. CASE ti[t] = "success"
      BY <1>0, <1>1, <2>1, <3>1 DEF Task, Success
    <3>2. CASE p # "running" /\ procs[t][k] = "running"
      BY <1>0, <1>1, <2>1, <3>2 DEF Task, OneAtWork, AtWork
    <3>. QED  BY <2>1, <3>1, <3>2
  <2>. QED  BY <1>0, <1>1, <2>1 DEF Task, Success
<1>10. Task(t)'
  BY <1>3, <1>5, <1>6, <1>7, <1>8, <1>9 DEF Task, Read
<1>11. Sent(t)' => Sent(t)
  BY <1>1 DEF Sent
<1>12. t \notin cleared' /\ ti[t] = "success" => ti'[t] = "success"
  BY <1>1
<1>. QED  BY <1>1, <1>10, <1>11, <1>12, OneTask

\* A try's process exits and its result is reported.
LEMMA ProcExitsKeeps == ASSUME IInv, NEW t \in Tasks, NEW k \in Tries, ProcExits(t, k) PROVE IInv'
<1>. USE DEF ProcExits, db, tracking, job, env
<1>1. /\ procs' = [procs EXCEPT ![t][k] = "exited"] /\ ti' = [ti EXCEPT ![t] = ti[t]] /\ try' = [try EXCEPT ![t] = try[t]]
      /\ "exited" \in ProcStates /\ ti[t] \in States /\ try[t] \in 0..(MaxRetries + 1)
  BY DEF IInv, TypeOK, ProcStates
<1>2. TypeOK'
  <2>1. procs' \in [Tasks -> [Tries -> ProcStates]]
    BY <1>1 DEF IInv, TypeOK
  <2>. QED  BY <2>1 DEF IInv, TypeOK
<1>3. t \notin cleared /\ pc \notin {"done", "crashed"} => Process(t, k)'
  <2>1. procs'[t][k] = "exited" /\ (Over(t)' <=> Over(t))
    BY <1>1 DEF Over, Closed, Held, Running, IInv, TypeOK
  <2>. QED  BY <2>1, ProcessStage DEF Process
<1>4. Read(t)'
  BY DEF IInv, Task, Read, Closed
<1>5. t \notin cleared /\ ti[t] = "success" => "exited" # "running"
  OBVIOUS
<1>6. UNCHANGED <<queued, events, waiting, ti_status, status, mem, attempt, scan, pc, outcome, active, executor, cleared>>
      /\ procs[t][k] = "wrote"
  OBVIOUS
<1>. HIDE DEF ProcExits
<1>. QED  BY <1>1, <1>2, <1>3, <1>4, <1>5, <1>6, ProcStep DEF AtWork

\* A try's process dies before it wrote a state.
LEMMA ProcDiesKeeps == ASSUME IInv, NEW t \in Tasks, NEW k \in Tries, ProcDies(t, k) PROVE IInv'
<1>. USE DEF ProcDies, db, tracking, job
<1>1. /\ procs' = [procs EXCEPT ![t][k] = "exited"] /\ ti' = [ti EXCEPT ![t] = ti[t]] /\ try' = [try EXCEPT ![t] = try[t]]
      /\ "exited" \in ProcStates /\ ti[t] \in States /\ try[t] \in 0..(MaxRetries + 1)
  BY DEF IInv, TypeOK, ProcStates
<1>2. TypeOK'
  <2>1. procs' \in [Tasks -> [Tries -> ProcStates]] /\ faults' \in 0..MaxFaults
    BY <1>1, BoundsAssumption DEF IInv, TypeOK
  <2>. QED  BY <2>1 DEF IInv, TypeOK
<1>3. t \notin cleared /\ pc \notin {"done", "crashed"} => Process(t, k)'
  <2>1. procs'[t][k] = "exited" /\ (Over(t)' <=> Over(t))
    BY <1>1 DEF Over, Closed, Held, Running, IInv, TypeOK
  <2>2. procs[t][k] \in AtWork /\ ti'[t] = ti[t]
    BY DEF AtWork
  <2>3. t \notin cleared /\ pc \notin {"done", "crashed"} => Over(t) /\ ti[t] \notin {"none", "scheduled"}
    BY <2>2, AtWorkStage DEF Over, Closed, OpenStates
  <2>. QED  BY <2>1, <2>2, <2>3 DEF Process
<1>4. Read(t)'
  BY DEF IInv, Task, Read, Closed
<1>6. UNCHANGED <<queued, events, waiting, ti_status, status, mem, attempt, scan, pc, outcome, active, executor, cleared>>
      /\ procs[t][k] \in {"launched", "running"}
  OBVIOUS
<1>. HIDE DEF ProcDies
<1>. QED  BY <1>1, <1>2, <1>3, <1>4, <1>6, ProcStep DEF AtWork

\* A try writes the state its task ends with.
LEMMA ProcWritesKeeps == ASSUME IInv, NEW t \in Tasks, NEW k \in Tries, ProcWrites(t, k) PROVE IInv'
<1>. USE DEF tracking, job, env
<1>1. PICK s \in {"success", Failure(t, "running")} \cup (IF t \in Skippable THEN {"skipped"} ELSE {}) :
        /\ ti' = [ti EXCEPT ![t] = s]
        /\ resting' = IF s = "up_for_retry" THEN resting \cup {t} ELSE resting
  BY DEF ProcWrites
<1>2. /\ procs' = [procs EXCEPT ![t][k] = "wrote"] /\ procs[t][k] = "running"
      /\ UNCHANGED <<try, dag_run, tracking, queued, events, task_failed, job, env>>
  BY DEF ProcWrites
<1>3. s \in {"success", "up_for_retry", "failed", "skipped"}
  BY <1>1 DEF Failure
<1>4. /\ "wrote" \in ProcStates /\ s \in States /\ try[t] \in 0..(MaxRetries + 1) /\ try' = [try EXCEPT ![t] = try[t]]
      /\ ti'[t] = s /\ procs'[t][k] = "wrote"
  BY <1>1, <1>2, <1>3 DEF IInv, TypeOK, ProcStates, States, OpenStates
<1>5. TypeOK'
  <2>1. procs' \in [Tasks -> [Tries -> ProcStates]] /\ resting' \subseteq Tasks /\ ti' \in [Tasks -> States]
    BY <1>1, <1>2, <1>4 DEF IInv, TypeOK
  <2>. QED  BY <1>2, <2>1 DEF IInv, TypeOK
<1>6. ASSUME t \notin cleared, pc \notin {"done", "crashed"} PROVE Process(t, k)' /\ Read(t)'
  <2>1. /\ Held(t) /\ t \notin scan
        /\ pc = "events" => mem[t] \in OpenStates /\ mem[t] # "none"
    BY <1>2, <1>6, AtWorkStage DEF AtWork
  <2>2. Over(t)'
    BY <1>2, <1>3, <1>4, <2>1 DEF Over, Closed, Held, Running, OpenStates
  <2>. QED  BY <1>2, <1>3, <1>4, <2>1, <2>2 DEF Process, Read
<1>7. t \notin cleared => Read(t)'
  BY <1>2, <1>6 DEF Read
<1>8. t \notin cleared => ti[t] # "success"
  BY <1>2 DEF IInv, Task, Success
<1>. QED  BY <1>1, <1>2, <1>4, <1>5, <1>6, <1>7, <1>8, ProcStep DEF AtWork

\* A try gives up because the pool or concurrency limit is met.
LEMMA ProcMeetsLimitKeeps == ASSUME IInv, NEW t \in Tasks, NEW k \in Tries, ProcMeetsLimit(t, k) PROVE IInv'
<1>. USE DEF ProcMeetsLimit, tracking, job
<1>1. /\ procs' = [procs EXCEPT ![t][k] = "wrote"] /\ ti' = [ti EXCEPT ![t] = "none"] /\ try' = [try EXCEPT ![t] = try[t]]
      /\ "wrote" \in ProcStates /\ "none" \in States /\ try[t] \in 0..(MaxRetries + 1)
      /\ ti'[t] = "none" /\ procs'[t][k] = "wrote"
  BY DEF IInv, TypeOK, ProcStates, States, OpenStates
<1>2. TypeOK'
  <2>1. procs' \in [Tasks -> [Tries -> ProcStates]] /\ faults' \in 0..MaxFaults /\ ti' \in [Tasks -> States]
    BY <1>1, BoundsAssumption DEF IInv, TypeOK
  <2>. QED  BY <2>1 DEF IInv, TypeOK
<1>3. UNCHANGED <<queued, events, waiting, ti_status, status, mem, attempt, scan, pc, outcome, active, executor, cleared, try>>
      /\ procs[t][k] = "launched" /\ ti[t] = "queued"
  OBVIOUS
<1>4. ASSUME t \notin cleared, pc \notin {"done", "crashed"} PROVE Process(t, k)' /\ Read(t)'
  <2>1. /\ Held(t) /\ t \notin scan
        /\ pc = "events" => mem[t] \in OpenStates /\ mem[t] # "none"
    BY <1>3, <1>4, AtWorkStage DEF AtWork, Closed, OpenStates
  <2>2. Over(t)'
    BY <1>1, <1>3, <2>1 DEF Over, Held, Running
  <2>3. k = try[t] + 1
    BY <1>3 DEF IInv, Task, Slot
  <2>. QED  BY <1>1, <1>3, <2>1, <2>2, <2>3 DEF Process, Read
<1>5. t \notin cleared => Read(t)'
  BY <1>3, <1>4 DEF Read
<1>. HIDE DEF ProcMeetsLimit
<1>. QED  BY <1>1, <1>2, <1>3, <1>4, <1>5, ProcStep DEF AtWork

\* A try begins: its number is counted and its task is running.
LEMMA ProcBootsKeeps == ASSUME IInv, NEW t \in Tasks, NEW k \in Tries, ProcBoots(t, k) PROVE IInv'
<1>. USE DEF tracking, job, env
<1>1. procs[t][k] = "launched" /\ UNCHANGED <<resting, dag_run, tracking, queued, events, task_failed, job, env>>
  BY DEF ProcBoots
<1>2. k = try[t] + 1
  BY <1>1 DEF IInv, Task, Slot
<1>3. CASE ti[t] \in {"queued", "up_for_retry", "none"}
  <2>1. /\ procs' = [procs EXCEPT ![t][k] = "running"] /\ ti' = [ti EXCEPT ![t] = "running"]
        /\ try' = [try EXCEPT ![t] = try[t] + 1]
    BY <1>3 DEF ProcBoots
  <2>2. /\ "running" \in ProcStates /\ "running" \in States /\ try[t] + 1 \in 0..(MaxRetries + 1)
        /\ ti'[t] = "running" /\ procs'[t][k] = "running" /\ try'[t] = try[t] + 1
    BY <1>2, <2>1, GraphFacts DEF IInv, TypeOK, ProcStates, States, OpenStates
  <2>3. TypeOK'
    <3>1. /\ procs' \in [Tasks -> [Tries -> ProcStates]] /\ ti' \in [Tasks -> States]
          /\ try' \in [Tasks -> 0..(MaxRetries + 1)]
      BY <2>1, <2>2 DEF IInv, TypeOK
    <3>. QED  BY <1>1, <3>1 DEF IInv, TypeOK
  <2>4. ASSUME t \notin cleared, pc \notin {"done", "crashed"} PROVE Process(t, k)' /\ Read(t)'
    <3>1. /\ Held(t) /\ t \notin scan
          /\ pc = "events" => mem[t] \in OpenStates /\ mem[t] # "none"
      BY <1>1, <1>3, <2>4, AtWorkStage DEF AtWork, Closed, OpenStates
    <3>. QED  BY <1>1, <1>2, <2>2, <3>1 DEF Process, Read, Held, Running
  <2>5. t \notin cleared => Read(t)'
    BY <1>1, <2>4 DEF Read
  <2>. QED  BY <1>1, <1>3, <2>1, <2>2, <2>3, <2>4, <2>5, ProcStep DEF AtWork
<1>4. CASE ti[t] \notin {"queued", "up_for_retry", "none"}
  <2>1. /\ procs' = [procs EXCEPT ![t][k] = "wrote"] /\ UNCHANGED <<ti, try>>
    BY <1>4 DEF ProcBoots
  <2>2. /\ "wrote" \in ProcStates /\ ti[t] \in States /\ try[t] \in 0..(MaxRetries + 1)
        /\ ti' = [ti EXCEPT ![t] = ti[t]] /\ procs'[t][k] = "wrote" /\ try' = [try EXCEPT ![t] = try[t]]
    BY <2>1 DEF IInv, TypeOK, ProcStates
  <2>3. TypeOK'
    <3>1. procs' \in [Tasks -> [Tries -> ProcStates]]
      BY <2>1, <2>2 DEF IInv, TypeOK
    <3>. QED  BY <1>1, <2>1, <3>1 DEF IInv, TypeOK
  <2>4. t \notin cleared /\ pc \notin {"done", "crashed"} => Process(t, k)'
    <3>1. t \notin cleared /\ pc \notin {"done", "crashed"} => Closed(t)
      BY <1>1, <1>4, AtWorkStage DEF AtWork
    <3>. QED  BY <2>1, <2>2, <3>1 DEF Process, Over, Closed, OpenStates
  <2>5. Read(t)'
    BY <1>1, <2>1 DEF IInv, Task, Read, Closed
  <2>6. /\ "wrote" \notin AtWork /\ procs[t][k] # "none"
        /\ UNCHANGED <<queued, events, waiting, ti_status, status, mem, attempt, scan, pc, outcome, active, executor, cleared>>
    BY <1>1 DEF AtWork
  <2>. QED  BY <2>1, <2>2, <2>3, <2>4, <2>5, <2>6, ProcStep
<1>. QED  BY <1>3, <1>4

\* A user clears a task that waits for its retry.
LEMMA ClearKeeps == ASSUME IInv, NEW t \in Tasks, Clear(t) PROVE IInv'
<1>. USE DEF Clear, tracking, exec, job
<1>1. TypeOK'
  <2>1. ti' \in [Tasks -> States] /\ cleared' \subseteq Tasks /\ faults' \in 0..MaxFaults
    BY BoundsAssumption DEF IInv, TypeOK, States, OpenStates
  <2>. QED  BY <2>1 DEF IInv, TypeOK
<1>2. To_run' = To_run /\ Running' = Running
  BY DEF To_run, Running
<1>3. Phases'
  BY <1>2 DEF IInv, Phases, Interrupted
<1>4. \A u \in Tasks \ {t} : SameTask(u)
  BY <1>2 DEF SameTask, SameStage, IInv, TypeOK
<1>5. Task(t)'
  <2>0. Task(t) /\ t \in cleared'
    BY DEF IInv
  <2>1. Staged(t)' /\ Read(t)' /\ Success(t)' /\ Attempt(t)' /\ OneAtWork(t)'
    BY <2>0 DEF Staged, Read, Success, Attempt, OneAtWork
  <2>2. Slot(t)'
    BY <2>0 DEF Task, Slot, NoProc
  <2>3. Left(t)'
    BY <2>0 DEF Task, Left, TryLeft, Retriable
  <2>. QED  BY <2>1, <2>2, <2>3 DEF Task
<1>6. Sent(t)' => Sent(t)
  BY DEF Sent
<1>7. UNCHANGED <<pc, active, executor, status>> /\ cleared \subseteq cleared' /\ t \in cleared'
  OBVIOUS
<1>. HIDE DEF Clear
<1>. QED  BY <1>1, <1>3, <1>4, <1>5, <1>6, <1>7, OneTask

-----------------------------------------------------------------------------
(***************************************************************************)
(* Steps that concern every task                                           *)
(***************************************************************************)

\* What was sent is not sent anew, and tasks that succeeded stay so.
LEMMA UpstreamsKept ==
  ASSUME IInv, cleared' = cleared, status' = status \/ status' = ti,
         \A t \in Tasks : Sent(t)' => Sent(t),
         \A u \in Tasks \ cleared : ti[u] = "success" => ti'[u] = "success"
  PROVE  Upstreams'
<1>. SUFFICES ASSUME NEW t \in Tasks, NEW u \in Upstream[t] \ cleared, Sent(t)'
              PROVE  ti'[u] = "success" /\ status'[u] = "success"
  BY DEF Upstreams
<1>1. u \in Tasks
  BY GraphFacts
<1>2. ti[u] = "success" /\ status[u] = "success"
  BY DEF IInv, Upstreams
<1>. QED  BY <1>1, <1>2

\* The job makes the task instances and its list of tasks to run.
LEMMA StartKeeps == ASSUME IInv, Start PROVE IInv'
<1>. USE DEF Start, tracking, exec, env
<1>1. \A t \in Tasks : ti'[t] = IF ti[t] = "none" THEN "scheduled" ELSE ti[t]
  OBVIOUS
<1>2. TypeOK'
  <2>1. ti' \in [Tasks -> States] /\ ti_status' \in [Lists -> SUBSET Tasks]
    BY DEF IInv, TypeOK, States, OpenStates, Lists
  <2>. QED  BY <2>1 DEF IInv, TypeOK
<1>3. Running' = Running /\ Running = {} /\ To_run' = Tasks
  BY DEF IInv, TypeOK, Phases, Lists, Running, To_run
<1>4. Phases'
  BY <1>3 DEF IInv, Phases, Interrupted
<1>5. ASSUME NEW t \in Tasks PROVE Task(t)'
  <2>0. Task(t)
    BY DEF IInv
  <2>1. Staged(t)'
    <3>1. ASSUME t \notin cleared, ti[t] # "none" PROVE Stage(t)'
      <4>1. SameStage(t)
        BY <1>1, <1>3, <3>1 DEF SameStage
      <4>. QED  BY <2>0, <3>1, <4>1, StageKept DEF Task, Staged
    <3>2. ASSUME t \notin cleared, ti[t] = "none" PROVE Stage(t)'
      <4>1. ~Held(t) /\ ~Closed(t) /\ events = {} /\ ~Over(t)
        BY <1>3, <3>2 DEF Held, Closed, OpenStates, IInv, Phases, Interrupted, Over
      <4>2. Away(t)
        BY <2>0, <3>2, <4>1 DEF Task, Staged, Stage, InQueue, Started, Process, Told
      <4>. QED  BY <4>2 DEF Away, NoProc, NoEvent, Stage
    <3>. QED  BY <3>1, <3>2 DEF Staged
  <2>2. Slot(t)' /\ OneAtWork(t)' /\ Attempt(t)'
    BY <2>0 DEF Task, Slot, OneAtWork, Attempt, NoProc
  <2>3. Left(t)'
    BY <1>1, <2>0 DEF Task, Left, TryLeft, Retriable
  <2>4. Read(t)'
    BY DEF Read
  <2>5. Success(t)'
    BY <1>1, <2>0 DEF Task, Success
  <2>. QED  BY <2>1, <2>2, <2>3, <2>4, <2>5 DEF Task
<1>6. Upstreams'
  BY <1>1, UpstreamsKept DEF Sent
<1>. QED  BY <1>2, <1>4, <1>5, <1>6 DEF IInv

\* The executor's heartbeat launches the queued tries.
LEMMA HeartbeatKeeps == ASSUME IInv, Heartbeat PROVE IInv'
<1>. USE DEF Heartbeat, db, tracking, env
<1>1. \A t \in Tasks : \A k \in Tries : procs'[t][k] =
        IF procs[t][k] = "exited" THEN "none"
        ELSE IF t \in queued /\ k = try[t] + 1 THEN "launched" ELSE procs[t][k]
  OBVIOUS
<1>2. events = {} /\ events' = {<<t, "finished">> : t \in {u \in Tasks : \E k \in Tries : procs[u][k] = "exited"}}
  BY DEF IInv, Phases
<1>3. TypeOK'
  <2>1. procs' \in [Tasks -> [Tries -> ProcStates]]
    BY DEF IInv, TypeOK, ProcStates
  <2>2. events' \subseteq Tasks \X Results
    BY <1>2 DEF Results
  <2>. QED  BY <2>1, <2>2 DEF IInv, TypeOK
<1>4. Running' = Running /\ To_run' = To_run
  BY DEF Running, To_run
<1>5. Phases'
  BY <1>4 DEF IInv, Phases
<1>6. ASSUME NEW t \in Tasks PROVE Task(t)'
  <2>0. Task(t)
    BY DEF IInv
  <2>1. (Held(t)' <=> Held(t)) /\ (Closed(t)' <=> Closed(t)) /\ (Over(t)' <=> Over(t))
    BY <1>4 DEF Held, Closed, Over
  <2>2. (\A k \in Tries : procs[t][k] # "exited") => NoEvent(t)'
    BY <1>2 DEF NoEvent
  <2>3. Staged(t)'
    <3>1. ASSUME t \notin cleared, Away(t) PROVE Away(t)'
      BY <1>1, <2>2, <3>1 DEF Away, NoProc
    <3>2. ASSUME t \notin cleared, InQueue(t) PROVE Stage(t)'
      <4>1. NoEvent(t)' /\ t \notin queued'
        BY <2>2, <3>2 DEF InQueue, NoProc
      <4>2. CASE try[t] + 1 \in Tries
        <5>1. procs'[t][try[t] + 1] = "launched" /\ \A i \in Tries \ {try[t] + 1} : procs'[t][i] = "none"
          BY <1>1, <3>2, <4>2 DEF InQueue, NoProc
        <5>2. Process(t, try[t] + 1)'
          BY <2>1, <3>2, <5>1 DEF Process, InQueue
        <5>. QED  BY <4>1, <4>2, <5>1, <5>2 DEF Stage, Started
      <4>3. CASE try[t] + 1 \notin Tries
        <5>1. NoProc(t)'
          BY <1>1, <3>2, <4>3 DEF InQueue, NoProc
        <5>. QED  BY <4>1, <5>1 DEF Stage, Away
      <4>. QED  BY <4>2, <4>3
    <3>3. ASSUME t \notin cleared, Started(t) PROVE Stage(t)'
      <4>1. PICK k \in Tries : Process(t, k) /\ \A i \in Tries \ {k} : procs[t][i] = "none"
        BY <3>3 DEF Started
      <4>2. t \notin queued
        BY <3>3 DEF Started
      <4>3. CASE procs[t][k] = "exited"
        <5>1. NoProc(t)'
          BY <1>1, <4>1, <4>2, <4>3 DEF NoProc
        <5>2. <<t, "finished">> \in events' /\ \A f \in events' : f[1] = t => f = <<t, "finished">>
          BY <1>2, <4>3
        <5>3. Over(t)
          BY <4>1, <4>3 DEF Process
        <5>. QED  BY <2>1, <5>1, <5>2, <5>3 DEF Stage, Told
      <4>4. CASE procs[t][k] # "exited"
        <5>1. \A i \in Tries : procs[t][i] # "exited" /\ procs'[t][i] = procs[t][i]
          BY <1>1, <4>1, <4>2, <4>4
        <5>2. Process(t, k)'
          BY <2>1, <4>1, <5>1 DEF Process
        <5>. QED  BY <2>2, <4>1, <5>1, <5>2 DEF Stage, Started
      <4>. QED  BY <4>3, <4>4
    <3>4. ~Told(t)
      BY <1>2 DEF Told
    <3>. QED  BY <2>0, <3>1, <3>2, <3>3, <3>4 DEF Task, Staged, Stage
  <2>4. Slot(t)'
    BY <1>1, <2>0 DEF Task, Slot
  <2>5. Left(t)' /\ Read(t)'
    BY DEF Left, Read
  <2>6. Success(t)'
    BY <1>1, <2>0 DEF Task, Success
  <2>7. Attempt(t)'
    BY <1>1, <2>0 DEF Task, Attempt, AtWork
  <2>8. OneAtWork(t)'
    <3>1. t \in queued /\ t \notin cleared => NoProc(t)
      BY <2>0 DEF Task, Staged, Stage, Away, InQueue, Started, Told
    <3>2. t \in queued /\ t \notin cleared => \A k \in Tries : procs'[t][k] \in AtWork => k = try[t] + 1
      BY <1>1, <3>1 DEF NoProc, AtWork
    <3>3. t \notin queued => \A k \in Tries : procs'[t][k] \in AtWork => procs[t][k] \in AtWork
      BY <1>1 DEF AtWork
    <3>. QED  BY <2>0, <3>2, <3>3 DEF Task, OneAtWork
  <2>. QED  BY <2>3, <2>4, <2>5, <2>6, <2>7, <2>8 DEF Task
<1>7. Upstreams'
  <2>1. \A t \in Tasks : Sent(t)' => Sent(t)
    BY <1>1 DEF Sent
  <2>. QED  BY <2>1, UpstreamsKept
<1>. QED  BY <1>3, <1>5, <1>6, <1>7 DEF IInv

\* _update_counters moves each running task to the list of the state it reads.
LEMMA UpdateCountersKeeps == ASSUME IInv, UpdateCounters PROVE IInv'
<1>. USE DEF tracking, exec, env
<1>1. /\ pc = "events" /\ events = {} /\ pc' = "state" /\ queued = {}
      /\ UNCHANGED <<try, resting, dag_run, tracking, exec, env, status, waiting, active, scan, outcome, closed_early>>
  BY DEF UpdateCounters, IInv, Phases, Interrupted
<1>2. \A t \in Tasks : /\ ti'[t] = (IF t \in Running /\ mem[t] = "none" THEN "scheduled" ELSE ti[t])
                       /\ t \in Running /\ mem[t] = "none" /\ t \notin cleared => ti[t] = "none"
  BY <1>1 DEF UpdateCounters, Running, IInv, Task, Read
<1>3. /\ ti_status' \in [Lists -> SUBSET Tasks]
      /\ To_run' = To_run \cup {t \in Running : Back(t)}
      /\ Running' = Running \ {t \in Running : mem[t] \in {"success", "skipped", "failed"} \/ Back(t)}
  BY DEF UpdateCounters, IInv, TypeOK, Lists, To_run, Running
<1>4. TypeOK'
  <2>1. ti' \in [Tasks -> States] /\ mem' \in [Tasks -> States]
    BY DEF UpdateCounters, IInv, TypeOK, States, OpenStates
  <2>. QED  BY <1>1, <1>3, <2>1 DEF IInv, TypeOK
<1>5. Phases'
  BY <1>1, <1>3 DEF IInv, Phases
<1>6. ASSUME NEW t \in Tasks PROVE Task(t)'
  <2>0. Task(t)
    BY DEF IInv
  <2>1. Staged(t)'
    <3>1. ASSUME t \notin cleared, Started(t) PROVE Started(t)'
      <4>1. PICK k \in Tries : Process(t, k) /\ \A i \in Tries \ {k} : procs[t][i] = "none"
        BY <3>1 DEF Started
      <4>2. (mem[t] \notin OpenStates => Closed(t)) /\ (mem[t] = "none" => ti[t] = "none")
        BY <1>1, <2>0, <3>1 DEF Task, Read, Closed
      <4>3. Closed(t) => Closed(t)' /\ ti'[t] = ti[t]
        BY <1>2, <4>2 DEF Closed, OpenStates
      <4>4. Held(t) /\ ~Closed(t) /\ mem[t] # "none" => Held(t)' /\ ti'[t] = ti[t]
        BY <1>1, <1>2, <1>3, <4>2 DEF Held, Back, OpenStates
      <4>5. Held(t) /\ mem[t] = "none" => t \notin Running' /\ ti'[t] = "scheduled"
        BY <1>1, <1>2, <1>3, <4>2 DEF Held, Back
      <4>6. ti[t] = "scheduled" /\ t \notin Running => ti'[t] = "scheduled" /\ t \notin Running'
        BY <1>2, <1>3
      <4>7. Over(t) => Over(t)'
        BY <4>2, <4>3, <4>4, <4>5, <4>6 DEF Over
      <4>8. Process(t, k)'
        <5>1. CASE procs[t][k] = "launched"
          BY <1>1, <4>1, <4>2, <4>3, <4>4, <5>1 DEF Process, Closed, OpenStates
        <5>2. CASE procs[t][k] = "running"
          BY <1>1, <4>1, <4>2, <4>4, <5>2 DEF Process, Closed, OpenStates
        <5>3. CASE procs[t][k] \in {"wrote", "exited"}
          <6>1. ti'[t] \in {"none", "scheduled"} => ti[t] \in {"none", "scheduled"}
            BY <1>2, <4>2
          <6>. QED  BY <1>1, <4>1, <4>7, <5>3, <6>1 DEF Process
        <5>. QED  BY <4>1, <5>1, <5>2, <5>3 DEF Process
      <4>. QED  BY <1>1, <3>1, <4>1, <4>8 DEF Started, NoEvent
    <3>2. Away(t) => Away(t)'
      BY <1>1 DEF Away, NoProc, NoEvent
    <3>3. ~InQueue(t) /\ ~Told(t)
      BY <1>1 DEF InQueue, Told
    <3>. QED  BY <1>1, <2>0, <3>1, <3>2, <3>3 DEF Task, Staged, Stage
  <2>2. Slot(t)' /\ OneAtWork(t)' /\ Attempt(t)'
    BY <1>1, <2>0 DEF Task, Slot, OneAtWork, Attempt, NoProc
  <2>3. Left(t)'
    BY <1>1, <1>2, <2>0 DEF Task, Left, TryLeft, Retriable
  <2>4. Read(t)'
    BY <1>1 DEF Read
  <2>5. Success(t)'
    BY <1>1, <1>2, <2>0 DEF Task, Success
  <2>. QED  BY <2>1, <2>2, <2>3, <2>4, <2>5 DEF Task
<1>7. Upstreams'
  <2>1. \A t \in Tasks : Sent(t)' => Sent(t)
    BY <1>1 DEF Sent
  <2>2. \A u \in Tasks \ cleared : ti[u] = "success" => ti'[u] = "success"
    BY <1>2
  <2>. QED  BY <1>1, <2>1, <2>2, UpstreamsKept
<1>. QED  BY <1>4, <1>5, <1>6, <1>7 DEF IInv

\* Airflow flags a task that was sent only after an upstream task that was cleared.
LEMMA UpdateStateKeeps == ASSUME IInv, UpdateState PROVE IInv'
<1>. USE DEF tracking, exec, env
<1>1. /\ pc = "state" /\ pc' = "databand" /\ queued = {} /\ events = {} /\ scan = {}
      /\ UNCHANGED <<try, resting, tracking, exec, env, status, mem, ti_status, waiting, active, scan, outcome>>
  BY DEF UpdateState, IInv, Phases, Interrupted
<1>2. PICK flagged \in SUBSET Tasks :
        /\ \A t \in flagged : ti[t] \in Runnable /\ Trigger(t) \in {"upstream_failed", "skipped"}
        /\ ti' \in [Tasks -> States]
        /\ \A t \in Tasks : ti'[t] = IF t \in flagged THEN Trigger(t) ELSE ti[t]
        /\ dag_run' \in {"running", "failed", "success"} /\ closed_early' \in BOOLEAN
  <2>1. CASE active
    <3>1. PICK flagged \in SUBSET Flaggable, d \in {"running", "failed", "success"} :
            /\ AirflowState(flagged, ti', d)
            /\ dag_run' = d
            /\ closed_early' = (d # "running" /\ \E t \in Tasks : ti[t] \in OpenStates)
      BY <2>1 DEF UpdateState
    <3>2. /\ \A t \in flagged : ti[t] \in Runnable /\ Trigger(t) \in {"upstream_failed", "skipped"}
          /\ ti' = [t \in Tasks |-> IF t \in flagged THEN Trigger(t) ELSE ti[t]]
      BY <3>1 DEF AirflowState, Flaggable
    <3>3. ti' \in [Tasks -> States]
      BY <3>2 DEF IInv, TypeOK, States
    <3>4. flagged \in SUBSET Tasks /\ closed_early' \in BOOLEAN
      BY <3>1 DEF Flaggable
    <3>. QED  BY <2>1, <3>1, <3>2, <3>3, <3>4
  <2>2. CASE ~active
    <3>1. UNCHANGED <<ti, dag_run, closed_early>>
      BY <2>2 DEF UpdateState
    <3>2. {} \in SUBSET Tasks
      OBVIOUS
    <3>. QED  BY <3>1, <3>2 DEF IInv, TypeOK
  <2>. QED  BY <2>1, <2>2
<1>3. TypeOK'
  BY <1>1, <1>2 DEF IInv, TypeOK
<1>4. Running' = Running /\ To_run' = To_run
  BY <1>1 DEF Running, To_run
<1>5. Phases'
  BY <1>1, <1>4 DEF IInv, Phases, Interrupted
<1>6. \A t \in Tasks : t \in flagged => ti'[t] = Trigger(t) /\ Closed(t)' /\ ti'[t] # "success"
  BY <1>2 DEF Closed, OpenStates
<1>7. ASSUME NEW t \in Tasks PROVE Task(t)'
  <2>0. Task(t)
    BY DEF IInv
  <2>1. ASSUME t \in flagged, t \notin cleared PROVE Stage(t)'
    <3>1. ASSUME Started(t) PROVE Started(t)'
      <4>1. PICK k \in Tries : Process(t, k) /\ \A i \in Tries \ {k} : procs[t][i] = "none"
        BY <3>1 DEF Started
      <4>2. Over(t)'
        BY <1>6, <2>1 DEF Over
      <4>3. ti'[t] \notin {"none", "scheduled"} /\ procs'[t][k] = procs[t][k] /\ try'[t] = try[t]
        BY <1>1, <1>2, <2>1
      <4>4. procs[t][k] # "running"
        BY <1>2, <2>1, <4>1 DEF Process, Runnable
      <4>5. ASSUME procs[t][k] = "launched" PROVE Upstream[t] \cap cleared # {}
        <5>1. PICK u \in Upstream[t] : status[u] # "success"
          BY <1>2, <2>1 DEF Trigger, FailedStates
        <5>2. u \in cleared
          BY <4>5, <5>1 DEF IInv, Upstreams, Sent
        <5>. QED  BY <5>1, <5>2
      <4>6. Process(t, k)'
        BY <1>1, <1>6, <2>1, <4>1, <4>2, <4>3, <4>4, <4>5 DEF Process
      <4>. QED  BY <1>1, <3>1, <4>1, <4>6 DEF Started, NoEvent
    <3>2. Away(t) => Away(t)'
      BY <1>1 DEF Away, NoProc, NoEvent
    <3>3. ~InQueue(t) /\ ~Told(t)
      BY <1>1 DEF InQueue, Told
    <3>. QED  BY <1>1, <2>0, <2>1, <3>1, <3>2, <3>3 DEF Task, Staged, Stage
  <2>2. ASSUME t \notin flagged, t \notin cleared PROVE Stage(t)'
    <3>1. SameStage(t)
      BY <1>1, <1>2, <1>4, <2>2 DEF SameStage
    <3>. QED  BY <1>1, <2>0, <2>2, <3>1, StageKept DEF Task, Staged
  <2>3. Staged(t)'
    BY <1>1, <2>1, <2>2 DEF Staged
  <2>4. Slot(t)' /\ OneAtWork(t)'
    BY <1>1, <2>0 DEF Task, Slot, OneAtWork, NoProc
  <2>5. Attempt(t)'
    BY <1>1, <1>2, <2>0 DEF Task, Attempt
  <2>6. Left(t)'
    BY <1>1, <1>2, <2>0 DEF Task, Left, TryLeft, Retriable
  <2>7. Read(t)'
    BY <1>1 DEF Read
  <2>8. Success(t)'
    BY <1>1, <1>2, <2>0 DEF Task, Success, Runnable
  <2>. QED  BY <2>3, <2>4, <2>5, <2>6, <2>7, <2>8 DEF Task
<1>8. Upstreams'
  <2>1. \A t \in Tasks : Sent(t)' => Sent(t)
    BY <1>1 DEF Sent
  <2>2. \A u \in Tasks \ cleared : ti[u] = "success" => ti'[u] = "success"
    BY <1>2 DEF Runnable
  <2>. QED  BY <1>1, <2>1, <2>2, UpstreamsKept
<1>. QED  BY <1>3, <1>5, <1>7, <1>8 DEF IInv

\* Databand hears of the task instances.
LEMMA UpdateDatabandKeeps == ASSUME IInv, UpdateDataband PROVE IInv'
<1>. USE DEF UpdateDataband, db, exec, env
<1>1. To_run' = To_run /\ Running' = Running
  BY DEF To_run, Running
<1>2. task_run_state' \in [Tasks -> {"open", "success", "failed", "upstream_failed"}]
  <2>1. \A before \in BOOLEAN :
          TaskRunStates(ti, before) \in [Tasks -> {"open", "success", "failed", "upstream_failed"}]
    BY DEF TaskRunStates, IInv, TypeOK
  <2>. QED  BY <2>1 DEF IInv, TypeOK
<1>3. active' \in BOOLEAN /\ (active' => active) /\ pc' \in {"top", "finally"} /\ outcome' \in {outcome, "error"}
  BY DEF IInv, TypeOK
<1>4. TypeOK'
  BY <1>2, <1>3 DEF IInv, TypeOK
<1>5. Phases'
  BY <1>1, <1>3 DEF IInv, Phases, Interrupted
<1>6. ASSUME NEW t \in Tasks PROVE Left(t)' /\ Read(t)' /\ Attempt(t)'
  <2>0. Task(t)
    BY DEF IInv
  <2>1. Left(t)'
    BY <2>0 DEF Task, Left, TryLeft
  <2>2. Read(t)'
    BY <1>3 DEF Read
  <2>3. Attempt(t)'
    BY <1>3, <2>0 DEF Task, Attempt
  <2>. QED  BY <2>1, <2>2, <2>3
<1>. QED  BY <1>1, <1>4, <1>5, <1>6, Still

\* A job that has ended knows nothing any more of lists and states.
LEMMA Forgotten ==
  ASSUME Forget
  PROVE  /\ ti_status' \in [Lists -> SUBSET Tasks] /\ To_run' = {} /\ Running' = {}
         /\ waiting' = {} /\ scan' = {} /\ status' = ti' /\ mem' = ti'
BY DEF Forget, To_run, Running, Lists

\* An exception leaves the loop: only an in-process batch that it interrupts is kept.
LEMMA JobRaisesKeeps == ASSUME IInv, JobRaises PROVE IInv'
<1>. USE DEF JobRaises, db, tracking, env
<1>0. /\ To_run' = {} /\ Running' = {} /\ ti_status' \in [Lists -> SUBSET Tasks]
      /\ waiting' = {} /\ scan' = {} /\ status' = ti /\ mem' = ti
  BY Forgotten
<1>1. pc' = "finally" /\ outcome' = "raised" /\ pc \notin {"finally", "clean", "done", "crashed"}
  OBVIOUS
<1>2. \/ queued' = queued /\ events' = events /\ executor = "in_process"
      \/ queued' = {} /\ events' = {}
  OBVIOUS
<1>3. TypeOK'
  BY <1>0, <1>1, <1>2 DEF IInv, TypeOK
<1>4. Phases'
  BY <1>0, <1>1, <1>2 DEF Phases, Interrupted
<1>5. ASSUME NEW t \in Tasks PROVE Task(t)'
  <2>0. Task(t)
    BY DEF IInv
  <2>1. ASSUME t \notin cleared PROVE Stage(t)'
    <3>1. Held(t)' /\ (NoProc(t) => NoProc(t)') /\ (NoEvent(t) => NoEvent(t)') /\ (Over(t) => Over(t)')
      BY <1>0, <1>1, <1>2 DEF Held, NoProc, NoEvent, Over, Closed
    <3>2. Stage(t)
      BY <1>1, <2>0, <2>1 DEF Task, Staged
    <3>3. Away(t) => Away(t)'
      BY <1>2, <3>1 DEF Away
    <3>4. InQueue(t) => Stage(t)'
      BY <1>2, <3>1 DEF InQueue, Stage, Away, NoEvent
    <3>5. \A k \in Tries : Process(t, k) => Process(t, k)'
      BY <3>1 DEF Process, Closed
    <3>6. Started(t) => Started(t)'
      BY <1>2, <3>1, <3>5 DEF Started
    <3>7. Told(t) => Stage(t)'
      BY <1>2, <3>1 DEF Told, Stage, Away, NoEvent
    <3>. QED  BY <3>2, <3>3, <3>4, <3>6, <3>7 DEF Stage
  <2>2. Staged(t)'
    BY <2>1 DEF Staged
  <2>3. Slot(t)' /\ OneAtWork(t)'
    BY <2>0 DEF Task, Slot, OneAtWork, NoProc
  <2>4. Left(t)' /\ Read(t)' /\ Attempt(t)'
    BY <1>1, <1>2, <2>0 DEF Task, Left, TryLeft, Read, Attempt
  <2>5. Success(t)'
    BY <1>0, <2>0 DEF Task, Success
  <2>. QED  BY <2>2, <2>3, <2>4, <2>5 DEF Task
<1>6. Upstreams'
  <2>1. \A t \in Tasks : Sent(t)' => Sent(t)
    BY <1>2 DEF Sent
  <2>. QED  BY <1>0, <2>1 DEF IInv, Upstreams
<1>. QED  BY <1>3, <1>4, <1>5, <1>6 DEF IInv

\* What executor.end marks: nothing, unless an in-process batch was interrupted.
LEMMA MarkedFacts ==
  ASSUME IInv, pc = "finally", NEW marked \in Marked
  PROVE  marked \subseteq Tasks /\ (marked # {} => executor = "in_process" /\ outcome = "raised")
<1>1. CASE Interrupted
  <2>1. \A e \in events : e[1] \in Tasks
    BY DEF IInv, TypeOK
  <2>2. queued \subseteq Tasks
    BY DEF IInv, TypeOK
  <2>. QED  BY <1>1, <2>1, <2>2 DEF Marked, Interrupted
<1>2. CASE ~Interrupted
  <2>1. queued = {} /\ events = {}
    BY <1>2 DEF IInv, Phases
  <2>. QED  BY <2>1 DEF Marked
<1>. QED  BY <1>1, <1>2

\* The executor is ended: of the tries, those stay that it could not end.
LEMMA EndExecutorKeeps == ASSUME IInv, EndExecutor PROVE IInv'
<1>. USE DEF EndExecutor, tracking, env
<1>1. PICK alive \in SUBSET {t \in Tasks : \E k \in Tries : procs[t][k] # "none"} :
        procs' = [t \in Tasks |-> IF t \in alive THEN procs[t] ELSE [k \in Tries |-> "none"]]
  OBVIOUS
<1>2. PICK marked \in Marked : ti' = [t \in Tasks |-> IF t \in marked THEN "upstream_failed" ELSE ti[t]]
  OBVIOUS
<1>3. marked \subseteq Tasks /\ (marked # {} => executor = "in_process")
  BY MarkedFacts
<1>4. /\ pc = "finally" /\ pc' = "clean" /\ queued' = {} /\ events' = {}
      /\ ti' \in [Tasks -> States] /\ procs' \in [Tasks -> [Tries -> ProcStates]]
  BY <1>1, <1>2 DEF IInv, TypeOK, States, ProcStates
<1>5. To_run' = To_run /\ Running' = Running
  BY DEF To_run, Running
<1>6. TypeOK'
  BY <1>4 DEF IInv, TypeOK
<1>7. Phases'
  BY <1>4, <1>5 DEF IInv, Phases
<1>8. \A t \in Tasks : \/ NoProc(t)'
                       \/ executor = "remote" /\ ti'[t] = ti[t] /\ \A k \in Tries : procs'[t][k] = procs[t][k]
  <2>1. ASSUME NEW t \in Tasks, t \in alive PROVE executor = "remote" /\ procs'[t] = procs[t] /\ ti'[t] = ti[t]
    <3>1. executor # "in_process"
      BY <2>1 DEF IInv, Task, Slot, NoProc
    <3>. QED  BY <1>1, <1>2, <1>3, <2>1, <3>1 DEF IInv, TypeOK
  <2>2. ASSUME NEW t \in Tasks, t \notin alive PROVE NoProc(t)'
    BY <1>1, <2>2 DEF NoProc
  <2>. QED  BY <2>1, <2>2
<1>9. \A t \in Tasks : ti'[t] \in {ti[t], "upstream_failed"}
  BY <1>2
<1>10. ASSUME NEW t \in Tasks PROVE Task(t)'
  <2>0. Task(t)
    BY DEF IInv
  <2>1. CASE NoProc(t)'
    <3>1. Staged(t)'
      BY <1>4, <2>1 DEF Staged, Stage, Away, NoEvent
    <3>2. Slot(t)' /\ OneAtWork(t)' /\ Attempt(t)'
      BY <1>4, <2>1 DEF Slot, OneAtWork, Attempt, NoProc, AtWork
    <3>3. Left(t)' /\ Read(t)' /\ Success(t)'
      BY <1>4, <1>9, <2>0, <2>1 DEF Task, Left, TryLeft, Retriable, Read, Success, NoProc
    <3>. QED  BY <3>1, <3>2, <3>3 DEF Task
  <2>2. CASE executor = "remote" /\ ti'[t] = ti[t] /\ \A k \in Tries : procs'[t][k] = procs[t][k]
    <3>1. ASSUME t \notin cleared PROVE Stage(t)'
      <4>1. queued = {} /\ events = {}
        BY <2>2 DEF IInv, Phases, Interrupted
      <4>2. Stage(t) /\ ~InQueue(t) /\ ~Told(t)
        BY <1>4, <2>0, <3>1, <4>1 DEF Task, Staged, InQueue, Told
      <4>3. Away(t) => Away(t)'
        BY <1>4, <2>2 DEF Away, NoProc, NoEvent
      <4>4. \A k \in Tries : Process(t, k) => Process(t, k)'
        BY <1>4, <1>5, <2>2 DEF Process, Closed, Held, Over
      <4>5. Started(t) => Started(t)'
        BY <1>4, <2>2, <4>4 DEF Started, NoEvent
      <4>. QED  BY <4>2, <4>3, <4>5 DEF Stage
    <3>2. Slot(t)' /\ OneAtWork(t)' /\ Attempt(t)'
      BY <1>4, <2>0, <2>2 DEF Task, Slot, OneAtWork, Attempt, AtWork
    <3>3. Left(t)' /\ Read(t)' /\ Success(t)'
      BY <1>4, <2>0, <2>2 DEF Task, Left, Read, Success
    <3>. QED  BY <3>1, <3>2, <3>3 DEF Task, Staged
  <2>. QED  BY <1>8, <2>1, <2>2
<1>11. Upstreams'
  <2>1. ASSUME NEW t \in Tasks, Sent(t)' PROVE Sent(t) /\ executor = "remote"
    BY <1>4, <1>8, <2>1 DEF Sent, NoProc
  <2>2. executor = "remote" => ti' = ti
    BY <1>2, <1>3 DEF IInv, TypeOK
  <2>. QED  BY <2>1, <2>2 DEF IInv, Upstreams
<1>. QED  BY <1>6, <1>7, <1>10, <1>11 DEF IInv

\* The clean-up leaves successes, and opens nothing.
LEMMA FixedFacts ==
  ASSUME TypeOK
  PROVE  /\ Fixed \in [Tasks -> States]
         /\ \A t \in Tasks : /\ Fixed[t] = "success" <=> ti[t] = "success"
                             /\ Fixed[t] \in Retriable => ti[t] \in Retriable
BY DEF TypeOK, Fixed, END_STATES, States, OpenStates, Retriable

\* The clean-up in finally fails what is left open.
LEMMA FinallyKeeps == ASSUME IInv, Finally PROVE IInv'
<1>. USE DEF Finally, tracking, exec, env
<1>1. /\ ti' \in [Tasks -> States]
      /\ \A t \in Tasks : /\ ti'[t] = "success" <=> ti[t] = "success"
                          /\ ti'[t] \in Retriable => ti[t] \in Retriable
  BY FixedFacts DEF IInv, TypeOK
<1>2. /\ To_run' = {} /\ Running' = {} /\ ti_status' \in [Lists -> SUBSET Tasks]
      /\ waiting' = {} /\ scan' = {} /\ status' = ti' /\ mem' = ti'
  BY Forgotten
<1>3. queued = {} /\ events = {} /\ pc = "clean" /\ pc' = "done"
  BY DEF IInv, Phases, Interrupted
<1>4. TypeOK'
  BY <1>1, <1>2 DEF IInv, TypeOK
<1>5. Phases'
  BY <1>2, <1>3 DEF Phases
<1>6. ASSUME NEW t \in Tasks PROVE Task(t)'
  <2>0. Task(t)
    BY DEF IInv
  <2>1. Staged(t)' /\ Read(t)'
    BY <1>3 DEF Staged, Read
  <2>2. Slot(t)' /\ OneAtWork(t)' /\ Attempt(t)'
    BY <1>3, <2>0 DEF Task, Slot, OneAtWork, Attempt, NoProc
  <2>3. Left(t)'
    BY <1>1, <1>3, <2>0 DEF Task, Left, TryLeft
  <2>4. Success(t)'
    BY <1>1, <1>2, <2>0 DEF Task, Success
  <2>. QED  BY <2>1, <2>2, <2>3, <2>4 DEF Task
<1>7. Upstreams'
  <2>1. \A t \in Tasks : Sent(t)' => Sent(t)
    BY DEF Sent
  <2>2. \A t \in Tasks : \A u \in Upstream[t] : u \in Tasks
    BY GraphFacts
  <2>. QED  BY <1>1, <1>2, <2>1, <2>2 DEF IInv, Upstreams
<1>. QED  BY <1>4, <1>5, <1>6, <1>7 DEF IInv

\* The job's process dies.
LEMMA JobCrashesKeeps == ASSUME IInv, JobCrashes PROVE IInv'
<1>. USE DEF JobCrashes, db, tracking, env
<1>0. /\ To_run' = {} /\ Running' = {} /\ ti_status' \in [Lists -> SUBSET Tasks]
      /\ waiting' = {} /\ scan' = {} /\ status' = ti /\ mem' = ti
  BY Forgotten
<1>1. TypeOK'
  BY <1>0 DEF IInv, TypeOK
<1>2. Phases'
  BY <1>0 DEF Phases
<1>3. ASSUME NEW t \in Tasks PROVE Task(t)'
  <2>0. Task(t)
    BY DEF IInv
  <2>1. Staged(t)' /\ Read(t)' /\ Attempt(t)'
    BY DEF Staged, Read, Attempt
  <2>2. Slot(t)' /\ OneAtWork(t)' /\ Success(t)'
    BY <1>0, <2>0 DEF Task, Slot, OneAtWork, Success, NoProc
  <2>3. Left(t)'
    BY <2>0 DEF Task, Left, TryLeft
  <2>. QED  BY <2>1, <2>2, <2>3 DEF Task
<1>4. Upstreams'
  <2>1. \A t \in Tasks : Sent(t)' => Sent(t)
    BY DEF Sent
  <2>. QED  BY <1>0, <2>1 DEF IInv, Upstreams
<1>. QED  BY <1>1, <1>2, <1>3, <1>4 DEF IInv

\* The cleaner of zombie jobs fails the instances of a dead job.
LEMMA KillZombiesKeeps == ASSUME IInv, KillZombies PROVE IInv'
<1>. USE DEF KillZombies, tracking, exec, job, env
<1>1. /\ ti' \in [Tasks -> States]
      /\ \A t \in Tasks : /\ ti'[t] = "success" <=> ti[t] = "success"
                          /\ ti'[t] \in Retriable => ti[t] \in Retriable
      /\ pc \in {"done", "crashed"}
  BY FixedFacts DEF IInv
<1>2. TypeOK'
  BY <1>1 DEF IInv, TypeOK
<1>3. Phases'
  BY <1>1 DEF IInv, Phases, To_run, Running, Interrupted
<1>4. ASSUME NEW t \in Tasks PROVE Task(t)'
  <2>0. Task(t)
    BY DEF IInv
  <2>1. Staged(t)' /\ Read(t)'
    BY <1>1 DEF Staged, Read
  <2>2. Slot(t)' /\ OneAtWork(t)' /\ Attempt(t)'
    BY <2>0 DEF Task, Slot, OneAtWork, Attempt, NoProc
  <2>3. Success(t)'
    BY <1>1, <2>0 DEF Task, Success
  <2>4. Left(t)'
    BY <1>1, <2>0 DEF Task, Left, TryLeft
  <2>. QED  BY <2>1, <2>2, <2>3, <2>4 DEF Task
<1>5. Upstreams'
  <2>1. \A t \in Tasks : Sent(t)' => Sent(t)
    BY DEF Sent
  <2>. QED  BY <1>1, <2>1, UpstreamsKept
<1>. QED  BY <1>2, <1>3, <1>4, <1>5 DEF IInv

-----------------------------------------------------------------------------
(***************************************************************************)
(* The theorems                                                            *)
(***************************************************************************)
LEMMA InitIInv == Init => IInv
<1>. SUFFICES ASSUME Init PROVE IInv
  OBVIOUS
<1>. USE DEF Init
<1>1. TypeOK
  <2>1. /\ ti \in [Tasks -> States] /\ try \in [Tasks -> 0..(MaxRetries + 1)]
        /\ attempt \in [Tasks -> 0..(MaxRetries + 2)]
    BY GraphFacts DEF States, OpenStates
  <2>2. /\ task_run_state \in [Tasks -> {"open", "success", "failed", "upstream_failed"}]
        /\ procs \in [Tasks -> [Tries -> ProcStates]] /\ ti_status \in [Lists -> SUBSET Tasks]
    BY DEF ProcStates
  <2>3. /\ executor \in {"in_process", "remote"} /\ fail_fast \in BOOLEAN /\ faults \in 0..MaxFaults
    <3>1. PICK m \in Modes : executor = m[1] /\ fail_fast = m[2]
      OBVIOUS
    <3>. QED  BY <3>1, ModeAssumption, BoundsAssumption
  <2>. QED  BY <2>1, <2>2, <2>3 DEF TypeOK
<1>2. Phases
  BY DEF Phases, To_run, Running, Lists
<1>3. ASSUME NEW t \in Tasks PROVE Task(t)
  <2>1. NoProc(t) /\ NoEvent(t)
    BY DEF NoProc, NoEvent
  <2>2. Staged(t)
    BY <2>1 DEF Staged, Stage, Away
  <2>3. Slot(t) /\ Attempt(t) /\ OneAtWork(t)
    BY <2>1 DEF Slot, Attempt, OneAtWork, NoProc, AtWork
  <2>4. Left(t)
    BY GraphFacts DEF Left, TryLeft, Retriable
  <2>5. Read(t) /\ Success(t)
    BY DEF Read, Success
  <2>. QED  BY <2>2, <2>3, <2>4, <2>5 DEF Task
<1>4. Upstreams
  BY DEF Upstreams, Sent
<1>. QED  BY <1>1, <1>2, <1>3, <1>4 DEF IInv

\* A step that changes nothing.
LEMMA StutterKeeps == ASSUME IInv, UNCHANGED vars PROVE IInv'
<1>. USE DEF vars, db, tracking, exec, job, env
<1>1. TypeOK'
  BY DEF IInv, TypeOK
<1>2. Running' = Running /\ To_run' = To_run
  BY DEF Running, To_run
<1>3. Phases'
  BY <1>2 DEF IInv, Phases, Interrupted
<1>4. ASSUME NEW t \in Tasks PROVE Left(t)' /\ Read(t)' /\ Attempt(t)'
  BY DEF IInv, Task, Left, TryLeft, Read, Closed, Attempt
<1>. QED  BY <1>1, <1>2, <1>3, <1>4, Still

\* Every step of the job, of its tries and of its users keeps the inductive invariant.
LEMMA StepIInv == IInv /\ [Next]_vars => IInv'
<1>. SUFFICES ASSUME IInv, [Next]_vars PROVE IInv'
  OBVIOUS
<1>1. CASE JobNext
  <2>1. ASSUME NEW t \in Tasks, ScanFinished(t) \/ ScanFlagged(t) \/ ScanMet(t) \/ ScanUnmet(t) PROVE IInv'
    BY <2>1, ScanFinishedKeeps, ScanFlaggedKeeps, ScanMetKeeps, ScanUnmetKeeps
  <2>2. ASSUME NEW e \in events, IgnoreEvent(e) \/ ManageEvent(e) PROVE IInv'
    BY <2>2, IgnoreEventKeeps, ManageEventKeeps
  <2>. QED  BY <1>1, <2>1, <2>2, StartKeeps, LoopTopKeeps, LoopLeft, SyncAttemptsKeeps, HeartbeatKeeps,
               InProcessDoneKeeps, RunInProcessKeeps, DeadlockCheckKeeps, UpdateCountersKeeps,
               UpdateStateKeeps, UpdateDatabandKeeps, EndExecutorKeeps, FinallyKeeps DEF JobNext
<1>2. ASSUME NEW t \in Tasks, ProcNext(t) \/ DelayPasses(t) \/ Clear(t) PROVE IInv'
  BY <1>2, ProcBootsKeeps, ProcWritesKeeps, ProcExitsKeeps, OutsideKeeps, ClearKeeps DEF
     ProcNext
<1>3. ASSUME NEW t \in Tasks, NEW k \in Tries, ProcMeetsLimit(t, k) \/ ProcDies(t, k) PROVE IInv'
  BY <1>3, ProcMeetsLimitKeeps, ProcDiesKeeps
<1>4. CASE Kill \/ JobRaises \/ JobCrashes \/ KillZombies
  BY <1>4, OutsideKeeps, JobRaisesKeeps, JobCrashesKeeps, KillZombiesKeeps
<1>5. CASE UNCHANGED vars
  BY <1>5, StutterKeeps
<1>. QED  BY <1>1, <1>2, <1>3, <1>4, <1>5 DEF Next

\* IInv holds in every state of the job: what it reads, sends and waits for fits what the executor
\* and the processes of the tries do.
THEOREM Invariance == Spec => []IInv
BY InitIInv, StepIInv, PTL DEF Spec

\* Every variable keeps its type; the number of tries stays within the retries.
THEOREM TypeCorrect == Spec => []TypeOK
<1>1. IInv => TypeOK
  BY DEF IInv
<1>. QED  BY <1>1, Invariance, PTL

\* A task has one process at work at a time, and the database says that it runs while it does.
THEOREM OneTryAtWorkHolds == Spec => []OneTryAtWork
<1>1. ASSUME IInv PROVE OneTryAtWork
  <2>. SUFFICES ASSUME NEW t \in Tasks \ cleared, NEW i \in Tries, NEW k \in Tries
                PROVE  /\ procs[t][i] \in AtWork /\ procs[t][k] \in AtWork => i = k
                       /\ procs[t][k] = "running" /\ pc \notin {"done", "crashed"} => ti[t] = "running"
    BY DEF OneTryAtWork
  <2>1. procs[t][i] \in AtWork /\ procs[t][k] \in AtWork => i = k
    BY <1>1 DEF IInv, Task, OneAtWork
  <2>2. procs[t][k] = "running" /\ pc \notin {"done", "crashed"} => ti[t] = "running"
    BY <1>1, AtWorkStage DEF AtWork
  <2>. QED  BY <2>1, <2>2
<1>. QED  BY <1>1, Invariance, PTL

\* While a try is queued or at work, the attempt that the tracking service holds is that try.
THEOREM AttemptKnownHolds == Spec => []AttemptKnown
<1>1. IInv => AttemptKnown
  BY DEF IInv, Task, Attempt, AttemptKnown
<1>. QED  BY <1>1, Invariance, PTL

\* Only a task that was sent begins a try.
LEMMA BegunSent ==
  ASSUME IInv, [Next]_vars, NEW t \in Tasks, try'[t] # try[t]
  PROVE  Sent(t)
<1>. USE DEF vars, db, exec, job, env, IInv, TypeOK
<1>1. CASE JobNext
  <2>1. ASSUME NEW u \in Tasks, RunInProcess(u) PROVE t \in queued
    <3>1. u \in queued /\ (try' = try \/ try' = [try EXCEPT ![u] = @ + 1])
      BY <2>1 DEF RunInProcess
    <3>. QED  BY <3>1
  <2>2. ASSUME NEW u \in Tasks, ScanFinished(u) \/ ScanFlagged(u) \/ ScanMet(u) \/ ScanUnmet(u) PROVE try' = try
    BY <2>2 DEF ScanFinished, ScanFlagged, ScanMet, ScanUnmet
  <2>3. ASSUME NEW e \in events, IgnoreEvent(e) \/ ManageEvent(e) PROVE try' = try
    BY <2>3 DEF IgnoreEvent, ManageEvent
  <2>4. CASE Start \/ LoopTop \/ LoopKilled \/ LoopEnds \/ SyncAttempts \/ Heartbeat \/ InProcessDone
               \/ DeadlockCheck \/ UpdateCounters \/ UpdateState \/ UpdateDataband \/ EndExecutor \/ Finally
    BY <2>4 DEF Start, LoopTop, LoopKilled, LoopEnds, SyncAttempts, Heartbeat, InProcessDone,
               DeadlockCheck, UpdateCounters, UpdateState, UpdateDataband, EndExecutor, Finally
  <2>. QED  BY <1>1, <2>1, <2>2, <2>3, <2>4 DEF JobNext, Sent
<1>2. ASSUME NEW u \in Tasks, NEW k \in Tries, ProcBoots(u, k) PROVE \E i \in Tries : procs[t][i] = "launched"
  <2>1. procs[u][k] = "launched" /\ (try' = try \/ try' = [try EXCEPT ![u] = @ + 1])
    BY <1>2 DEF ProcBoots
  <2>. QED  BY <2>1
<1>3. ASSUME NEW u \in Tasks, NEW k \in Tries, ProcWrites(u, k) \/ ProcExits(u, k) \/ ProcMeetsLimit(u, k) \/ ProcDies(u, k)
      PROVE  try' = try
  BY <1>3 DEF ProcWrites, ProcExits, ProcMeetsLimit, ProcDies
<1>4. ASSUME NEW u \in Tasks, DelayPasses(u) \/ Clear(u) PROVE try' = try
  BY <1>4 DEF DelayPasses, Clear
<1>5. CASE Kill \/ JobRaises \/ JobCrashes \/ KillZombies \/ UNCHANGED vars
  BY <1>5 DEF Kill, JobRaises, JobCrashes, KillZombies
<1>. QED  BY <1>1, <1>2, <1>3, <1>4, <1>5 DEF Next, ProcNext, Sent

\* A try begins only when the upstream tasks have succeeded, whatever became of the states that
\* the job had read when it sent the task.
THEOREM UpstreamFirstHolds == Spec => UpstreamFirst
<1>1. IInv /\ [Next]_vars =>
        [\A t \in Tasks : try'[t] # try[t] => \A u \in Upstream[t] \ cleared : ti[u] = "success"]_vars
  BY BegunSent DEF IInv, Upstreams
<1>. QED  BY <1>1, Invariance, PTL DEF Spec, UpstreamFirst

\* Only open states are overwritten, but for the clean-up of a DAG run that is open, and the end of
\* an executor that had run the task in a batch that was interrupted.
LEMMA ClosedKept ==
  ASSUME IInv, [Next]_vars, pc \notin {"done", "crashed"}, NEW t \in Tasks \ cleared, Closed(t),
         Finally => ti[t] \in END_STATES \/ dag_run # "running",
         EndExecutor => NoEvent(t)
  PROVE  ti'[t] = ti[t]
<1>t. ti \in [Tasks -> States] /\ ti[t] \notin OpenStates
  BY DEF IInv, TypeOK, Closed
<1>. USE DEF vars, db, exec, job, env
<1>1. CASE JobNext
  <2>1. ASSUME NEW u \in Tasks, RunInProcess(u) PROVE ti'[t] = ti[t]
    <3>1. u \in queued /\ pc = "heartbeat" /\ \E s : ti' = [ti EXCEPT ![u] = s]
      BY <2>1 DEF RunInProcess
    <3>2. u \notin cleared => InQueue(u)
      BY <3>1 DEF IInv, Task, Staged, Stage, Away, Started, Told
    <3>. QED  BY <1>t, <3>1, <3>2 DEF InQueue, OpenStates
  <2>2. ASSUME NEW u \in Tasks, ScanFlagged(u) \/ ScanMet(u) \/ ScanUnmet(u) PROVE ti'[t] = ti[t]
    <3>1. Scanned(u) /\ status[u] \in OpenStates /\ \E s : ti' = [ti EXCEPT ![u] = s]
      BY <2>2 DEF ScanFlagged, ScanMet, ScanUnmet
    <3>2. u \notin cleared => ti[u] \in OpenStates
      BY <3>1, ScanStage
    <3>. QED  BY <1>t, <3>1, <3>2
  <2>3. ASSUME NEW e \in events, ManageEvent(e) PROVE ti'[t] = ti[t]
    <3>1. ti' = ti \/ (ti[e[1]] \in {"running", "queued"} /\ \E s : ti' = [ti EXCEPT ![e[1]] = s])
      BY <2>3 DEF ManageEvent
    <3>. QED  BY <1>t, <3>1 DEF OpenStates
  <2>4. CASE UpdateCounters
    <3>1. ti'[t] = ti[t] \/ (mem[t] = "none" /\ pc = "events")
      BY <2>4 DEF UpdateCounters
    <3>. QED  BY <1>t, <3>1 DEF IInv, Task, Read, OpenStates
  <2>5. CASE UpdateState
    BY <1>t, <2>5 DEF UpdateState, AirflowState, Flaggable, Runnable, OpenStates
  <2>6. CASE Finally
    BY <2>6 DEF Finally, Fixed
  <2>11. CASE EndExecutor
    <3>1. PICK marked \in Marked : ti' = [u \in Tasks |-> IF u \in marked THEN "upstream_failed" ELSE ti[u]]
      BY <2>11 DEF EndExecutor
    <3>2. t \notin queued
      BY <1>t DEF IInv, Task, Staged, Stage, Away, InQueue, Started, Told, OpenStates
    <3>3. CASE {e[1] : e \in events} = {}
      <4>1. marked \subseteq queued
        BY <3>1, <3>3 DEF Marked
      <4>. QED  BY <3>1, <3>2, <4>1
    <3>4. CASE {e[1] : e \in events} # {}
      <4>1. PICK S \in {{}} \cup {{u} : u \in {e[1] : e \in events}} : marked = S
        BY <3>1, <3>4 DEF Marked
      <4>2. t \notin {e[1] : e \in events}
        BY <2>11 DEF NoEvent
      <4>. QED  BY <3>1, <4>1, <4>2
    <3>. QED  BY <3>3, <3>4
  <2>7. CASE Start
    BY <1>t, <2>7 DEF Start, OpenStates
  <2>8. ASSUME NEW u \in Tasks, ScanFinished(u) PROVE ti' = ti
    BY <2>8 DEF ScanFinished
  <2>9. ASSUME NEW e \in events, IgnoreEvent(e) PROVE ti' = ti
    BY <2>9 DEF IgnoreEvent
  <2>10. CASE LoopTop \/ LoopKilled \/ LoopEnds \/ SyncAttempts \/ Heartbeat \/ InProcessDone \/ DeadlockCheck
               \/ UpdateDataband
    BY <2>10 DEF LoopTop, LoopKilled, LoopEnds, SyncAttempts, Heartbeat, InProcessDone,
       DeadlockCheck, UpdateDataband
  <2>. QED  BY <1>1, <2>1, <2>2, <2>3, <2>4, <2>5, <2>6, <2>7, <2>8, <2>9, <2>10, <2>11 DEF JobNext
<1>2. ASSUME NEW u \in Tasks, NEW k \in Tries, ProcBoots(u, k) \/ ProcMeetsLimit(u, k) PROVE ti'[t] = ti[t]
  <2>1. ti' = ti \/ (ti[u] \in OpenStates /\ \E s : ti' = [ti EXCEPT ![u] = s])
    BY <1>2 DEF ProcBoots, ProcMeetsLimit, OpenStates
  <2>. QED  BY <1>t, <2>1
<1>3. ASSUME NEW u \in Tasks, NEW k \in Tries, ProcWrites(u, k) PROVE ti'[t] = ti[t]
  <2>1. procs[u][k] = "running" /\ \E s : ti' = [ti EXCEPT ![u] = s]
    BY <1>3 DEF ProcWrites
  <2>2. u \notin cleared => ti[u] \in OpenStates
    BY <2>1, AtWorkStage DEF AtWork, OpenStates
  <2>. QED  BY <1>t, <2>1, <2>2
<1>4. ASSUME NEW u \in Tasks, NEW k \in Tries, ProcExits(u, k) \/ ProcDies(u, k) PROVE ti' = ti
  BY <1>4 DEF ProcExits, ProcDies
<1>5. ASSUME NEW u \in Tasks, DelayPasses(u) \/ Clear(u) PROVE ti'[t] = ti[t]
  <2>1. ti' = ti \/ (ti[u] = "up_for_retry" /\ ti' = [ti EXCEPT ![u] = "none"])
    BY <1>5 DEF DelayPasses, Clear
  <2>. QED  BY <1>t, <2>1 DEF OpenStates
<1>6. CASE Kill \/ JobRaises \/ JobCrashes \/ KillZombies \/ UNCHANGED vars
  BY <1>6 DEF Kill, JobRaises, JobCrashes, KillZombies
<1>. QED  BY <1>1, <1>2, <1>3, <1>4, <1>5, <1>6 DEF Next, ProcNext

\* How a task ended is kept, by late results and late states too, as long as there is a job; the
\* clean-up keeps it but for skipped tasks, and an interrupted batch but for the tasks that it ran.
THEOREM FinalKeptHolds == Spec => FinalKept
<1>1. ASSUME IInv, [Next]_vars, NEW t \in Tasks \ cleared
      PROVE  /\ pc \notin {"clean", "done", "crashed"} /\ ~(pc = "finally" /\ \E e \in events : e[1] = t)
                  => (ti[t] \notin OpenStates => ti'[t] = ti[t])
             /\ pc = "clean" => (ti[t] \in END_STATES => ti'[t] = ti[t])
  <2>1. (Finally => pc = "clean") /\ (EndExecutor => pc = "finally")
    BY DEF Finally, EndExecutor
  <2>. QED  BY <1>1, <2>1, ClosedKept DEF Closed, NoEvent, END_STATES, OpenStates
<1>2. IInv /\ [Next]_vars =>
        [\A t \in Tasks \ cleared :
           /\ pc \notin {"clean", "done", "crashed"} /\ ~(pc = "finally" /\ \E e \in events : e[1] = t)
                => (ti[t] \notin OpenStates => ti'[t] = ti[t])
           /\ pc = "clean" => (ti[t] \in END_STATES => ti'[t] = ti[t])]_vars
  BY <1>1
<1>. QED  BY <1>2, Invariance, PTL DEF Spec, FinalKept

-----------------------------------------------------------------------------
(***************************************************************************)
(* How the job ends                                                        *)
(***************************************************************************)

\* The steps of the tries, of users and of time; and those inside an iteration of the loop.
World ==
  \/ \E u \in Tasks, k \in Tries :
       ProcBoots(u, k) \/ ProcWrites(u, k) \/ ProcExits(u, k) \/ ProcMeetsLimit(u, k) \/ ProcDies(u, k)
  \/ \E u \in Tasks : DelayPasses(u) \/ Clear(u)
  \/ Kill \/ UNCHANGED vars

Iterates ==
  \/ LoopTop \/ SyncAttempts \/ Heartbeat \/ InProcessDone \/ DeadlockCheck \/ UpdateCounters
  \/ \E u \in Tasks : ScanFinished(u) \/ ScanFlagged(u) \/ ScanMet(u) \/ ScanUnmet(u) \/ RunInProcess(u)
  \/ \E e \in events : IgnoreEvent(e) \/ ManageEvent(e)

LEMMA Cases ==
  ASSUME [Next]_vars
  PROVE  \/ World \/ Iterates \/ Start \/ LoopKilled \/ LoopEnds \/ UpdateState \/ UpdateDataband
         \/ EndExecutor \/ Finally \/ JobRaises \/ JobCrashes \/ KillZombies
BY DEF Next, JobNext, ProcNext, World, Iterates

\* The world leaves the job where it is, and runs no task that has no process.
LEMMA WorldKeeps ==
  ASSUME IInv, World
  PROVE  /\ UNCHANGED <<pc, outcome, ti_status, status, events, queued, task_failed, active, closed_early,
                        task_run_state, dag_run, fail_fast, executor>>
         /\ cleared \subseteq cleared'
         /\ \A t \in Tasks : ti'[t] = "upstream_failed" => ti[t] = "upstream_failed"
         /\ pc = "done" => \A t \in Tasks : NoProc(t)' => NoProc(t) /\ ti'[t] = ti[t]
<1>t. ti \in [Tasks -> States] /\ procs \in [Tasks -> [Tries -> ProcStates]]
  BY DEF IInv, TypeOK
<1>. USE DEF vars, db, tracking, exec, job, env
<1>1. ASSUME NEW u \in Tasks, NEW k \in Tries,
             ProcBoots(u, k) \/ ProcWrites(u, k) \/ ProcExits(u, k) \/ ProcMeetsLimit(u, k) \/ ProcDies(u, k)
      PROVE  /\ UNCHANGED <<pc, outcome, ti_status, status, events, queued, task_failed, active, closed_early,
                            task_run_state, dag_run, fail_fast, executor, cleared>>
             /\ ti' = ti \/ \E s \in States \ {"upstream_failed"} : ti' = [ti EXCEPT ![u] = s]
             /\ \E p \in ProcStates \ {"none"} : procs' = [procs EXCEPT ![u][k] = p]
  <2>1. "running" \in States /\ "none" \in States /\ "success" \in States /\ "skipped" \in States
        /\ Failure(u, "running") \in States \ {"upstream_failed"}
    BY DEF States, OpenStates, Failure
  <2>2. CASE ProcBoots(u, k) \/ ProcMeetsLimit(u, k)
    BY <2>1, <2>2 DEF ProcBoots, ProcMeetsLimit, ProcStates
  <2>3. CASE ProcWrites(u, k)
    BY <2>1, <2>3 DEF ProcWrites, ProcStates
  <2>4. CASE ProcExits(u, k) \/ ProcDies(u, k)
    BY <2>4 DEF ProcExits, ProcDies, ProcStates
  <2>. QED  BY <1>1, <2>2, <2>3, <2>4
<1>2. ASSUME NEW u \in Tasks, NEW k \in Tries,
             ProcBoots(u, k) \/ ProcWrites(u, k) \/ ProcExits(u, k) \/ ProcMeetsLimit(u, k) \/ ProcDies(u, k)
      PROVE  /\ UNCHANGED <<pc, outcome, ti_status, status, events, queued, task_failed, active, closed_early,
                            task_run_state, dag_run, fail_fast, executor, cleared>>
             /\ \A t \in Tasks : ti'[t] = "upstream_failed" => ti[t] = "upstream_failed"
             /\ \A t \in Tasks : NoProc(t)' => NoProc(t) /\ ti'[t] = ti[t]
  <2>1. \A t \in Tasks : NoProc(t)' => t # u
    BY <1>t, <1>1, <1>2 DEF NoProc
  <2>2. \A t \in Tasks \ {u} : ti'[t] = ti[t] /\ procs'[t] = procs[t]
    BY <1>t, <1>1, <1>2
  <2>3. \A t \in Tasks : NoProc(t)' => NoProc(t) /\ ti'[t] = ti[t]
    BY <2>1, <2>2 DEF NoProc
  <2>4. \A t \in Tasks : ti'[t] = "upstream_failed" => ti[t] = "upstream_failed"
    BY <1>t, <1>1, <1>2
  <2>. QED  BY <1>1, <1>2, <2>3, <2>4
<1>3. ASSUME NEW u \in Tasks, DelayPasses(u) \/ Clear(u)
      PROVE  /\ UNCHANGED <<pc, outcome, ti_status, status, events, queued, task_failed, active, closed_early,
                            task_run_state, dag_run, fail_fast, executor>>
             /\ cleared \subseteq cleared'
             /\ \A t \in Tasks : ti'[t] = "upstream_failed" => ti[t] = "upstream_failed"
             /\ procs' = procs /\ (pc = "done" => ti' = ti)
  BY <1>3, <1>t DEF DelayPasses, Clear
<1>4. CASE Kill \/ UNCHANGED vars
  BY <1>4 DEF Kill, NoProc
<1>. QED  BY <1>2, <1>3, <1>4 DEF World, NoProc

\* An iteration neither looks at the DAG run nor ends the job.
LEMMA IteratesKeeps ==
  ASSUME Iterates
  PROVE  /\ pc \in Loop \ {"start", "databand"} /\ pc' \in Loop \ {"start", "top", "databand"}
         /\ UNCHANGED <<outcome, active, closed_early, task_run_state, dag_run, fail_fast, executor, cleared>>
<1>. USE DEF Loop, db, tracking, exec, job, env
<1>1. CASE LoopTop \/ SyncAttempts \/ Heartbeat \/ InProcessDone \/ DeadlockCheck \/ UpdateCounters
  BY <1>1 DEF LoopTop, SyncAttempts, Heartbeat, InProcessDone, DeadlockCheck, UpdateCounters
<1>2. ASSUME NEW u \in Tasks, ScanFinished(u) \/ ScanFlagged(u) \/ ScanMet(u) \/ ScanUnmet(u) \/ RunInProcess(u)
      PROVE  /\ pc \in {"scan", "heartbeat"} /\ pc' = pc
             /\ UNCHANGED <<outcome, active, closed_early, task_run_state, dag_run, fail_fast, executor, cleared>>
  BY <1>2 DEF ScanFinished, ScanFlagged, ScanMet, ScanUnmet, Scanned, RunInProcess
<1>3. ASSUME NEW e \in events, IgnoreEvent(e) \/ ManageEvent(e)
      PROVE  /\ pc = "events" /\ pc' = pc
             /\ UNCHANGED <<outcome, active, closed_early, task_run_state, dag_run, fail_fast, executor, cleared>>
  BY <1>3 DEF IgnoreEvent, ManageEvent
<1>. QED  BY <1>1, <1>2, <1>3 DEF Iterates

\* A task once cleared stays marked as cleared.
LEMMA ClearedGrows == ASSUME IInv, [Next]_vars PROVE cleared \subseteq cleared'
BY Cases, WorldKeeps, IteratesKeeps DEF Start, LoopKilled, LoopEnds, UpdateState,
   UpdateDataband, EndExecutor, Finally, JobRaises, JobCrashes, KillZombies, env

\* The loop is entered once.
LEMMA LoopCases ==
  ASSUME IInv, [Next]_vars, pc' \in Loop
  PROVE  pc \in Loop /\ (World \/ Iterates \/ Start \/ UpdateState \/ UpdateDataband)
<1>1. ~LoopKilled /\ ~LoopEnds /\ ~EndExecutor /\ ~Finally /\ ~JobRaises /\ ~JobCrashes
  BY DEF LoopKilled, LoopEnds, EndExecutor, Finally, JobRaises, JobCrashes, Loop
<1>2. ~KillZombies
  BY DEF KillZombies, job, Loop
<1>. QED  BY <1>1, <1>2, Cases, WorldKeeps, IteratesKeeps DEF Start, UpdateState, UpdateDataband, Loop

\* What UpdateState does with the DAG run.
LEMMA LookFacts ==
  ASSUME IInv, UpdateState, active
  PROVE  \E flagged \in SUBSET Flaggable, d \in {"running", "failed", "success"} :
           /\ AirflowState(flagged, ti', d)
           /\ dag_run' = d
           /\ closed_early' = (d # "running" /\ \E t \in Tasks : ti[t] \in OpenStates)
BY DEF UpdateState

\* With no task open it closes the DAG run and flags no task.
LEMMA LookClosed ==
  ASSUME IInv, UpdateState, active, \A t \in Tasks : ti[t] \notin OpenStates
  PROVE  /\ \A t \in Tasks : ti'[t] = ti[t]
         /\ dag_run' = IF \E t \in Tasks : Leaf(t) /\ ti[t] \in FailedStates THEN "failed" ELSE "success"
<1>1. PICK flagged \in SUBSET Flaggable, d \in {"running", "failed", "success"} :
         AirflowState(flagged, ti', d) /\ dag_run' = d
  BY LookFacts
<1>2. flagged = {}
  BY DEF Flaggable, Runnable, OpenStates
<1>3. {t \in Tasks : ti[t] \in OpenStates} = {}
  OBVIOUS
<1>. QED  BY <1>1, <1>2, <1>3 DEF AirflowState

\* After the look, a DAG run that is not open has no task open, unless it was closed early.
LEMMA LookSettles ==
  ASSUME IInv, UpdateState, active, dag_run' # "running", ~closed_early', NEW t \in Tasks
  PROVE  Closed(t) /\ ti'[t] = ti[t]
<1>1. \A u \in Tasks : ti[u] \notin OpenStates
  BY LookFacts
<1>. QED  BY <1>1, LookClosed DEF Closed

\* At the start no task has been left.
LEMMA SettlingInit == Init => Settling
<1>. SUFFICES ASSUME Init PROVE Settling
  OBVIOUS
<1>1. \A t \in Tasks : Settled(t)
  BY DEF Init, Settled, Known
<1>. QED  BY <1>1 DEF Init, Settling

\* Every step keeps Settling: once the DAG run is closed, every task that no user cleared is closed.
LEMMA SettlingStep == ASSUME IInv, Settling, [Next]_vars PROVE Settling'
<1>c. cleared \subseteq cleared'
  BY ClearedGrows
<1>k. ASSUME NEW t \in Tasks \ cleared, pc \notin {"done", "crashed"}, ~EndExecutor, ~Finally, Closed(t) PROVE ti'[t] = ti[t]
  BY <1>k, ClosedKept
<1>s. ASSUME pc' \in Loop /\ ~active' => dag_run' # "running",
             \A t \in Tasks : t \notin cleared /\ t \notin cleared' /\ ~closed_early' => Settled(t)'
      PROVE  Settling'
  <2>1. \A t \in Tasks : Settled(t)'
    BY <1>c, <1>s DEF Settled
  <2>. QED  BY <1>s, <2>1 DEF Settling
<1>1. CASE World
  <2>0. ~EndExecutor /\ ~Finally
    BY <1>1, WorldKeeps DEF EndExecutor, Finally
  <2>1. ASSUME NEW t \in Tasks, t \notin cleared, ~closed_early' PROVE Settled(t)'
    <3>1. Settled(t) /\ ~closed_early
      BY <1>1, <2>1, WorldKeeps DEF Settling
    <3>2. Known(t) => Known(t)'
      BY <1>1, WorldKeeps DEF Known
    <3>3. pc \notin {"done", "crashed"} /\ dag_run # "running" => Closed(t)'
      BY <1>k, <2>0, <2>1, <3>1 DEF Settled, Closed
    <3>4. pc = "done" /\ dag_run # "running" /\ NoProc(t)' => ti'[t] \notin {"scheduled", "queued", "running", "up_for_retry"}
      BY <1>1, <2>1, <3>1, WorldKeeps DEF Settled
    <3>. QED  BY <1>1, <2>1, <3>1, <3>2, <3>3, <3>4, WorldKeeps DEF Settled
  <2>. QED  BY <1>1, <1>s, <2>1, WorldKeeps DEF Settling
<1>2. CASE Iterates
  <2>0. ~EndExecutor /\ ~Finally /\ pc \notin {"done", "crashed"}
    BY <1>2, IteratesKeeps DEF EndExecutor, Finally, Loop
  <2>1. ASSUME NEW t \in Tasks, t \notin cleared, ~closed_early' PROVE Settled(t)'
    <3>1. Settled(t) /\ ~closed_early
      BY <1>2, <2>1, IteratesKeeps DEF Settling
    <3>2. dag_run # "running" => Closed(t) /\ ti'[t] = ti[t]
      BY <1>k, <2>0, <2>1, <3>1 DEF Settled
    <3>3. ~active => Known(t)'
      BY <1>2, <2>1, <3>1, <3>2, IteratesKeeps DEF Settled, Settling, Known
    <3>. QED  BY <1>2, <3>2, <3>3, IteratesKeeps DEF Settled, Closed, Loop
  <2>. QED  BY <1>2, <1>s, <2>1, IteratesKeeps DEF Settling
<1>3. CASE Start
  <2>. USE <1>3 DEF Start, tracking, env
  <2>1. ASSUME NEW t \in Tasks, t \notin cleared, ~closed_early' PROVE Settled(t)'
    <3>1. Settled(t)
      BY DEF Settling
    <3>2. Known(t)' /\ (Closed(t) => Closed(t)')
      BY <2>1, <3>1 DEF Settled, Known, Closed, OpenStates
    <3>. QED  BY <2>1, <3>1, <3>2 DEF Settled
  <2>. QED  BY <1>s, <2>1 DEF Settling, Loop
<1>4. CASE LoopKilled \/ LoopEnds
  <2>1. /\ pc = "top" /\ pc' = "finally" /\ cleared' = cleared
        /\ UNCHANGED <<ti, dag_run, task_run_state, closed_early>>
    BY <1>4 DEF LoopKilled, LoopEnds, db, tracking, env
  <2>2. ASSUME NEW t \in Tasks, t \notin cleared, ~closed_early' PROVE Settled(t)'
    BY <2>1, <2>2 DEF Settling, Settled, Known, Closed, Loop
  <2>. QED  BY <1>s, <2>1, <2>2 DEF Loop
<1>5. CASE UpdateState
  <2>1. pc = "state" /\ pc' = "databand" /\ active' = active /\ UNCHANGED <<task_run_state, cleared>>
    BY <1>5 DEF UpdateState, env, tracking
  <2>2. CASE active
    <3>1. ASSUME NEW t \in Tasks, ~closed_early' PROVE Settled(t)'
      <4>1. dag_run' # "running" => Closed(t)'
        BY <1>5, <2>2, <3>1, LookSettles DEF Closed
      <4>. QED  BY <2>1, <2>2, <4>1 DEF Settled
    <3>. QED  BY <1>s, <2>1, <2>2, <3>1
  <2>3. CASE ~active
    <3>1. UNCHANGED <<ti, dag_run, closed_early>>
      BY <1>5, <2>3 DEF UpdateState
    <3>2. ASSUME NEW t \in Tasks, t \notin cleared, ~closed_early' PROVE Settled(t)'
      BY <2>1, <3>1, <3>2 DEF Settling, Settled, Known, Closed, Loop
    <3>. QED  BY <1>s, <2>1, <3>1, <3>2 DEF Settling, Loop
  <2>. QED  BY <2>2, <2>3
<1>6. CASE UpdateDataband
  <2>1. /\ pc = "databand" /\ pc' \in {"top", "finally"} /\ active' = (active /\ dag_run = "running")
        /\ UNCHANGED <<ti, dag_run, closed_early, cleared>>
    BY <1>6 DEF UpdateDataband, db, env
  <2>2. ASSUME NEW t \in Tasks, t \notin cleared, ~closed_early PROVE Known(t)'
    <3>1. CASE active
      <4>1. PICK before \in BOOLEAN : task_run_state' = TaskRunStates(ti, before)
        BY <1>6, <3>1 DEF UpdateDataband
      <4>. QED  BY <2>1, <4>1 DEF Known, TaskRunStates, FailedStates
    <3>2. CASE ~active
      <4>1. task_run_state' = task_run_state
        BY <1>6, <3>2 DEF UpdateDataband
      <4>. QED  BY <2>1, <2>2, <3>2, <4>1 DEF Settling, Settled, Known, Loop
    <3>. QED  BY <3>1, <3>2
  <2>3. ASSUME NEW t \in Tasks, t \notin cleared, ~closed_early' PROVE Settled(t)'
    <3>1. dag_run # "running" => Closed(t)
      BY <2>1, <2>3 DEF Settling, Settled
    <3>. QED  BY <2>1, <2>2, <2>3, <3>1 DEF Settled, Closed
  <2>4. pc' \in Loop /\ ~active' => dag_run' # "running"
    BY <2>1 DEF Settling, Loop
  <2>. QED  BY <1>s, <2>3, <2>4
<1>7. CASE EndExecutor
  <2>. USE <1>7 DEF EndExecutor, tracking, env
  <2>1. PICK marked \in Marked : ti' = [t \in Tasks |-> IF t \in marked THEN "upstream_failed" ELSE ti[t]]
    OBVIOUS
  <2>2. outcome # "raised" => marked = {}
    BY MarkedFacts
  <2>3. ASSUME NEW t \in Tasks, t \notin cleared, ~closed_early' PROVE Settled(t)'
    <3>1. Settled(t)
      BY DEF Settling
    <3>2. ti'[t] \in {ti[t], "upstream_failed"} /\ (outcome # "raised" => ti'[t] = ti[t])
      BY <2>1, <2>2
    <3>. QED  BY <2>3, <3>1, <3>2 DEF Settled, Known, Closed, OpenStates, Loop
  <2>. QED  BY <1>s, <2>3 DEF Loop
<1>8. CASE Finally
  <2>1. /\ pc = "clean" /\ pc' = "done" /\ UNCHANGED <<task_run_state, cleared, closed_early, outcome>>
        /\ \/ dag_run = "running" /\ ti' = Fixed
           \/ dag_run' = dag_run /\ ti' \in {ti, Fixed}
        /\ dag_run # "running" => ti' = ti /\ dag_run' = dag_run
    BY <1>8 DEF Finally, tracking, env
  <2>2. ASSUME NEW t \in Tasks, t \notin cleared, ~closed_early' PROVE Settled(t)'
    <3>1. Settled(t)
      BY DEF Settling
    <3>2. Fixed[t] = "upstream_failed" => ti[t] = "upstream_failed"
      BY DEF Fixed
    <3>3. Known(t) => Known(t)'
      BY <2>1, <3>2 DEF Known
    <3>4. dag_run' # "running" => ti'[t] \notin {"scheduled", "queued", "running", "up_for_retry"}
      <4>1. Fixed[t] \notin {"scheduled", "queued", "running", "up_for_retry"}
        BY DEF Fixed, END_STATES
      <4>2. dag_run # "running" => Closed(t)
        BY <2>1, <2>2, <3>1 DEF Settled
      <4>. QED  BY <2>1, <4>1, <4>2 DEF Closed, OpenStates
    <3>. QED  BY <2>1, <2>2, <3>1, <3>3, <3>4 DEF Settled, Loop
  <2>. QED  BY <1>s, <2>1, <2>2 DEF Loop
<1>9. CASE JobRaises
  <2>1. pc \in Loop /\ pc' = "finally" /\ outcome' = "raised" /\ UNCHANGED <<ti, dag_run, closed_early, cleared>>
    BY <1>9 DEF JobRaises, db, env, Loop
  <2>2. ASSUME NEW t \in Tasks, t \notin cleared, ~closed_early' PROVE Settled(t)'
    BY <2>1, <2>2 DEF Settling, Settled, Closed, Loop
  <2>. QED  BY <1>s, <2>1, <2>2 DEF Loop
<1>10. CASE JobCrashes
  BY <1>10, <1>s DEF JobCrashes, Settled, Loop
<1>11. CASE KillZombies
  <2>. USE <1>11 DEF KillZombies, tracking, job, env
  <2>1. ASSUME NEW t \in Tasks, t \notin cleared, ~closed_early' PROVE Settled(t)'
    <3>1. Settled(t)
      BY DEF Settling
    <3>2. Fixed[t] \notin {"scheduled", "queued", "running", "up_for_retry"}
          /\ (Fixed[t] = "upstream_failed" => ti[t] = "upstream_failed")
      BY DEF Fixed, END_STATES
    <3>. QED  BY <2>1, <3>1, <3>2 DEF Settled, Known, Loop
  <2>. QED  BY <1>s, <2>1 DEF Loop
<1>. QED  BY <1>1, <1>2, <1>3, <1>4, <1>5, <1>6, <1>7, <1>8, <1>9, <1>10, <1>11, Cases

\* Whatever ends the job, also an exception, with a clean-up that failed and a job that made up for
\* it: once the DAG run is closed no task is left on its way but for one whose process is there,
\* and Databand knows of those that were not run if the loop came to its end.
THEOREM LeftSettledHolds == Spec => []LeftSettled
<1>1. Spec => []Settling
  <2>1. IInv /\ Settling /\ [Next]_vars => Settling'
    BY SettlingStep
  <2>. QED  BY SettlingInit, <2>1, Invariance, PTL DEF Spec
<1>2. Settling => LeftSettled
  BY DEF Settling, Settled, Known, NoProc, LeftSettled
<1>. QED  BY <1>1, <1>2, PTL

-----------------------------------------------------------------------------
(***************************************************************************)
(* What success means                                                      *)
(***************************************************************************)

\* Only the end of the loop makes a success.
LEMMA OutcomeFacts ==
  ASSUME IInv, [Next]_vars, outcome # "success", ~LoopEnds
  PROVE  outcome' # "success"
BY Cases, WorldKeeps, IteratesKeeps DEF Start, LoopKilled, UpdateState, UpdateDataband,
   EndExecutor, Finally, JobRaises, JobCrashes, KillZombies, job

\* The task stays in the lists, and a list of finished tasks gets it only if it ended so.
ListsKept(t) ==
  /\ InLists(t) => InLists(t)'
  /\ t \in Succeeded' => t \in Succeeded \/ (ti[t] = "success" /\ ti'[t] = "success")
  /\ t \in Skipped' => t \in Skipped \/ (ti[t] = "skipped" /\ ti'[t] = "skipped")

\* In the loop, and without a clear, a task that is not given up does not get lost between the lists,
\* and if it becomes listed as succeeded or skipped, it is so in the database.
LEMMA ListsStep ==
  ASSUME IInv, [Next]_vars, cleared = {}, pc # "start", pc' \in Loop,
         NEW v \in Tasks, ~GivenUp(v)
  PROVE  ListsKept(v)
<1>l. /\ ti_status \in [Lists -> SUBSET Tasks]
      /\ Lists = {"to_run", "running", "succeeded", "skipped", "failed", "not_ready", "deadlocked"}
  BY DEF IInv, TypeOK, Lists
<1>s. (\A l \in Lists \ {"not_ready"} : ti_status'[l] = ti_status[l]) => ListsKept(v)
  BY <1>l DEF ListsKept, InLists, Succeeded, Skipped, To_run, Running
<1>u. ti_status' = ti_status => ListsKept(v)
  BY <1>s
<1>n. \A t \in Tasks : ti_status' = [ti_status EXCEPT !["not_ready"] = @ \cup {t}] => ListsKept(v)
  BY <1>s, <1>l
<1>m. ASSUME NEW t \in Tasks, NEW l \in {"to_run", "running", "succeeded", "skipped", "failed"},
             ti_status' = Listed(t, l),
             l = "succeeded" => ti[t] = "success" /\ ti'[t] = "success",
             l = "skipped" => ti[t] = "skipped" /\ ti'[t] = "skipped"
      PROVE  ListsKept(v)
  <2>1. \A k \in Lists : ti_status'[k] = IF k = l THEN ti_status[k] \cup {t}
                                         ELSE IF k \in {"to_run", "running"} THEN ti_status[k] \ {t}
                                         ELSE ti_status[k]
    BY <1>m DEF Listed
  <2>. QED  BY <1>m, <1>l, <2>1 DEF ListsKept, InLists, Succeeded, Skipped, To_run, Running
<1>1. CASE Iterates
  <2>1. CASE LoopTop
    <3>1. \A l \in Lists \ {"not_ready"} : ti_status'[l] = ti_status[l]
      BY <1>l, <2>1 DEF LoopTop
    <3>. QED  BY <1>s, <3>1
  <2>2. CASE DeadlockCheck
    <3>1. \/ ti_status' = ti_status
          \/ /\ ti_status' = [ti_status EXCEPT !["deadlocked"] = ti_status["to_run"], !["to_run"] = {}]
             /\ ti_status["to_run"] # {}
      BY <2>2 DEF DeadlockCheck
    <3>2. CASE ti_status' = [ti_status EXCEPT !["deadlocked"] = ti_status["to_run"], !["to_run"] = {}]
               /\ ti_status["to_run"] # {}
      BY <1>l, <3>2 DEF ListsKept, InLists, Succeeded, Skipped
    <3>. QED  BY <1>u, <3>1, <3>2
  <2>3. CASE UpdateCounters
    <3>1. /\ ti_status'["succeeded"] = ti_status["succeeded"] \cup {t \in Running : mem[t] = "success"}
          /\ ti_status'["skipped"] = ti_status["skipped"] \cup {t \in Running : mem[t] = "skipped"}
          /\ ti_status'["failed"] = ti_status["failed"] \cup {t \in Running : mem[t] = "failed"}
          /\ ti_status'["to_run"] = ti_status["to_run"] \cup {t \in Running : Back(t)}
          /\ ti_status'["running"] = Running \ {t \in Running : mem[t] \in {"success", "skipped", "failed"} \/ Back(t)}
          /\ ti_status'["deadlocked"] = ti_status["deadlocked"]
      BY <1>l, <2>3 DEF UpdateCounters, Running
    <3>2. \A t \in Tasks : mem[t] \in {"success", "skipped"} => ti[t] = mem[t] /\ ti'[t] = ti[t]
      <4>1. \A t \in Tasks : mem[t] \in {"success", "skipped"} => ti'[t] = ti[t]
        BY <2>3 DEF UpdateCounters
      <4>2. \A t \in Tasks : mem[t] \in {"success", "skipped"} => ti[t] = mem[t]
        BY <2>3 DEF UpdateCounters, IInv, Task, Read, OpenStates
      <4>. QED  BY <4>1, <4>2
    <3>. QED  BY <3>1, <3>2 DEF ListsKept, InLists, Succeeded, Skipped, To_run, Running
  <2>4. ASSUME NEW u \in Tasks, ScanFinished(u) PROVE ListsKept(v)
    <3>1. Scanned(u) /\ status[u] \notin OpenStates /\ ti_status' = Listed(u, ListOf(status[u])) /\ ti' = ti
      BY <2>4 DEF ScanFinished, db
    <3>2. status[u] = ti[u] /\ status[u] \in States
      BY <3>1 DEF IInv, TypeOK, Task, Read, Scanned
    <3>3. /\ ListOf(status[u]) \in {"succeeded", "skipped", "failed"}
          /\ ListOf(status[u]) = "succeeded" => status[u] = "success"
          /\ ListOf(status[u]) = "skipped" => status[u] = "skipped"
      BY <3>1, <3>2 DEF ListOf, States, OpenStates, FailedStates
    <3>. QED  BY <1>m, <3>1, <3>2, <3>3
  <2>5. ASSUME NEW u \in Tasks, ScanFlagged(u) \/ ScanMet(u) \/ ScanUnmet(u) PROVE ListsKept(v)
    <3>1. \/ ti_status' = ti_status \/ ti_status' = [ti_status EXCEPT !["not_ready"] = @ \cup {u}]
          \/ ti_status' = Listed(u, "failed") \/ ti_status' = Listed(u, "running") \/ ti_status' = Listed(u, "to_run")
      BY <2>5 DEF ScanFlagged, ScanMet, ScanUnmet
    <3>. QED  BY <1>u, <1>n, <1>m, <3>1
  <2>6. ASSUME NEW u \in Tasks, RunInProcess(u) PROVE ti_status' = ti_status
    BY <2>6 DEF RunInProcess, job
  <2>7. ASSUME NEW e \in events, IgnoreEvent(e) \/ ManageEvent(e) PROVE ListsKept(v)
    <3>1. CASE ManageEvent(e) /\ e[2] = "upstream_failed"
      <4>0. e = <<e[1], "upstream_failed">>
        <5>1. e \in Tasks \X Results
          BY DEF IInv, TypeOK
        <5>. QED  BY <3>1, <5>1
      <4>1. e[1] # v
        BY <4>0 DEF GivenUp
      <4>2. ti_status' = [ti_status EXCEPT !["running"] = @ \ {e[1]}]
        BY <3>1 DEF ManageEvent
      <4>3. \A l \in Lists : ti_status'[l] = IF l = "running" THEN ti_status[l] \ {e[1]} ELSE ti_status[l]
        BY <1>l, <4>2
      <4>. QED  BY <1>l, <4>1, <4>3 DEF ListsKept, InLists, Succeeded, Skipped, To_run, Running
    <3>2. CASE ~(ManageEvent(e) /\ e[2] = "upstream_failed")
      BY <1>u, <2>7, <3>2 DEF IgnoreEvent, ManageEvent, job
    <3>. QED  BY <3>1, <3>2
  <2>8. CASE SyncAttempts \/ Heartbeat \/ InProcessDone
    BY <1>u, <2>8 DEF SyncAttempts, Heartbeat, InProcessDone
  <2>. QED  BY <1>1, <1>u, <2>1, <2>2, <2>3, <2>4, <2>5, <2>6, <2>7, <2>8 DEF Iterates
<1>2. CASE World \/ UpdateState \/ UpdateDataband
  BY <1>2, <1>u, WorldKeeps DEF UpdateState, UpdateDataband
<1>. QED  BY <1>1, <1>2, LoopCases DEF Start

\* At the start no task is accounted for and none has failed.
LEMMA EndingInit == ASSUME Init, NEW T PROVE Ending(T)
BY DEF Init, Ending, Accounted, FailedLeaf, Good

\* A look at a DAG run whose tasks have all succeeded, or were skipped, closes it as a success.
LEMMA LookCloses ==
  ASSUME IInv, Settling, FailedLeaf, UpdateState, \A t \in Tasks : Ended(t)
  PROVE  dag_run' = "success" \/ closed_early'
<1>e. \A t \in Tasks : ti[t] \in {"success", "skipped"}
  BY DEF Ended
<1>p. pc = "state" /\ pc \in Loop /\ dag_run \in {"running", "failed", "success"}
  BY DEF UpdateState, IInv, TypeOK, Loop
<1>1. CASE active
  BY <1>e, <1>1, LookClosed DEF OpenStates, FailedStates
<1>2. CASE ~active
  <2>1. UNCHANGED <<dag_run, closed_early>>
    BY <1>2 DEF UpdateState
  <2>2. dag_run # "running"
    BY <1>2, <1>p DEF Settling
  <2>3. ~closed_early => dag_run # "failed"
    BY <1>e, <1>p DEF FailedLeaf, FailedStates
  <2>. QED  BY <1>p, <2>1, <2>2, <2>3
<1>. QED  BY <1>1, <1>2

\* In the loop, only UpdateState changes the state of the DAG run.
LEMMA LoopKeeps ==
  ASSUME IInv, [Next]_vars, pc' \in Loop, ~(UpdateState /\ active)
  PROVE  UNCHANGED <<dag_run, closed_early>>
BY LoopCases, WorldKeeps, IteratesKeeps DEF Start, UpdateState, UpdateDataband, db, env

\* In the loop, what is closed stays as it is.
LEMMA LoopClosedKept ==
  ASSUME IInv, [Next]_vars, pc' \in Loop, NEW t \in Tasks \ cleared, Closed(t)
  PROVE  ti'[t] = ti[t]
<1>1. pc \notin {"done", "crashed"} /\ ~EndExecutor /\ ~Finally
  BY LoopCases DEF EndExecutor, Finally, Loop
<1>. QED  BY <1>1, ClosedKept

\* The DAG run that was closed as failed keeps the leaf that failed.
LEMMA FailedLeafStep ==
  ASSUME IInv, FailedLeaf, [Next]_vars, cleared = {}, pc' \in Loop
  PROVE  FailedLeaf'
<1>. SUFFICES ASSUME ~closed_early', dag_run' = "failed"
              PROVE  \E t \in Tasks : Leaf(t) /\ ti'[t] \in FailedStates
  BY DEF FailedLeaf, Leaf
<1>0. pc \in Loop
  BY LoopCases
<1>1. CASE UpdateState /\ active
  <2>1. \A t \in Tasks : ti[t] \notin OpenStates
    BY <1>1, LookFacts
  <2>2. PICK t \in Tasks : Leaf(t) /\ ti[t] \in FailedStates
    BY <1>1, <2>1, LookClosed
  <2>3. ti'[t] = ti[t]
    BY <1>1, <2>1, LookClosed
  <2>. QED  BY <2>2, <2>3
<1>2. CASE ~(UpdateState /\ active)
  <2>1. ~closed_early /\ dag_run = "failed"
    BY <1>2, LoopKeeps
  <2>2. PICK t \in Tasks : Leaf(t) /\ ti[t] \in FailedStates
    BY <1>0, <2>1 DEF FailedLeaf
  <2>3. ti'[t] = ti[t]
    BY <2>2, LoopClosedKept DEF Closed, FailedStates, OpenStates
  <2>. QED  BY <2>2, <2>3
<1>. QED  BY <1>1, <1>2

\* Every step keeps the tasks that are not given up in the job's lists.
LEMMA AccountedStep ==
  ASSUME NEW T \in SUBSET Tasks, IInv, Settling, Accounted(T), FailedLeaf, Finishes, [Next]_vars,
         cleared = {}, pc' \in Loop, \A t \in T : ~GivenUp(t)
  PROVE  Accounted(T)'
<1>0. pc \in Loop /\ (World \/ Iterates \/ Start \/ UpdateState \/ UpdateDataband)
  BY LoopCases
<1>1. CASE Start
  <2>1. /\ pc = "start" /\ pc' = "top" /\ To_run' = Tasks /\ Succeeded' = {} /\ Skipped' = {}
        /\ Tasks # {}
    BY <1>1, GraphAssumption DEF Start, Accounted, IInv, TypeOK, Lists, To_run,
       Succeeded, Skipped
  <2>. QED  BY <2>1 DEF Accounted, InLists, Idle
<1>2. CASE pc = "start" /\ ~Start
  <2>1. pc' = "start" /\ ti_status' = ti_status
    BY <1>0, <1>2, WorldKeeps, IteratesKeeps DEF UpdateState, UpdateDataband
  <2>. QED  BY <1>2, <2>1 DEF Accounted
<1>3. CASE pc # "start" /\ ~Start
  <2>0. pc' # "start"
    BY <1>0, <1>3, WorldKeeps, IteratesKeeps DEF UpdateState, UpdateDataband
  <2>1. ASSUME NEW t \in T
        PROVE  InLists(t)' /\ (t \in Succeeded' => ti'[t] = "success") /\ (t \in Skipped' => ti'[t] = "skipped")
    <3>1. ListsKept(t)
      BY <1>0, <1>3, ListsStep
    <3>2. InLists(t) /\ (t \in Succeeded => ti[t] = "success") /\ (t \in Skipped => ti[t] = "skipped")
      BY <1>0, <1>3 DEF Accounted
    <3>3. ti[t] \in {"success", "skipped"} => ti'[t] = ti[t]
      BY LoopClosedKept DEF Closed, OpenStates
    <3>. QED  BY <3>1, <3>2, <3>3 DEF ListsKept
  <2>2. ASSUME pc' \in {"databand", "top"}, Idle' PROVE dag_run' = "success" \/ closed_early'
    <3>1. CASE UpdateState
      <4>1. pc = "state" /\ ti_status' = ti_status
        BY <3>1 DEF UpdateState
      <4>2. Idle
        BY <2>2, <4>1 DEF Idle, To_run, Running, Troubled
      <4>3. \A t \in Tasks : Ended(t)
        BY <4>1, <4>2 DEF Finishes
      <4>. QED  BY <3>1, <4>3, LookCloses
    <3>2. CASE ~UpdateState
      <4>1. pc \in {"databand", "top"} /\ UNCHANGED <<ti_status, dag_run, closed_early>>
        BY <1>0, <1>3, <2>2, <3>2, WorldKeeps, IteratesKeeps DEF UpdateDataband, db
      <4>2. Idle
        BY <2>2, <4>1 DEF Idle, To_run, Running, Troubled
      <4>. QED  BY <1>0, <4>1, <4>2 DEF Accounted
    <3>. QED  BY <3>1, <3>2
  <2>. QED  BY <2>0, <2>1, <2>2 DEF Accounted
<1>. QED  BY <1>1, <1>2, <1>3

\* The step that ends the job with success finds every task ended, and no process at work.
LEMMA SuccessStep ==
  ASSUME NEW T, IInv, Accounted(T), Finishes, cleared = {}, LoopEnds, outcome' = "success"
  PROVE  Good'
<1>1. pc = "top" /\ Idle /\ UNCHANGED <<ti, dag_run, closed_early, procs>>
  BY DEF LoopEnds, Busy, Idle, To_run, Running, Troubled, db, exec
<1>2. \A t \in Tasks : ti[t] \in {"success", "skipped"}
  BY <1>1 DEF Finishes, Ended
<1>3. dag_run = "success" \/ closed_early
  BY <1>1 DEF Accounted, Loop
<1>4. ASSUME NEW t \in Tasks, NEW k \in Tries PROVE procs[t][k] \notin AtWork
  <2>1. t \notin Running
    BY <1>1 DEF Idle
  <2>2. Stage(t) /\ ~Held(t) /\ Upstream[t] \cap cleared = {}
    BY <1>1, <2>1 DEF IInv, Task, Staged, Held
  <2>3. Started(t) => procs[t][k] \notin AtWork
    BY <2>2 DEF Started, Process, AtWork
  <2>. QED  BY <2>2, <2>3 DEF Stage, Away, InQueue, Told, NoProc, AtWork
<1>. QED  BY <1>1, <1>2, <1>3, <1>4 DEF Good, AllDone

\* What is left of the job keeps a success.
LEMMA GoodKept ==
  ASSUME IInv, Good, closed_early => dag_run # "running", outcome = "success", pc \in {"finally", "clean", "done"},
         [Next]_vars
  PROVE  Good' /\ (outcome' = "success" => pc' \in {"finally", "clean", "done"})
<1>g. /\ \A t \in Tasks : ti[t] \in {"success", "skipped"}
      /\ \A t \in Tasks, k \in Tries : procs[t][k] \notin AtWork
      /\ dag_run = "success" \/ closed_early
      /\ dag_run # "running"
  BY DEF Good, AllDone
<1>t. procs \in [Tasks -> [Tries -> ProcStates]]
  BY DEF IInv, TypeOK
<1>1. CASE World
  <2>1. ASSUME NEW t \in Tasks, NEW k \in Tries PROVE /\ ~ProcBoots(t, k) /\ ~ProcWrites(t, k)
                                                      /\ ~ProcMeetsLimit(t, k) /\ ~ProcDies(t, k)
    BY <1>g DEF ProcBoots, ProcWrites, ProcMeetsLimit, ProcDies, AtWork
  <2>2. ASSUME NEW t \in Tasks, NEW k \in Tries, ProcExits(t, k)
        PROVE  ti' = ti /\ \A u \in Tasks, i \in Tries : procs'[u][i] \notin AtWork
    <3>1. ti' = ti /\ procs' = [procs EXCEPT ![t][k] = "exited"]
      BY <2>2 DEF ProcExits, db
    <3>. QED  BY <1>g, <1>t, <3>1 DEF AtWork
  <2>3. ASSUME NEW t \in Tasks, DelayPasses(t) PROVE UNCHANGED <<ti, procs>>
    BY <2>3 DEF DelayPasses, exec
  <2>6. \A t \in Tasks : ~Clear(t)
    BY <1>g DEF Clear
  <2>4. Kill \/ UNCHANGED vars => UNCHANGED <<ti, procs>>
    BY DEF Kill, vars, db, exec
  <2>5. (\A t \in Tasks : ti'[t] = ti[t]) /\ \A t \in Tasks, k \in Tries : procs'[t][k] \notin AtWork
    <3>1. \/ \E t \in Tasks, k \in Tries : ProcExits(t, k)
          \/ UNCHANGED <<ti, procs>>
      BY <1>1, <2>1, <2>3, <2>4, <2>6 DEF World
    <3>. QED  BY <1>g, <2>2, <3>1
  <2>. QED  BY <1>1, <1>g, <2>5, WorldKeeps DEF Good, AllDone
<1>2. CASE EndExecutor
  <2>1. PICK alive \in SUBSET {t \in Tasks : \E k \in Tries : procs[t][k] # "none"} :
          procs' = [t \in Tasks |-> IF t \in alive THEN procs[t] ELSE [k \in Tries |-> "none"]]
    BY <1>2 DEF EndExecutor
  <2>2. PICK marked \in Marked : ti' = [t \in Tasks |-> IF t \in marked THEN "upstream_failed" ELSE ti[t]]
    BY <1>2 DEF EndExecutor
  <2>3. marked = {}
    BY <1>2, MarkedFacts DEF EndExecutor
  <2>4. \A t \in Tasks, k \in Tries : procs'[t][k] \notin AtWork
    BY <1>g, <2>1 DEF AtWork
  <2>5. pc' = "clean" /\ UNCHANGED <<dag_run, closed_early>>
    BY <1>2 DEF EndExecutor
  <2>. QED  BY <1>g, <2>2, <2>3, <2>4, <2>5 DEF Good, AllDone
<1>3. CASE Finally
  BY <1>3, <1>g DEF Finally, Good, AllDone, exec
<1>4. CASE JobCrashes
  BY <1>4 DEF JobCrashes, Good
<1>5. ~KillZombies /\ ~Start /\ ~LoopKilled /\ ~LoopEnds /\ ~UpdateState /\ ~UpdateDataband /\ ~JobRaises /\ ~Iterates
  BY <1>g, IteratesKeeps DEF KillZombies, Start, LoopKilled, LoopEnds, UpdateState,
     UpdateDataband, JobRaises, Loop
<1>. QED  BY <1>1, <1>2, <1>3, <1>4, <1>5, Cases

\* A DAG run that was closed early stays closed.
LEMMA ClosedEarlyKept ==
  ASSUME IInv, [Next]_vars, closed_early => dag_run # "running"
  PROVE  closed_early' => dag_run' # "running"
<1>1. CASE UpdateState
  <2>1. CASE active
    BY <1>1, <2>1, LookFacts
  <2>2. CASE ~active
    BY <1>1, <2>2 DEF UpdateState
  <2>. QED  BY <2>1, <2>2
<1>2. CASE ~UpdateState
  BY <1>2, Cases, WorldKeeps, IteratesKeeps DEF Start, LoopKilled, LoopEnds,
     UpdateDataband, EndExecutor, Finally, JobRaises, JobCrashes, KillZombies, db, job
<1>. QED  BY <1>1, <1>2

\* Every step keeps Ending, if the tasks in T are not given up, and the tasks have ended when the
\* lists say so.
LEMMA EndingStep ==
  ASSUME NEW T \in SUBSET Tasks, IInv, Settling, Ending(T), [Next]_vars, Finishes,
         pc \in Loop /\ cleared = {} => \A t \in T : ~GivenUp(t)
  PROVE  Ending(T)'
<1>1. closed_early' => dag_run' # "running"
  BY ClosedEarlyKept DEF Ending
<1>2. outcome' = "success" => \/ outcome # "success" /\ LoopEnds /\ pc' = "finally"
                              \/ outcome = "success" /\ pc \in {"finally", "clean", "done"}
  BY OutcomeFacts DEF Ending, LoopEnds
<1>3. CASE cleared' = {}
  <2>0. cleared = {}
    BY <1>3, ClearedGrows
  <2>1. Accounted(T) /\ FailedLeaf /\ Good
    BY <2>0 DEF Ending
  <2>2. Accounted(T)' /\ FailedLeaf'
    <3>1. CASE pc' \in Loop
      <4>1. \A t \in T : ~GivenUp(t)
        BY <2>0, <3>1, LoopCases
      <4>. QED  BY <2>0, <2>1, <3>1, <4>1, AccountedStep, FailedLeafStep
    <3>2. CASE pc' \notin Loop
      BY <3>2 DEF Accounted, FailedLeaf, Loop
    <3>. QED  BY <3>1, <3>2
  <2>3. Good' /\ (outcome' = "success" => pc' \in {"finally", "clean", "done"})
    <3>1. CASE outcome' # "success"
      BY <3>1 DEF Good
    <3>2. CASE outcome' = "success"
      BY <1>2, <2>0, <2>1, <3>2, SuccessStep, GoodKept DEF Ending
    <3>. QED  BY <3>1, <3>2
  <2>. QED  BY <1>1, <2>2, <2>3 DEF Ending
<1>4. CASE cleared' # {}
  <2>1. outcome' = "success" => pc' \in {"finally", "clean", "done"}
    <3>1. ASSUME outcome = "success", pc \in {"finally", "clean", "done"}, outcome' = "success"
          PROVE  pc' \in {"finally", "clean", "done"}
      BY <3>1, Cases, WorldKeeps, IteratesKeeps DEF Start, LoopKilled, LoopEnds,
         UpdateState, UpdateDataband, EndExecutor, Finally, JobRaises, JobCrashes,
         KillZombies, job, Loop
    <3>. QED  BY <1>2, <3>1
  <2>. QED  BY <1>1, <1>4, <2>1 DEF Ending
<1>. QED  BY <1>3, <1>4

\* The results that the executor gives.
LEMMA GivenUpStep ==
  ASSUME IInv, NoneGivenUp, [Next]_vars
  PROVE  NoneGivenUp' /\ (GivesUp' <=> GivesUp)
<1>1. GivesUp' <=> GivesUp
  <2>1. CASE World \/ Iterates
    BY <2>1, WorldKeeps, IteratesKeeps DEF GivesUp
  <2>2. CASE Start \/ LoopKilled \/ LoopEnds \/ UpdateState \/ UpdateDataband \/ EndExecutor
             \/ Finally \/ JobRaises \/ JobCrashes \/ KillZombies
    <3>1. UNCHANGED env
      BY <2>2 DEF Start, LoopKilled, LoopEnds, UpdateState, UpdateDataband, EndExecutor,
         Finally, JobRaises, JobCrashes, KillZombies
    <3>. QED  BY <3>1 DEF env, GivesUp
  <2>. QED  BY <2>1, <2>2, Cases
<1>2. ASSUME ~GivesUp PROVE \A e \in events' : e \in events \/ e[2] = "finished"
  <2>. USE DEF vars, exec
  <2>1. ASSUME NEW u \in Tasks, RunInProcess(u) PROVE \A e \in events' : e \in events \/ e[2] = "finished"
    <3>1. events' = events \cup {<<u, "finished">>}
      BY <1>2, <2>1 DEF RunInProcess, GivesUp
    <3>. QED  BY <3>1
  <2>2. ASSUME NEW u \in Tasks, ScanFinished(u) \/ ScanFlagged(u) \/ ScanMet(u) \/ ScanUnmet(u) PROVE events' = events
    BY <2>2 DEF ScanFinished, ScanFlagged, ScanMet, ScanUnmet
  <2>3. ASSUME NEW e \in events, IgnoreEvent(e) \/ ManageEvent(e) PROVE events' \subseteq events
    BY <2>3 DEF IgnoreEvent, ManageEvent
  <2>4. CASE Heartbeat
    BY <2>4 DEF Heartbeat
  <2>5. CASE LoopTop \/ SyncAttempts \/ InProcessDone \/ DeadlockCheck \/ UpdateCounters
    BY <2>5 DEF LoopTop, SyncAttempts, InProcessDone, DeadlockCheck, UpdateCounters
  <2>6. Iterates => \A e \in events' : e \in events \/ e[2] = "finished"
    BY <2>1, <2>2, <2>3, <2>4, <2>5 DEF Iterates
  <2>. QED  BY <2>6, Cases, WorldKeeps DEF Start, LoopKilled, LoopEnds, UpdateState, UpdateDataband, EndExecutor,
               Finally, JobRaises, JobCrashes, KillZombies
<1>. QED  BY <1>1, <1>2 DEF NoneGivenUp

\* With every task accounted for, empty lists of open and failed tasks mean that all have ended.
LEMMA AllFinish == ASSUME IInv, Ending(Tasks) PROVE Finishes
<1>. SUFFICES ASSUME cleared = {}, pc \in {"top", "state"}, Idle, NEW t \in Tasks PROVE Ended(t)
  BY DEF Finishes
<1>1. Accounted(Tasks) /\ pc \in Loop \ {"start"}
  BY DEF Ending, Loop
<1>2. t \in Succeeded \cup Skipped
  BY <1>1 DEF Accounted, InLists, Idle, Troubled
<1>. QED  BY <1>1, <1>2 DEF Accounted, Ended

\* A job that ends without an error has run every task, unless the executor gives tasks up: one
\* that does so (in the process of the job, in the fail_fast mode) drops them from the lists.
THEOREM SuccessMeansDoneHolds == Spec => []SuccessMeansDone
<1>0. Init => (~GivesUp => Ending(Tasks)) /\ NoneGivenUp
  BY EndingInit DEF Init, NoneGivenUp
<1>1. IInv /\ Settling /\ [Next]_vars => Settling'
  BY SettlingStep
<1>2. IInv /\ NoneGivenUp /\ [Next]_vars => NoneGivenUp'
  BY GivenUpStep
<1>3. IInv /\ Settling /\ NoneGivenUp /\ (~GivesUp => Ending(Tasks)) /\ [Next]_vars => (~GivesUp => Ending(Tasks))'
  <2>1. NoneGivenUp /\ ~GivesUp => \A t \in Tasks : ~GivenUp(t)
    BY DEF NoneGivenUp, GivenUp
  <2>2. IInv /\ NoneGivenUp /\ [Next]_vars => (GivesUp' <=> GivesUp)
    BY GivenUpStep
  <2>. QED  BY <2>1, <2>2, AllFinish, EndingStep
<1>4. (~GivesUp => Ending(Tasks)) => SuccessMeansDone
  BY DEF GivesUp, Ending, Good, SuccessMeansDone
<1>. QED  BY <1>0, <1>1, <1>2, <1>3, <1>4, SettlingInit, Invariance, PTL DEF Spec

-----------------------------------------------------------------------------
(***************************************************************************)
(* What success means where tasks are given up.  The DAG of a run is what  *)
(* its root task needs (TaskRunsBuilder): each task that is not reused is  *)
(* needed, directly or through others that are not reused, by the root r.  *)
(* A set that holds r and what its members need holds all such tasks.      *)
(***************************************************************************)
Rooted(r) ==
  \A S \in SUBSET Tasks : r \in S /\ (\A t \in S \ Reused : Upstream[t] \subseteq S) => Tasks \ Reused \subseteq S

Succ(t) == ti[t] = "success"
Working(t) == \E k \in Tries : procs[t][k] = "running"

\* Success grows from the upstream tasks to the root.
Grown ==
  /\ \A t \in Reused : Succ(t)
  /\ \A t \in Tasks \ Reused : Succ(t) \/ Working(t) => \A u \in Upstream[t] : Succ(u)

Unskipped == \A t \in Tasks : ti[t] # "skipped" /\ status[t] # "skipped"

\* A task whose upstream tasks have not all succeeded is still to run, or in trouble.
Pending(t) == ti_status["deadlocked"] = {} => t \in To_run \cup ti_status["failed"]
Kept == pc # "start" => \A t \in Tasks \ Reused : (\E u \in Upstream[t] : ~Succ(u)) => Pending(t)

\* The root is alone in its batch.
RootRuns(r) == ~GivenUp(r) /\ (pc = "heartbeat" /\ r \in queued => ~task_failed)

Growing(r) == cleared = {} /\ pc \in Loop => Grown /\ Unskipped /\ Kept /\ RootRuns(r)

\* Nothing has been given up or flagged when the job starts.
LEMMA GrowingInit == ASSUME Init, NEW r \in Tasks PROVE Growing(r)
<1>1. /\ \A t \in Tasks : ti[t] = IF t \in Reused THEN "success" ELSE "none"
      /\ \A t \in Tasks : ~Working(t)
      /\ Reused \subseteq Tasks /\ status = ti /\ events = {} /\ queued = {} /\ pc = "start"
  BY GraphAssumption DEF Init, Working
<1>2. Grown
  BY <1>1 DEF Grown, Succ
<1>3. Unskipped
  BY <1>1 DEF Unskipped
<1>. QED  BY <1>1, <1>2, <1>3 DEF Growing, Kept, RootRuns, GivenUp

\* Only a task that was queued, or whose process works, succeeds or is skipped by itself.
LEMMA SuccFrom ==
  ASSUME IInv, Unskipped, Skippable = {}, [Next]_vars, pc' \in Loop, NEW t \in Tasks, ti'[t] # ti[t]
  PROVE  ti'[t] # "skipped" /\ (ti'[t] = "success" => t \in queued \/ Working(t))
<1>t. ti \in [Tasks -> States] /\ \A u \in Tasks : Upstream[u] \subseteq Tasks
  BY GraphAssumption DEF IInv, TypeOK
<1>g. \A u \in Tasks : Trigger(u) \in {"upstream_failed", "met", "unmet"}
  BY <1>t DEF Trigger, Unskipped
<1>. USE DEF vars, db, exec, job, env
<1>1. CASE Iterates \/ Start \/ UpdateState \/ UpdateDataband
  <2>1. ASSUME NEW u \in Tasks, RunInProcess(u) PROVE ti'[t] # "skipped" /\ t \in queued
    <3>1. u \in queued /\ \E s \in {"success", "failed", "upstream_failed", "up_for_retry"} : ti' = [ti EXCEPT ![u] = s]
      BY <2>1 DEF RunInProcess
    <3>. QED  BY <1>t, <3>1
  <2>2. ASSUME NEW u \in Tasks, ScanFlagged(u) PROVE ti'[t] \notin {"skipped", "success"}
    <3>1. ti' = [ti EXCEPT ![u] = Trigger(u)] /\ Trigger(u) \in {"upstream_failed", "skipped"}
      BY <2>2 DEF ScanFlagged
    <3>. QED  BY <1>t, <1>g, <3>1
  <2>3. ASSUME NEW u \in Tasks, ScanMet(u) \/ ScanUnmet(u) PROVE ti'[t] \notin {"skipped", "success"}
    <3>1. \E s \in {"queued", "scheduled", ti[u]} : ti' = [ti EXCEPT ![u] = s]
      BY <2>3 DEF ScanMet, ScanUnmet, Stored
    <3>. QED  BY <1>t, <3>1
  <2>4. ASSUME NEW e \in events, ManageEvent(e) PROVE ti'[t] \notin {"skipped", "success"}
    <3>1. ti' = ti \/ \E s \in {"up_for_retry", "failed"} : ti' = [ti EXCEPT ![e[1]] = s]
      BY <2>4 DEF ManageEvent, Failure
    <3>. QED  BY <1>t, <3>1
  <2>5. CASE UpdateCounters \/ Start
    BY <2>5 DEF UpdateCounters, Start
  <2>6. CASE UpdateState
    <3>1. ti'[t] = Trigger(t) /\ Trigger(t) \in {"upstream_failed", "skipped"}
      BY <2>6 DEF UpdateState, AirflowState, Flaggable
    <3>. QED  BY <1>g, <3>1
  <2>8. ASSUME NEW u \in Tasks, ScanFinished(u) PROVE ti' = ti
    BY <2>8 DEF ScanFinished
  <2>9. ASSUME NEW e \in events, IgnoreEvent(e) PROVE ti' = ti
    BY <2>9 DEF IgnoreEvent
  <2>10. CASE LoopTop \/ SyncAttempts \/ Heartbeat \/ InProcessDone \/ DeadlockCheck \/ UpdateDataband
    BY <2>10 DEF LoopTop, SyncAttempts, Heartbeat, InProcessDone, DeadlockCheck, UpdateDataband
  <2>. QED  BY <1>1, <2>1, <2>2, <2>3, <2>4, <2>5, <2>6, <2>8, <2>9, <2>10 DEF Iterates
<1>2. ASSUME NEW u \in Tasks, NEW k \in Tries, ProcBoots(u, k) \/ ProcMeetsLimit(u, k)
      PROVE  ti'[t] \notin {"skipped", "success"}
  <2>1. ti' = ti \/ \E s \in {"running", "none"} : ti' = [ti EXCEPT ![u] = s]
    BY <1>2 DEF ProcBoots, ProcMeetsLimit
  <2>. QED  BY <1>t, <2>1
<1>3. ASSUME NEW u \in Tasks, NEW k \in Tries, ProcWrites(u, k) PROVE ti'[t] # "skipped" /\ Working(t)
  <2>1. procs[u][k] = "running" /\ \E s \in {"success", "up_for_retry", "failed"} : ti' = [ti EXCEPT ![u] = s]
    BY <1>3 DEF ProcWrites, Failure
  <2>. QED  BY <1>t, <2>1 DEF Working
<1>4. ASSUME NEW u \in Tasks, NEW k \in Tries, ProcExits(u, k) \/ ProcDies(u, k) PROVE ti' = ti
  BY <1>4 DEF ProcExits, ProcDies
<1>5. ASSUME NEW u \in Tasks, DelayPasses(u) \/ Clear(u) PROVE ti'[t] \notin {"skipped", "success"}
  <2>1. ti' = ti \/ ti' = [ti EXCEPT ![u] = "none"]
    BY <1>5 DEF DelayPasses, Clear
  <2>. QED  BY <1>t, <2>1
<1>6. CASE Kill \/ UNCHANGED vars
  BY <1>6 DEF Kill
<1>. QED  BY <1>1, <1>2, <1>3, <1>4, <1>5, <1>6, LoopCases DEF World

\* Only a launched process starts to work, and what the job holds as read was in the database.
LEMMA WorkingFrom ==
  ASSUME IInv, [Next]_vars, pc' \in Loop, NEW t \in Tasks
  PROVE  (Working(t)' => Working(t) \/ Sent(t)) /\ (status'[t] = status[t] \/ status'[t] = ti[t])
<1>t. procs \in [Tasks -> [Tries -> ProcStates]]
  BY DEF IInv, TypeOK
<1>p. ASSUME NEW u \in Tasks, NEW k \in Tries, NEW s \in ProcStates, procs' = [procs EXCEPT ![u][k] = s],
             s = "running" => procs[u][k] = "launched"
      PROVE  Working(t)' => Working(t) \/ Sent(t)
  <2>1. \A i \in Tries : procs'[t][i] = "running" => procs[t][i] \in {"running", "launched"}
    BY <1>t, <1>p
  <2>. QED  BY <2>1 DEF Working, Sent
<1>u. procs' = procs => (Working(t)' => Working(t))
  BY DEF Working
<1>. USE DEF vars, db, exec, job, env
<1>1. CASE Iterates \/ Start \/ UpdateState \/ UpdateDataband
  <2>1. ASSUME NEW u \in Tasks, ScanFinished(u) \/ ScanFlagged(u) \/ ScanMet(u) \/ ScanUnmet(u) \/ RunInProcess(u)
        PROVE  UNCHANGED <<procs, status>>
    BY <2>1 DEF ScanFinished, ScanFlagged, ScanMet, ScanUnmet, RunInProcess
  <2>2. ASSUME NEW e \in events, IgnoreEvent(e) \/ ManageEvent(e) PROVE UNCHANGED <<procs, status>>
    BY <2>2 DEF IgnoreEvent, ManageEvent
  <2>3. CASE Start \/ SyncAttempts \/ InProcessDone \/ UpdateCounters \/ UpdateState \/ UpdateDataband
    BY <1>u, <2>3 DEF Start, SyncAttempts, InProcessDone, UpdateCounters, UpdateState,
       UpdateDataband
  <2>4. CASE LoopTop \/ DeadlockCheck
    BY <1>u, <2>4 DEF LoopTop, DeadlockCheck, Refresh
  <2>5. CASE Heartbeat
    <3>1. \A i \in Tries : procs'[t][i] = "running" => procs[t][i] = "running"
      BY <2>5 DEF Heartbeat
    <3>. QED  BY <2>5, <3>1 DEF Heartbeat, Working
  <2>. QED  BY <1>1, <1>u, <2>1, <2>2, <2>3, <2>4, <2>5 DEF Iterates
<1>2. ASSUME NEW u \in Tasks, NEW k \in Tries,
             ProcBoots(u, k) \/ ProcWrites(u, k) \/ ProcExits(u, k) \/ ProcMeetsLimit(u, k) \/ ProcDies(u, k)
      PROVE  (Working(t)' => Working(t) \/ Sent(t)) /\ status' = status
  <2>1. /\ status' = status
        /\ \E s \in ProcStates : /\ procs' = [procs EXCEPT ![u][k] = s]
                                 /\ s = "running" => procs[u][k] = "launched"
    BY <1>2 DEF ProcBoots, ProcWrites, ProcExits, ProcMeetsLimit, ProcDies, ProcStates
  <2>. QED  BY <1>p, <2>1
<1>3. ASSUME NEW u \in Tasks, DelayPasses(u) \/ Clear(u) PROVE UNCHANGED <<procs, status>>
  BY <1>3 DEF DelayPasses, Clear
<1>4. CASE Kill \/ UNCHANGED vars
  BY <1>4, <1>u DEF Kill
<1>. QED  BY <1>1, <1>u, <1>2, <1>3, <1>4, LoopCases DEF World

\* A success stays one.
LEMMA SuccKept ==
  ASSUME IInv, [Next]_vars, cleared = {}, pc' \in Loop, NEW t \in Tasks, Succ(t)
  PROVE  Succ(t)'
BY LoopClosedKept DEF Succ, Closed, OpenStates

\* Every step keeps what success grows from.
LEMMA GrownStep ==
  ASSUME IInv, Grown, Unskipped, Skippable = {}, [Next]_vars, cleared = {}, pc' \in Loop
  PROVE  Grown' /\ Unskipped'
<1>g. Reused \subseteq Tasks /\ \A t \in Tasks : Upstream[t] \subseteq Tasks
  BY GraphAssumption
<1>1. Unskipped'
  BY SuccFrom, WorkingFrom DEF Unskipped
<1>2. \A t \in Reused : Succ(t)'
  BY <1>g, SuccKept DEF Grown
<1>3. ASSUME NEW t \in Tasks \ Reused, Succ(t)' \/ Working(t)', NEW u \in Upstream[t] PROVE Succ(u)'
  <2>1. Succ(t) \/ Working(t) \/ Sent(t)
    BY <1>3, SuccFrom, WorkingFrom DEF Succ, Sent
  <2>2. Sent(t) => Succ(u)
    BY <1>3 DEF IInv, Upstreams, Succ
  <2>3. Succ(u)
    BY <1>3, <2>1, <2>2 DEF Grown
  <2>. QED  BY <1>g, <1>3, <2>3, SuccKept
<1>. QED  BY <1>1, <1>2, <1>3 DEF Grown

\* A task leaves to_run for the executor, or because it has ended.
LEMMA LeavesToRun ==
  ASSUME IInv, [Next]_vars, pc' \in Loop, NEW t \in Tasks, Pending(t), ~Pending(t)'
  PROVE  pc = "scan" /\ t \in scan /\ (Trigger(t) = "met" \/ status[t] \in {"success", "skipped"})
<1>l. /\ ti_status \in [Lists -> SUBSET Tasks]
      /\ Lists = {"to_run", "running", "succeeded", "skipped", "failed", "not_ready", "deadlocked"}
  BY DEF IInv, TypeOK, Lists
<1>s. ASSUME \A l \in {"to_run", "failed", "deadlocked"} : ti_status[l] \subseteq ti_status'[l] PROVE FALSE
  BY <1>s DEF To_run, Pending
<1>u. ti_status' # ti_status
  BY <1>s
<1>m. ASSUME NEW u \in Tasks, NEW l \in Lists, ti_status' = Listed(u, l)
      PROVE  u = t /\ l \notin {"to_run", "failed"}
  <2>1. \A k \in Lists : ti_status'[k] = IF k = l THEN ti_status[k] \cup {u}
                                         ELSE IF k \in {"to_run", "running"} THEN ti_status[k] \ {u}
                                         ELSE ti_status[k]
    BY <1>m DEF Listed
  <2>2. ti_status["deadlocked"] \subseteq ti_status'["deadlocked"]
    BY <1>l, <2>1
  <2>. QED  BY <1>l, <2>1, <2>2 DEF To_run, Pending
<1>n. \A u \in Tasks : ti_status' # [ti_status EXCEPT !["not_ready"] = @ \cup {u}]
  BY <1>l, <1>s
<1>. USE DEF vars, job
<1>1. CASE Iterates \/ Start \/ UpdateState \/ UpdateDataband
  <2>1. ~Start
    <3>1. Start => ti_status' = [ti_status EXCEPT !["to_run"] = Tasks]
      BY DEF Start
    <3>. QED  BY <1>l, <1>s, <3>1
  <2>2. ~LoopTop
    <3>1. LoopTop => ti_status' = [ti_status EXCEPT !["not_ready"] = {}]
      BY DEF LoopTop
    <3>. QED  BY <1>l, <1>s, <3>1
  <2>3. ~DeadlockCheck
    <3>1. DeadlockCheck => \/ ti_status' = ti_status
                           \/ /\ ti_status' = [ti_status EXCEPT !["deadlocked"] = ti_status["to_run"], !["to_run"] = {}]
                              /\ ti_status["to_run"] # {}
      BY DEF DeadlockCheck
    <3>2. ti_status'["deadlocked"] = {}
      BY DEF Pending
    <3>. QED  BY <1>l, <1>u, <3>1, <3>2
  <2>4. ~UpdateCounters
    <3>1. UpdateCounters => /\ ti_status["failed"] \subseteq ti_status'["failed"]
                            /\ ti_status["to_run"] \subseteq ti_status'["to_run"]
                            /\ ti_status'["deadlocked"] = ti_status["deadlocked"]
      BY <1>l DEF UpdateCounters
    <3>. QED  BY <1>s, <3>1
  <2>5. ASSUME NEW u \in Tasks, ScanFinished(u) PROVE u = t /\ status[u] \in {"success", "skipped"}
    <3>1. status[u] \in States \ OpenStates /\ ti_status' = Listed(u, ListOf(status[u]))
      BY <2>5 DEF ScanFinished, IInv, TypeOK
    <3>2. ListOf(status[u]) \in {"succeeded", "skipped", "failed"}
          /\ (status[u] \in FailedStates => ListOf(status[u]) = "failed")
      BY <3>1 DEF ListOf, States, OpenStates, FailedStates
    <3>3. u = t /\ ListOf(status[u]) # "failed"
      BY <1>l, <1>m, <3>1, <3>2
    <3>. QED  BY <3>1, <3>2, <3>3 DEF States, OpenStates, FailedStates
  <2>6. ASSUME NEW u \in Tasks, ScanMet(u) PROVE u = t /\ Trigger(u) = "met"
    <3>1. Trigger(u) = "met" /\ ti_status' = Listed(u, "running")
      BY <1>u, <2>6 DEF ScanMet
    <3>. QED  BY <1>l, <1>m, <3>1
  <2>7. ASSUME NEW u \in Tasks PROVE ~ScanFlagged(u) /\ ~ScanUnmet(u)
    <3>1. ScanFlagged(u) \/ ScanUnmet(u) => \/ ti_status' = [ti_status EXCEPT !["not_ready"] = @ \cup {u}]
                                            \/ ti_status' = Listed(u, "failed") \/ ti_status' = Listed(u, "to_run")
      BY DEF ScanFlagged, ScanUnmet
    <3>. QED  BY <1>l, <1>m, <1>n, <3>1
  <2>8. ASSUME NEW u \in Tasks PROVE ~RunInProcess(u)
    BY <1>u DEF RunInProcess
  <2>9. ASSUME NEW e \in events PROVE ~IgnoreEvent(e) /\ ~ManageEvent(e)
    <3>1. IgnoreEvent(e) \/ ManageEvent(e) =>
             ti_status' = ti_status \/ ti_status' = [ti_status EXCEPT !["running"] = @ \ {e[1]}]
      BY DEF IgnoreEvent, ManageEvent
    <3>. QED  BY <1>l, <1>s, <3>1
  <2>10. ~(SyncAttempts \/ Heartbeat \/ InProcessDone \/ UpdateState \/ UpdateDataband)
    BY <1>u DEF SyncAttempts, Heartbeat, InProcessDone, UpdateState, UpdateDataband
  <2>11. ASSUME NEW u \in Tasks, ScanFinished(u) \/ ScanMet(u) PROVE pc = "scan" /\ u \in scan
    BY <2>11 DEF ScanFinished, ScanMet, Scanned
  <2>. QED  BY <1>1, <2>1, <2>2, <2>3, <2>4, <2>5, <2>6, <2>7, <2>8, <2>9, <2>10, <2>11 DEF Iterates
<1>2. ~World
  BY <1>u, WorldKeeps
<1>. QED  BY <1>1, <1>2, LoopCases

\* A task whose upstream tasks have not all succeeded is kept: the job neither sends it nor takes
\* it for ended, whatever it read.
LEMMA KeptStep ==
  ASSUME IInv, Grown, Unskipped, Kept, [Next]_vars, cleared = {}, pc' \in Loop
  PROVE  Kept'
<1>. SUFFICES ASSUME pc' # "start", NEW t \in Tasks \ Reused, NEW u \in Upstream[t], ~Succ(u)' PROVE Pending(t)'
  BY DEF Kept
<1>g. u \in Tasks
  BY GraphAssumption
<1>1. ~Succ(u)
  BY <1>g, SuccKept
<1>2. CASE pc = "start"
  <2>1. Start
    BY <1>2, LoopCases, WorldKeeps, IteratesKeeps DEF UpdateState, UpdateDataband
  <2>2. ti_status' = [ti_status EXCEPT !["to_run"] = Tasks] /\ "to_run" \in DOMAIN ti_status
    BY <2>1 DEF Start, IInv, TypeOK, Lists
  <2>. QED  BY <2>2 DEF Pending, To_run
<1>3. CASE pc # "start"
  <2>1. Pending(t)
    BY <1>1, <1>3 DEF Kept
  <2>2. ASSUME pc = "scan", t \in scan, Trigger(t) = "met" PROVE FALSE
    <3>1. status[u] = "success"
      BY <2>2 DEF Trigger
    <3>. QED  BY <1>g, <1>1, <2>2, <3>1 DEF IInv, Task, Success, Succ
  <2>3. ASSUME pc = "scan", t \in scan, status[t] \in {"success", "skipped"} PROVE FALSE
    <3>1. status[t] = ti[t] /\ status[t] # "skipped"
      BY <2>3 DEF IInv, Task, Read, Unskipped
    <3>. QED  BY <1>1, <2>3, <3>1 DEF Grown, Succ
  <2>. QED  BY <2>1, <2>2, <2>3, LeavesToRun
<1>. QED  BY <1>2, <1>3

\* What the root needs has succeeded when the root is sent: no task is left to share its batch.
LEMMA RootAlone ==
  ASSUME IInv, Grown, cleared = {}, NEW r \in Tasks, Rooted(r), r \in queued
  PROVE  \A t \in Tasks \ {r} : Succ(t)
<1>. DEFINE S == {t \in Tasks : Succ(t)} \cup {r}
<1>g. \A t \in Tasks : Upstream[t] \subseteq Tasks
  BY GraphAssumption
<1>1. \A u \in Upstream[r] : Succ(u)
  BY DEF IInv, Upstreams, Sent, Succ
<1>2. \A t \in S \ Reused : Upstream[t] \subseteq S
  BY <1>g, <1>1 DEF Grown
<1>3. S \in SUBSET Tasks /\ r \in S
  OBVIOUS
<1>4. Tasks \ Reused \subseteq S
  <2>. HIDE DEF S
  <2>. QED  BY <1>2, <1>3 DEF Rooted
<1>. QED  BY <1>4 DEF Grown

\* The results that the executor gives, and the queue at the heartbeat, as far as the root goes.
LEMMA RootRunsStep ==
  ASSUME NEW r \in Tasks, Rooted(r), IInv, Grown, RootRuns(r), [Next]_vars, cleared = {}, pc' \in Loop
  PROVE  RootRuns(r)'
<1>. USE DEF vars, exec, job
<1>u. UNCHANGED <<queued, events, task_failed, pc>> => RootRuns(r)'
  BY DEF RootRuns, GivenUp
<1>n. events' \subseteq events /\ pc' # "heartbeat" => RootRuns(r)'
  BY DEF RootRuns, GivenUp
<1>1. CASE Iterates \/ Start \/ UpdateState \/ UpdateDataband
  <2>1. ASSUME NEW t \in Tasks, RunInProcess(t) PROVE RootRuns(r)'
    <3>1. /\ t \in queued /\ queued' = queued \ {t} /\ pc = "heartbeat"
          /\ \E s \in Results : events' = events \cup {<<t, s>>}
          /\ ~task_failed => events' = events \cup {<<t, "finished">>}
      BY <2>1 DEF RunInProcess, Results
    <3>2. InQueue(t)
      BY <3>1 DEF IInv, Task, Staged, Stage, Away, Started, Told
    <3>3. CASE r \in queued
      <4>1. t = r
        BY <3>2, <3>3, RootAlone DEF InQueue, Succ
      <4>. QED  BY <3>1, <3>3, <4>1 DEF RootRuns, GivenUp
    <3>4. CASE r \notin queued
      <4>1. t # r
        BY <3>1, <3>4
      <4>. QED  BY <3>1, <3>4, <4>1 DEF RootRuns, GivenUp
    <3>. QED  BY <3>3, <3>4
  <2>2. ASSUME NEW t \in Tasks, ScanFinished(t) \/ ScanFlagged(t) \/ ScanMet(t) \/ ScanUnmet(t)
        PROVE  events' = events /\ pc' = "scan"
    BY <2>2 DEF ScanFinished, ScanFlagged, ScanMet, ScanUnmet, Scanned
  <2>3. ASSUME NEW e \in events, IgnoreEvent(e) \/ ManageEvent(e) PROVE events' \subseteq events /\ pc' = "events"
    BY <2>3 DEF IgnoreEvent, ManageEvent
  <2>4. CASE SyncAttempts
    BY <2>4 DEF SyncAttempts, RootRuns, GivenUp
  <2>5. CASE Heartbeat
    <3>1. pc' = "check" /\ \A e \in events' : e \in events \/ e[2] = "finished"
      BY <2>5 DEF Heartbeat
    <3>. QED  BY <3>1 DEF RootRuns, GivenUp
  <2>6. CASE Start \/ LoopTop \/ InProcessDone \/ DeadlockCheck \/ UpdateCounters \/ UpdateState \/ UpdateDataband
    <3>1. events' = events /\ pc' # "heartbeat"
      BY <2>6 DEF Start, LoopTop, InProcessDone, DeadlockCheck, UpdateCounters,
         UpdateState, UpdateDataband
    <3>. QED  BY <1>n, <3>1
  <2>. QED  BY <1>1, <1>n, <2>1, <2>2, <2>3, <2>4, <2>5, <2>6 DEF Iterates
<1>2. CASE World
  BY <1>2, <1>u, WorldKeeps
<1>. QED  BY <1>1, <1>2, LoopCases

\* Every step keeps what the theorem below rests on.
LEMMA GrowingStep ==
  ASSUME NEW r \in Tasks, Rooted(r), Skippable = {}, IInv, Growing(r), [Next]_vars
  PROVE  Growing(r)'
<1>. SUFFICES ASSUME cleared' = {}, pc' \in Loop PROVE (Grown /\ Unskipped /\ Kept /\ RootRuns(r))'
  BY DEF Growing
<1>1. cleared = {} /\ pc \in Loop
  BY ClearedGrows, LoopCases
<1>2. Grown /\ Unskipped /\ Kept /\ RootRuns(r)
  BY <1>1 DEF Growing
<1>. QED  BY <1>1, <1>2, GrownStep, KeptStep, RootRunsStep

\* With the root accounted for, and what has to wait kept, the lists say when all have ended.
LEMMA RootFinish ==
  ASSUME NEW r \in Tasks, Rooted(r), IInv, Growing(r), Ending({r})
  PROVE  Finishes
<1>. SUFFICES ASSUME cleared = {}, pc \in {"top", "state"}, Idle PROVE \A t \in Tasks : Ended(t)
  BY DEF Finishes
<1>. DEFINE S == {t \in Tasks : Succ(t)}
<1>g. \A t \in Tasks : Upstream[t] \subseteq Tasks
  BY GraphAssumption
<1>1. Accounted({r}) /\ Grown /\ Unskipped /\ Kept /\ pc \in Loop \ {"start"}
  BY DEF Ending, Growing, Loop
<1>2. r \in Succeeded \cup Skipped
  BY <1>1 DEF Accounted, InLists, Idle, Troubled
<1>3. Succ(r)
  BY <1>1, <1>2 DEF Accounted, Unskipped, Succ
<1>4. \A t \in Tasks \ Reused : ~Pending(t)
  BY DEF Idle, Troubled, Pending
<1>5. \A t \in S \ Reused : Upstream[t] \subseteq S
  BY <1>g, <1>1, <1>4 DEF Kept
<1>6. S \in SUBSET Tasks /\ r \in S
  BY <1>3
<1>7. Tasks \ Reused \subseteq S
  <2>. HIDE DEF S
  <2>. QED  BY <1>5, <1>6 DEF Rooted
<1>. QED  BY <1>1, <1>7 DEF Grown, Ended, Succ

\* A job that ends without an error has run every task, in every mode, if the DAG is what one root
\* task needs, no task is skipped and none was cleared: a task that was given up is dropped from the
\* lists, but what needs it stays in them.  (With a skipped task the root may be skipped while a
\* task it needs is given up.)
THEOREM RootedSuccessMeansDone ==
  ASSUME NEW r \in Tasks, Rooted(r), Skippable = {}
  PROVE  Spec => [](outcome = "success" /\ cleared = {} => AllDone)
<1>0. Init => Ending({r}) /\ Growing(r)
  BY EndingInit, GrowingInit
<1>1. IInv /\ Settling /\ [Next]_vars => Settling'
  BY SettlingStep
<1>2. IInv /\ Growing(r) /\ [Next]_vars => Growing(r)'
  BY GrowingStep
<1>3. IInv /\ Settling /\ Growing(r) /\ Ending({r}) /\ [Next]_vars => Ending({r})'
  <2>1. Growing(r) => (pc \in Loop /\ cleared = {} => \A t \in {r} : ~GivenUp(t))
    BY DEF Growing, RootRuns
  <2>. QED  BY <2>1, RootFinish, EndingStep
<1>4. Ending({r}) => (outcome = "success" /\ cleared = {} => AllDone)
  BY DEF Ending, Good
<1>. QED  BY <1>0, <1>1, <1>2, <1>3, <1>4, SettlingInit, Invariance, PTL DEF Spec
=============================================================================
