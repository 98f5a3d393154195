-------------------------- MODULE AsyncWebChannel --------------------------
(***************************************************************************)
(* TrackingAsyncWebChannel and its background worker.  Application threads *)
(* (Clients) hand tracking events to the channel; one daemon thread takes  *)
(* them from a queue.Queue and calls the web channel, with retries; the    *)
(* databand context shuts the channel down when it exits.  The process may *)
(* fork: the behaviour then follows the child, which inherits the queue    *)
(* but no other thread.                                                    *)
(*                                                                         *)
(* An event is named by its position in accepted, the sequence of events   *)
(* in the order of their queue.put; 0 is the worker's _TERMINATOR.         *)
(***************************************************************************)
EXTENDS Integers, Sequences

CONSTANTS Clients,            \* application threads that share the store
          Nobody,             \* the value of lock when it is free
          MaxRetries,         \* core.max_tracking_store_retries
          RemoveFailedStore,  \* core.remove_failed_store
          RaiseOnError,       \* core.tracker_raise_on_error
          AllowFork,          \* whether the application forks
          MaxCalls,           \* bound: events per client
          MaxShutdowns        \* bound: shutdown() calls per client

ASSUME ClientsAssumption == Nobody \notin Clients
ASSUME RetriesAssumption == MaxRetries \in Nat \ {0}
ASSUME FlagsAssumption ==
  /\ RemoveFailedStore \in BOOLEAN
  /\ RaiseOnError \in BOOLEAN
  /\ AllowFork \in BOOLEAN
ASSUME BoundsAssumption == MaxCalls \in Nat /\ MaxShutdowns \in Nat

VARIABLES
  shutting_down,   \* TrackingAsyncWebChannel._shutting_down
  lock,            \* holder of the worker's _lock
  thread,          \* _thread is not None
  same_pid,        \* _thread_for_pid = os.getpid()
  worker,          \* where the worker thread is
  failed,          \* its failed_on_previous_iteration
  hand,            \* the item it took last
  try_num,         \* try_num of try_run_handler
  queue,           \* the items of _queue
  unfinished,      \* _queue.unfinished_tasks
  pc, item,        \* per client: where it is, the event it is submitting
  made, stops,     \* per client: events and shutdowns so far
  accepted,        \* history: events put in the queue
  outcome,         \* history: what became of each of them
  calls,           \* history: the events of the web channel calls
  leaked           \* history: items a forking parent's worker had in hand

channelVars == <<shutting_down, lock, thread, same_pid>>
workerVars == <<worker, failed, hand, try_num>>
queueVars == <<queue, unfinished>>
clientVars == <<pc, item, made, stops>>
vars == <<channelVars, workerVars, queueVars, clientVars,
          accepted, outcome, calls, leaked>>

TERMINATOR == 0
Item == [state : BOOLEAN, stop : BOOLEAN]
Settled == {"sent", "failed", "stopped", "skipped", "parent"}
Outcome == Settled \cup {"pending"}

Init ==
  /\ shutting_down = FALSE
  /\ lock = Nobody
  /\ thread = FALSE
  /\ same_pid = FALSE
  /\ worker = "none"
  /\ failed = FALSE
  /\ hand = TERMINATOR
  /\ try_num = 1
  /\ queue = <<>>
  /\ unfinished = 0
  /\ pc = [c \in Clients |-> "idle"]
  /\ item = [c \in Clients |-> [state |-> FALSE, stop |-> FALSE]]
  /\ made = [c \in Clients |-> 0]
  /\ stops = [c \in Clients |-> 0]
  /\ accepted = <<>>
  /\ outcome = <<>>
  /\ calls = <<>>
  /\ leaked = 0

(***************************************************************************)
(* A thread that has done its last task_done is alive until it returns.    *)
(***************************************************************************)
is_alive == same_pid /\ thread /\ worker # "none"

-----------------------------------------------------------------------------
(***************************************************************************)
(* The clients: _handle, submit, _ensure_thread, start.                    *)
(***************************************************************************)
HandleRaises(c) ==
  /\ pc[c] = "idle"
  /\ made[c] < MaxCalls
  /\ shutting_down
  /\ made' = [made EXCEPT ![c] = @ + 1]
  /\ UNCHANGED <<channelVars, workerVars, queueVars, pc, item, stops,
                 accepted, outcome, calls, leaked>>

\* in_tracking is in_tracking_run() at the time of the call.
Handle(c, state, in_tracking) ==
  /\ pc[c] = "idle"
  /\ made[c] < MaxCalls
  /\ ~shutting_down
  /\ made' = [made EXCEPT ![c] = @ + 1]
  /\ item' = [item EXCEPT ![c] =
                [state |-> state,
                 stop  |-> RemoveFailedStore \/ (in_tracking /\ state)]]
  /\ pc' = [pc EXCEPT ![c] = "ensure"]
  /\ UNCHANGED <<channelVars, workerVars, queueVars, stops,
                 accepted, outcome, calls, leaked>>

EnsureThread(c) ==
  /\ pc[c] = "ensure"
  /\ pc' = [pc EXCEPT ![c] = IF is_alive THEN "put" ELSE "start"]
  /\ UNCHANGED <<channelVars, workerVars, queueVars, item, made, stops,
                 accepted, outcome, calls, leaked>>

\* Fault: a restarted worker gets a fresh queue.
StartFreshQueue(c) ==
  /\ pc[c] = "start"
  /\ lock = Nobody
  /\ ~is_alive
  /\ pc' = [pc EXCEPT ![c] = "put"]
  /\ thread' = TRUE
  /\ same_pid' = TRUE
  /\ worker' = "get"
  /\ failed' = FALSE
  /\ queue' = <<>>
  /\ unfinished' = 0
  /\ UNCHANGED <<shutting_down, lock, hand, try_num, item, made,
                 stops, accepted, outcome, calls, leaked>>

\* start(): the whole critical section, which no other thread can see into.
Start(c) ==
  /\ pc[c] = "start"
  /\ lock = Nobody
  /\ pc' = [pc EXCEPT ![c] = "put"]
  /\ \/ /\ is_alive
        /\ UNCHANGED <<thread, same_pid, worker, failed>>
     \/ /\ ~is_alive
        /\ thread' = TRUE
        /\ same_pid' = TRUE
        /\ worker' = "get"
        /\ failed' = FALSE
  /\ UNCHANGED <<shutting_down, lock, hand, try_num, queueVars, item, made,
                 stops, accepted, outcome, calls, leaked>>

Put(c) ==
  /\ pc[c] = "put"
  /\ accepted' = Append(accepted, item[c])
  /\ outcome' = Append(outcome, "pending")
  /\ queue' = Append(queue, Len(accepted) + 1)
  /\ unfinished' = unfinished + 1
  /\ pc' = [pc EXCEPT ![c] = "idle"]
  /\ UNCHANGED <<channelVars, workerVars, item, made, stops, calls, leaked>>

-----------------------------------------------------------------------------
(***************************************************************************)
(* TrackingAsyncWebChannel.shutdown and the worker's shutdown it calls.    *)
(***************************************************************************)
ShutdownSkipped(c) ==
  /\ pc[c] = "idle"
  /\ stops[c] < MaxShutdowns
  /\ ~is_alive
  /\ stops' = [stops EXCEPT ![c] = @ + 1]
  /\ UNCHANGED <<channelVars, workerVars, queueVars, pc, item, made,
                 accepted, outcome, calls, leaked>>

ShutdownBegin(c) ==
  /\ pc[c] = "idle"
  /\ stops[c] < MaxShutdowns
  /\ is_alive
  /\ stops' = [stops EXCEPT ![c] = @ + 1]
  /\ shutting_down' = TRUE
  /\ pc' = [pc EXCEPT ![c] = "sd_lock"]
  /\ UNCHANGED <<lock, thread, same_pid, workerVars, queueVars, item, made,
                 accepted, outcome, calls, leaked>>

ShutdownNoThread(c) ==
  /\ pc[c] = "sd_lock"
  /\ lock = Nobody
  /\ ~thread
  /\ pc' = [pc EXCEPT ![c] = "idle"]
  /\ UNCHANGED <<channelVars, workerVars, queueVars, item, made, stops,
                 accepted, outcome, calls, leaked>>

ShutdownTerminate(c) ==
  /\ pc[c] = "sd_lock"
  /\ lock = Nobody
  /\ thread
  /\ lock' = c
  /\ queue' = Append(queue, TERMINATOR)
  /\ unfinished' = unfinished + 1
  /\ pc' = [pc EXCEPT ![c] = "sd_join"]
  /\ UNCHANGED <<shutting_down, thread, same_pid, workerVars, item, made,
                 stops, accepted, outcome, calls, leaked>>

\* Fault: shutdown does not wait for the queue.
ShutdownWithoutJoin(c) ==
  /\ pc[c] = "sd_join"
  /\ thread' = FALSE
  /\ same_pid' = FALSE
  /\ lock' = Nobody
  /\ pc' = [pc EXCEPT ![c] = "idle"]
  /\ UNCHANGED <<shutting_down, workerVars, queueVars, item, made, stops,
                 accepted, outcome, calls, leaked>>

\* _queue.join() returns when unfinished_tasks is 0.
ShutdownJoined(c) ==
  /\ pc[c] = "sd_join"
  /\ unfinished = 0
  /\ thread' = FALSE
  /\ same_pid' = FALSE
  /\ lock' = Nobody
  /\ pc' = [pc EXCEPT ![c] = "idle"]
  /\ UNCHANGED <<shutting_down, workerVars, queueVars, item, made, stops,
                 accepted, outcome, calls, leaked>>

-----------------------------------------------------------------------------
(***************************************************************************)
(* The worker: _thread_worker and the channel's item handler.              *)
(***************************************************************************)
\* Fault: the newest item is taken first.
WorkerGetLast ==
  /\ worker = "get"
  /\ queue # <<>>
  /\ hand' = queue[Len(queue)]
  /\ queue' = SubSeq(queue, 1, Len(queue) - 1)
  /\ try_num' = 1
  /\ worker' = "handle"
  /\ UNCHANGED <<channelVars, failed, unfinished, clientVars,
                 accepted, outcome, calls, leaked>>

WorkerGet ==
  /\ worker = "get"
  /\ queue # <<>>
  /\ hand' = Head(queue)
  /\ queue' = Tail(queue)
  /\ try_num' = 1
  /\ worker' = "handle"
  /\ UNCHANGED <<channelVars, failed, unfinished, clientVars,
                 accepted, outcome, calls, leaked>>

\* The finally clause of every iteration.
TaskDone == unfinished' = unfinished - 1

\* Fault: task_done is called by the terminator branch and by the finally clause.
WorkerBreakTwoDones ==
  /\ worker = "handle"
  /\ hand = TERMINATOR
  /\ unfinished' = unfinished - 2
  /\ worker' = "exiting"
  /\ UNCHANGED <<channelVars, failed, hand, try_num, queue, clientVars,
                 accepted, outcome, calls, leaked>>

WorkerBreak ==
  /\ worker = "handle"
  /\ hand = TERMINATOR
  /\ TaskDone
  /\ worker' = "exiting"
  /\ UNCHANGED <<channelVars, failed, hand, try_num, queue, clientVars,
                 accepted, outcome, calls, leaked>>

WorkerExit ==
  /\ worker = "exiting"
  /\ worker' = "none"
  /\ UNCHANGED <<channelVars, failed, hand, try_num, queueVars, clientVars,
                 accepted, outcome, calls, leaked>>

\* Fault: an item that is skipped is not counted as done.
SkipItemNotDone ==
  /\ worker = "handle"
  /\ hand # TERMINATOR
  /\ failed
  /\ outcome' = [outcome EXCEPT ![hand] = "skipped"]
  /\ worker' = "get"
  /\ UNCHANGED <<channelVars, failed, hand, try_num, queueVars, clientVars,
                 accepted, calls, leaked>>

SkipItem ==
  /\ worker = "handle"
  /\ hand # TERMINATOR
  /\ failed
  /\ outcome' = [outcome EXCEPT ![hand] = "skipped"]
  /\ TaskDone
  /\ worker' = "get"
  /\ UNCHANGED <<channelVars, failed, hand, try_num, queue, clientVars,
                 accepted, calls, leaked>>

Tries(i) == IF accepted[i].state THEN MaxRetries ELSE 1

\* One call of the web channel is due.
Calling ==
  /\ worker = "handle"
  /\ hand # TERMINATOR
  /\ ~failed
  /\ calls' = Append(calls, hand)

\* Fault: the retry loop goes on after a success.
WebCallOkNoReturn ==
  /\ Calling
  /\ Len(calls) < 6
  /\ outcome' = [outcome EXCEPT ![hand] = "sent"]
  /\ UNCHANGED <<channelVars, workerVars, queueVars, clientVars, accepted, leaked>>

WebCallOk ==
  /\ Calling
  /\ outcome' = [outcome EXCEPT ![hand] = "sent"]
  /\ TaskDone
  /\ worker' = "get"
  /\ UNCHANGED <<channelVars, failed, hand, try_num, queue, clientVars,
                 accepted, leaked>>

\* Fault: an item is retried by putting it back in the queue.
WebCallRequeue ==
  /\ Calling
  /\ Len(calls) < 6
  /\ try_num # Tries(hand)
  /\ queue' = Append(queue, hand)
  /\ worker' = "get"
  /\ UNCHANGED <<channelVars, failed, hand, try_num, unfinished, clientVars,
                 accepted, outcome, leaked>>

WebCallRetry ==
  /\ Calling
  /\ try_num # Tries(hand)
  /\ try_num' = try_num + 1
  /\ UNCHANGED <<channelVars, worker, failed, hand, queueVars, clientVars,
                 accepted, outcome, leaked>>

\* Whether the exception of the last try leaves the item handler.
Raises(i, panic) == accepted[i].stop \/ (panic /\ RaiseOnError)

\* Fault: an exception of the item handler ends the worker thread.
WebCallFailsKillsWorker(panic) ==
  /\ Calling
  /\ try_num = Tries(hand)
  /\ failed' = Raises(hand, panic)
  /\ outcome' = [outcome EXCEPT ![hand] = "failed"]
  /\ TaskDone
  /\ worker' = IF Raises(hand, panic) THEN "none" ELSE "get"
  /\ UNCHANGED <<channelVars, hand, try_num, queue, clientVars,
                 accepted, leaked>>

WebCallFails(panic) ==
  /\ Calling
  /\ try_num = Tries(hand)
  /\ failed' = Raises(hand, panic)
  /\ outcome' = [outcome EXCEPT ![hand] =
                   IF Raises(hand, panic) THEN "stopped" ELSE "failed"]
  /\ TaskDone
  /\ worker' = "get"
  /\ UNCHANGED <<channelVars, hand, try_num, queue, clientVars,
                 accepted, leaked>>

-----------------------------------------------------------------------------
(***************************************************************************)
(* os.fork() by client c, seen from the child: it has the memory of the    *)
(* parent and only the forking thread.  (External: the operating system.)  *)
(***************************************************************************)
Fork(c) ==
  /\ AllowFork
  /\ pc[c] = "idle"
  /\ pc' = [o \in Clients |-> IF o = c THEN "idle" ELSE "gone"]
  /\ same_pid' = FALSE
  /\ worker' = "none"
  /\ leaked' = IF worker = "handle" THEN leaked + 1 ELSE leaked
  /\ outcome' = IF worker = "handle" /\ hand # TERMINATOR
                  THEN [outcome EXCEPT ![hand] = "parent"] ELSE outcome
  /\ UNCHANGED <<shutting_down, lock, thread, failed, hand, try_num, queueVars,
                 item, made, stops, accepted, calls>>

HandleStep(c) == \E state, in_tracking \in BOOLEAN : Handle(c, state, in_tracking)

ClientStep(c) ==
  \/ EnsureThread(c)
  \/ Start(c)
  \/ Put(c)
  \/ ShutdownNoThread(c)
  \/ ShutdownTerminate(c)
  \/ ShutdownJoined(c)

WorkerStep ==
  \/ WorkerGet
  \/ WorkerBreak
  \/ WorkerExit
  \/ SkipItem
  \/ WebCallOk
  \/ WebCallRetry
  \/ \E panic \in BOOLEAN : WebCallFails(panic)

Next ==
  \/ \E c \in Clients : \/ HandleRaises(c)
                        \/ HandleStep(c)
                        \/ ShutdownSkipped(c)
                        \/ ShutdownBegin(c)
                        \/ Fork(c)
                        \/ ClientStep(c)
  \/ WorkerStep

Spec == Init /\ [][Next]_vars

\* Threads that can run do; nothing obliges a client to start another call.
Fairness ==
  /\ WF_vars(WorkerStep)
  /\ \A c \in Clients : WF_vars(ClientStep(c))

FairSpec == Spec /\ Fairness
-----------------------------------------------------------------------------
ClientPc == {"idle", "ensure", "start", "put", "sd_lock", "sd_join", "gone"}

TypeOK ==
  /\ shutting_down \in BOOLEAN
  /\ lock \in Clients \cup {Nobody}
  /\ thread \in BOOLEAN
  /\ same_pid \in BOOLEAN
  /\ worker \in {"none", "get", "handle", "exiting"}
  /\ failed \in BOOLEAN
  /\ hand \in Nat
  /\ try_num \in Nat \ {0}
  /\ queue \in Seq(Nat)
  /\ unfinished \in Nat
  /\ pc \in [Clients -> ClientPc]
  /\ item \in [Clients -> Item]
  /\ made \in [Clients -> Nat]
  /\ stops \in [Clients -> Nat]
  /\ accepted \in Seq(Item)
  /\ outcome \in Seq(Outcome)
  /\ Len(outcome) = Len(accepted)
  /\ calls \in Seq(Nat)
  /\ leaked \in Nat

Pending(e) == outcome[e] = "pending"
Holding == worker = "handle" /\ hand # TERMINATOR

\* The queue's unfinished count, on which join() waits, is what is queued plus
\* what the worker has in hand, plus what a fork left in the parent's hand:
\* every path through the worker's loop does exactly one task_done.
QueueAccounting ==
  unfinished = Len(queue) + (IF worker = "handle" THEN 1 ELSE 0) + leaked

\* A worker that _thread no longer stands for has left its loop, so start() never
\* puts a second consumer on the queue.
OneWorker == ~is_alive => worker \in {"none", "exiting"}

\* An accepted event that is not settled yet is in the queue, behind whatever
\* was accepted before it, or in the worker's hand, ahead of the whole queue.
NoEventLost ==
  /\ \A e \in DOMAIN outcome :
       Pending(e) => \/ Holding /\ hand = e
                     \/ \E i \in DOMAIN queue : queue[i] = e
  /\ \A i \in DOMAIN queue : queue[i] # TERMINATOR =>
       /\ queue[i] \in DOMAIN outcome
       /\ Pending(queue[i])
       /\ \A j \in 1..(i - 1) : queue[j] < queue[i]
       /\ Holding => hand < queue[i]
  /\ Holding => hand \in DOMAIN outcome /\ Pending(hand)

Log == INSTANCE EventLog
         WITH Event <- Item, Verdict <- Settled, log <- accepted, status <- outcome

\* The channel implements the event log: events are settled one at a time, once
\* each and in the order they were queued, by whichever worker is running.
ImplementsEventLog == Log!Spec

\* Events reach the web channel in the order in which they were queued,
\* retries included, whatever threads submit, shut down and fork.
DeliveryOrder ==
  \A i, j \in DOMAIN calls : i <= j => calls[i] <= calls[j]

\* An event whose handling is over (sent, failed for good, skipped, left to the
\* parent process) is not sent again by a later iteration or a later worker.
SettledNotResent ==
  [][\A n \in DOMAIN calls' :
       n \notin DOMAIN calls => Pending(calls'[n])]_vars

\* When a shutdown() that waited returns, no event accepted so far is left
\* unhandled in the queue or in the worker's hand.
ShutdownDrains ==
  [][\A c \in Clients :
       (pc[c] = "sd_join" /\ pc'[c] = "idle")
         => \A e \in DOMAIN outcome : ~Pending(e)]_vars

\* Every shutdown() returns: its join() does not wait for ever.
ShutdownReturns ==
  \A c \in Clients : (pc[c] \in {"sd_lock", "sd_join"}) ~> (pc[c] = "idle")

\* Every event that was accepted is eventually handled.
EventsSettle ==
  \A e \in 1..MaxCalls :
    (e \in DOMAIN outcome /\ Pending(e)) ~> (e \in DOMAIN outcome /\ ~Pending(e))
=============================================================================
