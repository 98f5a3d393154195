----------------------- MODULE CompositeTrackingStore -----------------------
(***************************************************************************)
(* CompositeTrackingStore: every tracking call goes to all configured      *)
(* stores, with retries; stores that fail may be taken off the list.  The  *)
(* application's threads share one composite store and its plain dict.     *)
(***************************************************************************)
EXTENDS Integers, Sequences, SequencesExt

CONSTANTS Threads,            \* application threads that make tracking calls
          StoreOrder,         \* names of the configured stores, in dict order
          MaxRetries,         \* core.max_tracking_store_retries
          RaiseOnError,       \* core.tracker_raise_on_error
          RemoveFailedStore,  \* remove_failed_store of the store
          AllowDisable,       \* whether disable_tracking_api is called
          MaxInvokes          \* bound: tracking calls per thread

Stores == Range(StoreOrder)

ASSUME OrderAssumption == StoreOrder \in Seq(STRING) /\ IsInjective(StoreOrder)
ASSUME NamesAssumption == Stores \cap {"idle", "iterate", "remove", "sd_iterate"} = {}
ASSUME RetriesAssumption == MaxRetries \in Nat \ {0}
ASSUME BoundsAssumption == MaxInvokes \in Nat
ASSUME FlagsAssumption ==
  {RaiseOnError, RemoveFailedStore, AllowDisable} \subseteq BOOLEAN

VARIABLES
  stores,      \* the keys of _stores, in order
  is_dict,     \* whether _stores is a dict
  pc,          \* per thread: where it is; inside a store's handler, the store's name
  call,        \* per thread: the arguments that matter and in_tracking_run()
  pos, used,   \* per thread: the dict iterator: next position, size at its start
  try_num,     \* per thread: try_num of try_run_handler
  failed,      \* per thread: failed_stores of _invoke, or of shutdown
  invokes,     \* per thread: calls so far
  result,      \* per thread: how the last call ended
  tried,       \* history, per thread: stores the running call has gone to
  lost,        \* history, per thread: stores that failed in the running call
  shut         \* history: stores whose shutdown() was called, in order

threadVars == <<pc, call, pos, used, try_num, failed, invokes, result>>
vars == <<stores, is_dict, threadVars, tried, lost, shut>>

Call == [state : BOOLEAN, tracking : BOOLEAN]

Init ==
  /\ stores = StoreOrder
  /\ is_dict = TRUE
  /\ pc = [t \in Threads |-> "idle"]
  /\ call = [t \in Threads |-> [state |-> FALSE, tracking |-> FALSE]]
  /\ pos = [t \in Threads |-> 1]
  /\ used = [t \in Threads |-> 0]
  /\ try_num = [t \in Threads |-> 1]
  /\ failed = [t \in Threads |-> <<>>]
  /\ invokes = [t \in Threads |-> 0]
  /\ result = [t \in Threads |-> "none"]
  /\ tried = [t \in Threads |-> {}]
  /\ lost = [t \in Threads |-> {}]
  /\ shut = <<>>

\* The running call of thread t ends with r.
End(t, r) ==
  /\ pc' = [pc EXCEPT ![t] = "idle"]
  /\ result' = [result EXCEPT ![t] = r]

Begin(t, where) ==
  /\ pc[t] = "idle"
  /\ invokes[t] < MaxInvokes
  /\ invokes' = [invokes EXCEPT ![t] = @ + 1]
  /\ tried' = [tried EXCEPT ![t] = {}]
  /\ lost' = [lost EXCEPT ![t] = {}]
  /\ failed' = [failed EXCEPT ![t] = <<>>]
  /\ pos' = [pos EXCEPT ![t] = 1]
  /\ used' = [used EXCEPT ![t] = Len(stores)]
  /\ try_num' = [try_num EXCEPT ![t] = 1]
  /\ UNCHANGED <<stores, is_dict, shut>>
  \* six.iteritems, items() and values() of something that is not a dict raise.
  /\ IF is_dict
       THEN pc' = [pc EXCEPT ![t] = where] /\ result' = [result EXCEPT ![t] = "none"]
       ELSE End(t, "error")

-----------------------------------------------------------------------------
(***************************************************************************)
(* _invoke                                                                 *)
(***************************************************************************)
Invoke(t, state, tracking) ==
  /\ Begin(t, "iterate")
  /\ call' = [call EXCEPT ![t] = [state |-> state, tracking |-> tracking]]

\* A dict iterator raises when the dict has changed size since it was made.
IteratorBroken(t) ==
  /\ pc[t] \in {"iterate", "sd_iterate"}
  /\ Len(stores) # used[t]
  /\ End(t, "error")
  /\ UNCHANGED <<stores, is_dict, call, pos, used, try_num, failed, invokes,
                 tried, lost, shut>>

NextStore(t) ==
  /\ pc[t] = "iterate"
  /\ Len(stores) = used[t]
  /\ pos[t] <= Len(stores)
  /\ tried' = [tried EXCEPT ![t] = @ \cup {stores[pos[t]]}]
  /\ try_num' = [try_num EXCEPT ![t] = 1]
  /\ pc' = [pc EXCEPT ![t] = stores[pos[t]]]
  /\ pos' = [pos EXCEPT ![t] = @ + 1]
  /\ UNCHANGED <<stores, is_dict, call, used, failed, invokes, result, lost, shut>>

\* The store that thread t is calling.
Current(t) == pc[t]
Tries(t) == IF call[t].state THEN MaxRetries ELSE 1

HandlerOk(t) ==
  /\ pc[t] \in Stores
  /\ pc' = [pc EXCEPT ![t] = "iterate"]
  /\ UNCHANGED <<stores, is_dict, call, pos, used, try_num, failed, invokes,
                 result, tried, lost, shut>>

\* Fault: the retry loop has lost its last-try test.
HandlerRetryForever(t) ==
  /\ pc[t] \in Stores
  /\ try_num' = [try_num EXCEPT ![t] = IF @ = Tries(t) THEN 1 ELSE @ + 1]
  /\ UNCHANGED <<stores, is_dict, pc, call, pos, used, failed, invokes, result,
                 tried, lost, shut>>

HandlerRetry(t) ==
  /\ pc[t] \in Stores
  /\ try_num[t] # Tries(t)
  /\ try_num' = [try_num EXCEPT ![t] = @ + 1]
  /\ UNCHANGED <<stores, is_dict, pc, call, pos, used, failed, invokes, result,
                 tried, lost, shut>>

ToBeRemoved(t) == RemoveFailedStore \/ (call[t].tracking /\ call[t].state)

\* Fault: the first failure ends the loop over the stores.
HandlerFailsBreaks(t, panic) ==
  /\ pc[t] \in Stores
  /\ try_num[t] = Tries(t)
  /\ lost' = [lost EXCEPT ![t] = @ \cup {Current(t)}]
  /\ End(t, "returned")
  /\ UNCHANGED <<stores, is_dict, call, pos, used, try_num, failed, invokes, tried, shut>>

HandlerFails(t, panic) ==
  /\ pc[t] \in Stores
  /\ try_num[t] = Tries(t)
  /\ lost' = [lost EXCEPT ![t] = @ \cup {Current(t)}]
  /\ failed' = IF ToBeRemoved(t)
                 THEN [failed EXCEPT ![t] = Append(@, Current(t))] ELSE failed
  /\ IF panic /\ RaiseOnError
       THEN End(t, "panic")
       ELSE pc' = [pc EXCEPT ![t] = "iterate"] /\ UNCHANGED result
  /\ UNCHANGED <<stores, is_dict, call, pos, used, try_num, invokes, tried, shut>>

InvokeLoopEnds(t) ==
  /\ pc[t] = "iterate"
  /\ Len(stores) = used[t]
  /\ pos[t] > Len(stores)
  /\ IF failed[t] = <<>>
       THEN End(t, "returned")
       ELSE pc' = [pc EXCEPT ![t] = "remove"] /\ UNCHANGED result
  /\ UNCHANGED <<stores, is_dict, call, pos, used, try_num, failed, invokes,
                 tried, lost, shut>>

\* Fault: the failed store is dropped without its shutdown.
RemoveStoreNoShutdown(t) ==
  /\ pc[t] = "remove"
  /\ stores' = Remove(stores, Head(failed[t]))
  /\ failed' = [failed EXCEPT ![t] = Tail(@)]
  /\ IF Len(failed[t]) = 1 THEN End(t, "returned") ELSE UNCHANGED <<pc, result>>
  /\ UNCHANGED <<is_dict, call, pos, used, try_num, invokes, tried, lost, shut>>

\* _stores.get and pop (neither of a list, after disable_tracking_api, nor of a
\* name another thread popped meanwhile) and the shutdown of the store, whose exceptions are swallowed.
RemoveStore(t) ==
  /\ pc[t] = "remove"
  /\ LET name == Head(failed[t]) IN
       \/ /\ ~is_dict \/ ~Contains(stores, name)
          /\ End(t, "error")
          /\ UNCHANGED <<stores, failed, shut>>
       \/ /\ is_dict
          /\ \E i \in DOMAIN stores : stores[i] = name /\ stores' = RemoveAt(stores, i)
          /\ shut' = Append(shut, name)
          /\ failed' = [failed EXCEPT ![t] = Tail(@)]
          /\ IF Len(failed[t]) = 1 THEN End(t, "returned") ELSE UNCHANGED <<pc, result>>
  /\ UNCHANGED <<is_dict, call, pos, used, try_num, invokes, tried, lost>>

-----------------------------------------------------------------------------
(***************************************************************************)
(* shutdown, disable_tracking_api                                          *)
(***************************************************************************)
Shutdown(t) ==
  /\ Begin(t, "sd_iterate")
  /\ UNCHANGED call

ShutdownStore(t, raises) ==
  /\ pc[t] = "sd_iterate"
  /\ Len(stores) = used[t]
  /\ pos[t] <= Len(stores)
  /\ LET name == stores[pos[t]] IN
       /\ tried' = [tried EXCEPT ![t] = @ \cup {name}]
       /\ shut' = Append(shut, name)
       /\ failed' = IF raises THEN [failed EXCEPT ![t] = <<name>>] ELSE failed
  /\ pos' = [pos EXCEPT ![t] = @ + 1]
  /\ UNCHANGED <<stores, is_dict, pc, call, used, try_num, invokes, result, lost>>

ShutdownEnds(t) ==
  /\ pc[t] = "sd_iterate"
  /\ Len(stores) = used[t]
  /\ pos[t] > Len(stores)
  /\ End(t, IF failed[t] # <<>> /\ RaiseOnError THEN "panic" ELSE "returned")
  /\ UNCHANGED <<stores, is_dict, call, pos, used, try_num, failed, invokes,
                 tried, lost, shut>>

\* The loop goes over the names, none of which is a TrackingStoreThroughChannel,
\* and leaves the list of all names in _stores; a loop that is under way goes on
\* over the old dict.
disable_tracking_api ==
  /\ AllowDisable
  /\ is_dict
  /\ is_dict' = FALSE
  /\ UNCHANGED <<stores, threadVars, tried, lost, shut>>

InvokeStep(t) ==
  \/ IteratorBroken(t)
  \/ NextStore(t)
  \/ HandlerOk(t)
  \/ HandlerRetry(t)
  \/ \E panic \in BOOLEAN : HandlerFails(t, panic)
  \/ InvokeLoopEnds(t)
  \/ RemoveStore(t)
  \/ \E raises \in BOOLEAN : ShutdownStore(t, raises)
  \/ ShutdownEnds(t)

Next ==
  \/ \E t \in Threads : \/ \E state, tracking \in BOOLEAN : Invoke(t, state, tracking)
                        \/ Shutdown(t)
                        \/ InvokeStep(t)
  \/ disable_tracking_api

Spec == Init /\ [][Next]_vars

\* A thread that is inside a call goes on; a handler returns or raises.
FairSpec == Spec /\ \A t \in Threads : WF_vars(InvokeStep(t))

-----------------------------------------------------------------------------
TypeOK ==
  /\ stores \in Seq(Stores)
  /\ is_dict \in BOOLEAN
  /\ pc \in [Threads -> {"idle", "iterate", "remove", "sd_iterate"} \cup Stores]
  /\ call \in [Threads -> Call]
  /\ pos \in [Threads -> 1..(Len(StoreOrder) + 1)]
  /\ used \in [Threads -> 0..Len(StoreOrder)]
  /\ try_num \in [Threads -> 1..MaxRetries]
  /\ failed \in [Threads -> Seq(Stores)]
  /\ invokes \in [Threads -> 0..MaxInvokes]
  /\ result \in [Threads -> {"none", "returned", "panic", "error"}]
  /\ tried \in [Threads -> SUBSET Stores]
  /\ lost \in [Threads -> SUBSET Stores]
  /\ shut \in Seq(Stores)

\* A call that ends normally (or a shutdown that ends at all, but for a broken
\* iterator) went to every store that is still configured, whatever failed on
\* the way and whatever other threads removed meanwhile.
EveryStoreServed ==
  [][\A t \in Threads :
       (pc[t] # "idle" /\ pc'[t] = "idle" /\ result'[t] = "returned")
         => Range(stores') \subseteq tried[t]]_vars

\* A store leaves the list only because the running call of some thread failed on it, and it
\* is shut down then: its worker and its queue are not left behind.
OnlyFailedRemoved ==
  [][\A s \in Range(stores) \ Range(stores') :
       /\ \E t \in Threads : s \in lost[t] /\ pc[t] = "remove"
       /\ Contains(shut', s)]_vars

\* Every call ends.
InvokeEnds == \A t \in Threads : (pc[t] # "idle") ~> (pc[t] = "idle")
=============================================================================
