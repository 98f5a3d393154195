------------------------------ MODULE EventLog ------------------------------
(***************************************************************************)
(* What the asynchronous tracking channel promises: a log of events that   *)
(* only grows, each settled once and none before the events ahead of it.   *)
(* Whether an event is settled at all is not promised here.                *)
(***************************************************************************)
EXTENDS Integers, Sequences

CONSTANTS Event,     \* what can be logged
          Verdict    \* how the handling of an event can end

VARIABLES log,       \* the events, in the order they were accepted
          status     \* status[i] says what became of log[i]

vars == <<log, status>>

Init == log = <<>> /\ status = <<>>

Accept ==
  \E e \in Event :
    /\ log' = Append(log, e)
    /\ status' = Append(status, "pending")

\* The first pending event is settled.
Settle ==
  \E i \in DOMAIN status, v \in Verdict :
    /\ status[i] = "pending"
    /\ \A j \in 1..(i - 1) : status[j] # "pending"
    /\ status' = [status EXCEPT ![i] = v]
    /\ log' = log

Next == Accept \/ Settle

Spec == Init /\ [][Next]_vars
=============================================================================
