----------------------- MODULE AsyncWebChannelProofs -----------------------
(***************************************************************************)
(* Proofs about AsyncWebChannel for any number of clients, events and      *)
(* shutdowns, with and without fork.                                       *)
(***************************************************************************)
EXTENDS AsyncWebChannel, SequenceTheorems, TLAPS

\* Settling an event keeps outcome a sequence of the same length.
LEMMA SettleType ==
  ASSUME NEW s \in Seq(Outcome), NEW i, NEW v \in Outcome
  PROVE  /\ [s EXCEPT ![i] = v] \in Seq(Outcome)
         /\ Len([s EXCEPT ![i] = v]) = Len(s)
         /\ DOMAIN [s EXCEPT ![i] = v] = DOMAIN s
<1> DEFINE n == Len(s)
           t == [s EXCEPT ![i] = v]
<1>1. n \in Nat /\ s \in [1..n -> Outcome]
  BY LenProperties
<1>2. t \in [1..n -> Outcome]
  BY <1>1
<1>3. t \in Seq(Outcome)
  BY <1>1, <1>2, SeqDef
<1>4. Len(t) = n
  BY <1>1, <1>2, <1>3, LenProperties
<1>5. QED
  BY <1>1, <1>2, <1>3, <1>4

\* The initial state has the types of the Python objects.
LEMMA TypeInit == ASSUME Init PROVE TypeOK
<1>1. <<>> \in Seq(Nat) /\ <<>> \in Seq(Item) /\ <<>> \in Seq(Outcome)
  BY EmptySeq
<1>2. [state |-> FALSE, stop |-> FALSE] \in Item
  BY DEF Item
<1>3. item \in [Clients -> Item] /\ pc \in [Clients -> ClientPc]
  BY <1>2 DEF Init, ClientPc
<1>4. Len(outcome) = Len(accepted)
  BY DEF Init
<1>5. /\ shutting_down \in BOOLEAN
      /\ thread \in BOOLEAN
      /\ same_pid \in BOOLEAN
      /\ failed \in BOOLEAN
  BY DEF Init
<1>6. made \in [Clients -> Nat] /\ stops \in [Clients -> Nat]
  BY DEF Init
<1>7. hand \in Nat /\ try_num \in Nat \ {0} /\ unfinished \in Nat /\ leaked \in Nat
  BY DEF Init, TERMINATOR
<1>8. QED
  BY <1>1, <1>3, <1>4, <1>5, <1>6, <1>7 DEF Init, TypeOK, TERMINATOR

\* Every step keeps them; that unfinished_tasks does not go below 0, where
\* task_done() would raise, rests on the accounting of the queue.
LEMMA TypeStep ==
  ASSUME TypeOK, QueueAccounting, [Next]_vars
  PROVE  TypeOK'
<1>0. worker = "handle" => unfinished - 1 \in Nat
  <2>1. queue \in Seq(Nat) /\ leaked \in Nat /\ unfinished \in Nat
    BY DEF TypeOK
  <2>2. QED
    BY ONLY <2>1, QueueAccounting, LenProperties DEF QueueAccounting
<1> USE DEF TypeOK, channelVars, workerVars, queueVars, clientVars
<1>1. ASSUME NEW c \in Clients, HandleRaises(c) PROVE TypeOK'
  BY <1>1 DEF HandleRaises
<1>2. ASSUME NEW c \in Clients, HandleStep(c) PROVE TypeOK'
  BY <1>2, FlagsAssumption DEF HandleStep, Handle, ClientPc, Item
<1>3. ASSUME NEW c \in Clients, EnsureThread(c) PROVE TypeOK'
  BY <1>3 DEF EnsureThread, ClientPc
<1>4. ASSUME NEW c \in Clients, Start(c) PROVE TypeOK'
  BY <1>4 DEF Start, ClientPc
<1>5. ASSUME NEW c \in Clients, Put(c) PROVE TypeOK'
  BY <1>5 DEF Put, ClientPc, Outcome
<1>6. ASSUME NEW c \in Clients, ShutdownSkipped(c) PROVE TypeOK'
  BY <1>6 DEF ShutdownSkipped
<1>7. ASSUME NEW c \in Clients, ShutdownBegin(c) PROVE TypeOK'
  BY <1>7 DEF ShutdownBegin, ClientPc
<1>8. ASSUME NEW c \in Clients, ShutdownNoThread(c) PROVE TypeOK'
  BY <1>8 DEF ShutdownNoThread, ClientPc
<1>9. ASSUME NEW c \in Clients, ShutdownTerminate(c) PROVE TypeOK'
  BY <1>9 DEF ShutdownTerminate, ClientPc, TERMINATOR
<1>10. ASSUME NEW c \in Clients, ShutdownJoined(c) PROVE TypeOK'
  BY <1>10 DEF ShutdownJoined, ClientPc
<1>11. CASE WorkerGet
  BY <1>11 DEF WorkerGet
<1>12. CASE WorkerBreak
  BY <1>0, <1>12 DEF WorkerBreak, TaskDone
<1>13. CASE WorkerExit
  BY <1>13 DEF WorkerExit
<1>14. CASE SkipItem
  BY <1>0, <1>14, SettleType DEF SkipItem, TaskDone, Outcome, Settled
<1>15. CASE WebCallOk
  BY <1>0, <1>15, SettleType DEF WebCallOk, Calling, TaskDone, Outcome, Settled
<1>16. CASE WebCallRetry
  BY <1>16 DEF WebCallRetry, Calling
<1>17. ASSUME NEW panic \in BOOLEAN, WebCallFails(panic) PROVE TypeOK'
  BY <1>0, <1>17, SettleType, FlagsAssumption
     DEF WebCallFails, Calling, Raises, TaskDone, Outcome, Settled, Item
<1>18. ASSUME NEW c \in Clients, Fork(c) PROVE TypeOK'
  BY <1>18, SettleType DEF Fork, ClientPc, Outcome, Settled
<1>19. CASE UNCHANGED vars
  BY <1>19 DEF vars
<1>20. QED
  BY <1>1, <1>2, <1>3, <1>4, <1>5, <1>6, <1>7, <1>8, <1>9, <1>10, <1>11,
     <1>12, <1>13, <1>14, <1>15, <1>16, <1>17, <1>18, <1>19
     DEF Next, ClientStep, WorkerStep

-----------------------------------------------------------------------------
(***************************************************************************)
(* The inductive invariant.  To the properties it adds that a waiting      *)
(* shutdown() holds the lock and that its terminator is still ahead of a   *)
(* running worker, and that no web channel call was for an event behind a  *)
(* pending one.                                                            *)
(***************************************************************************)
InQueue(e) == \E i \in DOMAIN queue : queue[i] = e

JoinHoldsLock ==
  \A c \in Clients : pc[c] = "sd_join" =>
    /\ lock = c
    /\ worker = "get" => InQueue(TERMINATOR)
    /\ worker = "handle" => hand = TERMINATOR \/ InQueue(TERMINATOR)

CallsBehind ==
  \A n \in DOMAIN calls :
    /\ calls[n] \in DOMAIN outcome
    /\ \A e \in DOMAIN outcome : Pending(e) => calls[n] <= e

WorkerInv == QueueAccounting /\ JoinHoldsLock /\ OneWorker

\* What put() and get() do to the positions of the queue's items.
LEMMA PutQueue ==
  ASSUME NEW q \in Seq(Nat), NEW x \in Nat
  PROVE  /\ Append(q, x) \in Seq(Nat)
         /\ Len(Append(q, x)) = Len(q) + 1
         /\ Len(q) \in Nat
         /\ DOMAIN q = 1..Len(q)
         /\ DOMAIN Append(q, x) = 1..(Len(q) + 1)
         /\ \A i \in 1..Len(q) : Append(q, x)[i] = q[i]
         /\ Append(q, x)[Len(q) + 1] = x
BY AppendProperties, LenProperties

\* queue.put keeps every item that was in the queue and adds the new one.
LEMMA PutMember ==
  ASSUME NEW q \in Seq(Nat), NEW x \in Nat, NEW y,
         y = x \/ \E i \in DOMAIN q : q[i] = y
  PROVE  \E i \in DOMAIN Append(q, x) : Append(q, x)[i] = y
<1>1. CASE y = x
  <2>1. Len(q) + 1 \in DOMAIN Append(q, x) /\ Append(q, x)[Len(q) + 1] = y
    BY <1>1, PutQueue
  <2>2. QED
    BY <2>1
<1>2. CASE \E i \in DOMAIN q : q[i] = y
  <2>1. PICK i \in DOMAIN q : q[i] = y
    BY <1>2
  <2>2. i \in DOMAIN Append(q, x) /\ Append(q, x)[i] = y
    BY <2>1, PutQueue
  <2>3. QED
    BY <2>2
<1>3. QED
  BY <1>1, <1>2

\* queue.get removes the head and moves every other item one place forward.
LEMMA GetQueue ==
  ASSUME NEW q \in Seq(Nat), q # <<>>
  PROVE  /\ Head(q) = q[1]
         /\ Len(q) \in Nat \ {0}
         /\ DOMAIN q = 1..Len(q)
         /\ Len(Tail(q)) = Len(q) - 1
         /\ DOMAIN Tail(q) = 1..(Len(q) - 1)
         /\ \A i \in 1..(Len(q) - 1) : Tail(q)[i] = q[i + 1]
<1>1. Len(q) \in Nat \ {0} /\ DOMAIN q = 1..Len(q)
  BY EmptySeq, LenProperties
<1>2. Tail(q) \in Seq(Nat) /\ Len(Tail(q)) = Len(q) - 1
  BY HeadTailProperties
<1>3. \A i \in 1..(Len(q) - 1) : Tail(q)[i] = q[i + 1]
  BY <1>2, HeadTailProperties
<1>4. Head(q) = q[1]
  BY <1>1
<1>5. QED
  BY <1>1, <1>2, <1>3, <1>4, LenProperties

\* An item of the queue is the one that get returns or is still in the queue.
LEMMA GetMember ==
  ASSUME NEW q \in Seq(Nat), q # <<>>, NEW y, \E i \in DOMAIN q : q[i] = y
  PROVE  Head(q) = y \/ \E i \in DOMAIN Tail(q) : Tail(q)[i] = y
<1>1. PICK i \in DOMAIN q : q[i] = y
  OBVIOUS
<1>2. CASE i = 1
  BY <1>1, <1>2, GetQueue
<1>3. CASE i # 1
  <2>1. i - 1 \in DOMAIN Tail(q) /\ Tail(q)[i - 1] = y
    BY <1>1, <1>3, GetQueue
  <2>2. QED
    BY <2>1
<1>4. QED
  BY <1>2, <1>3

\* The counting of the queue, the lock and the single consumer are kept by every step.
LEMMA WorkerInvStep ==
  ASSUME TypeOK, WorkerInv, [Next]_vars
  PROVE  WorkerInv'
<1> USE DEF TypeOK, WorkerInv, QueueAccounting, JoinHoldsLock, OneWorker, is_alive,
            InQueue, channelVars, workerVars, queueVars, clientVars, TERMINATOR
<1>1. ASSUME NEW c \in Clients, HandleRaises(c) PROVE WorkerInv'
  BY <1>1 DEF HandleRaises
<1>2. ASSUME NEW c \in Clients, HandleStep(c) PROVE WorkerInv'
  BY <1>2 DEF HandleStep, Handle
<1>3. ASSUME NEW c \in Clients, EnsureThread(c) PROVE WorkerInv'
  BY <1>3 DEF EnsureThread
<1>4. ASSUME NEW c \in Clients, Start(c) PROVE WorkerInv'
  BY <1>4, ClientsAssumption DEF Start
<1>5. ASSUME NEW c \in Clients, Put(c) PROVE WorkerInv'
  <2>0. accepted \in Seq(Item) /\ queue \in Seq(Nat) /\ queue' = Append(queue, Len(accepted) + 1)
    BY <1>5 DEF Put
  <2>1. Len(accepted) + 1 \in Nat
    BY ONLY <2>0, LenProperties
  <2>2. ASSUME InQueue(0) PROVE InQueue(0)'
    BY ONLY <2>0, <2>1, <2>2, PutMember DEF InQueue
  <2>3. QueueAccounting'
    <3>1. Len(queue') = Len(queue) + 1 /\ Len(queue) \in Nat
      BY ONLY <2>0, <2>1, PutQueue
    <3>2. unfinished' = unfinished + 1 /\ worker' = worker /\ leaked' = leaked
      BY <1>5 DEF Put
    <3>3. unfinished \in Nat /\ leaked \in Nat /\ QueueAccounting
      OBVIOUS
    <3>4. QED
      BY ONLY <3>1, <3>2, <3>3 DEF QueueAccounting
  <2>4. JoinHoldsLock'
    <3>1. /\ UNCHANGED <<lock, worker, hand>>
          /\ \A d \in Clients : pc'[d] = "sd_join" => pc[d] = "sd_join"
      BY <1>5 DEF Put
    <3>2. QED
      BY ONLY <2>2, <3>1, JoinHoldsLock DEF JoinHoldsLock, TERMINATOR
  <2>5. QED
    BY <1>5, <2>3, <2>4 DEF Put
<1>6. ASSUME NEW c \in Clients, ShutdownSkipped(c) PROVE WorkerInv'
  BY <1>6 DEF ShutdownSkipped
<1>7. ASSUME NEW c \in Clients, ShutdownBegin(c) PROVE WorkerInv'
  BY <1>7 DEF ShutdownBegin
<1>8. ASSUME NEW c \in Clients, ShutdownNoThread(c) PROVE WorkerInv'
  BY <1>8 DEF ShutdownNoThread
<1>9. ASSUME NEW c \in Clients, ShutdownTerminate(c) PROVE WorkerInv'
  <2>0. queue \in Seq(Nat) /\ queue' = Append(queue, 0)
    BY <1>9 DEF ShutdownTerminate
  <2>1. InQueue(0)'
    BY ONLY <2>0, PutMember DEF InQueue
  <2>2. QueueAccounting'
    <3>1. Len(queue') = Len(queue) + 1 /\ Len(queue) \in Nat
      BY ONLY <2>0, PutQueue
    <3>2. unfinished' = unfinished + 1 /\ worker' = worker /\ leaked' = leaked
      BY <1>9 DEF ShutdownTerminate
    <3>3. unfinished \in Nat /\ leaked \in Nat /\ QueueAccounting
      OBVIOUS
    <3>4. QED
      BY ONLY <3>1, <3>2, <3>3 DEF QueueAccounting
  <2>3. JoinHoldsLock'
    BY <1>9, <2>1, ClientsAssumption DEF ShutdownTerminate
  <2>4. QED
    BY <1>9, <2>2, <2>3 DEF ShutdownTerminate
<1>10. ASSUME NEW c \in Clients, ShutdownJoined(c) PROVE WorkerInv'
  BY <1>10, ClientsAssumption DEF ShutdownJoined
<1>11. CASE WorkerGet
  <2>0. queue \in Seq(Nat) /\ queue # <<>> /\ queue' = Tail(queue) /\ hand' = Head(queue)
    BY <1>11 DEF WorkerGet
  <2>1. InQueue(0) => hand' = 0 \/ InQueue(0)'
    BY ONLY <2>0, GetMember DEF InQueue
  <2>2. QueueAccounting'
    BY <1>11, GetQueue DEF WorkerGet
  <2>3. QED
    BY <1>11, <2>1, <2>2 DEF WorkerGet
<1>12. CASE WorkerBreak
  BY <1>12 DEF WorkerBreak, TaskDone
<1>13. CASE WorkerExit
  BY <1>13 DEF WorkerExit
<1>14. CASE SkipItem
  BY <1>14 DEF SkipItem, TaskDone
<1>15. CASE WebCallOk
  BY <1>15 DEF WebCallOk, Calling, TaskDone
<1>16. CASE WebCallRetry
  BY <1>16 DEF WebCallRetry, Calling
<1>17. ASSUME NEW panic \in BOOLEAN, WebCallFails(panic) PROVE WorkerInv'
  BY <1>17 DEF WebCallFails, Calling, TaskDone
<1>18. ASSUME NEW c \in Clients, Fork(c) PROVE WorkerInv'
  BY <1>18 DEF Fork
<1>19. CASE UNCHANGED vars
  BY <1>19 DEF vars
<1>20. QED
  BY <1>1, <1>2, <1>3, <1>4, <1>5, <1>6, <1>7, <1>8, <1>9, <1>10, <1>11, <1>12,
     <1>13, <1>14, <1>15, <1>16, <1>17, <1>18, <1>19
     DEF Next, ClientStep, WorkerStep

-----------------------------------------------------------------------------
EventInv == NoEventLost /\ DeliveryOrder /\ CallsBehind

\* The queue holds the pending events in order, and web channel calls follow it,
\* through every step.
LEMMA EventInvStep ==
  ASSUME TypeOK, TypeOK', WorkerInv, EventInv, [Next]_vars
  PROVE  EventInv'
<1> USE DEF EventInv, NoEventLost, DeliveryOrder, CallsBehind, Pending, Holding, TERMINATOR
<1>S. ASSUME Holding,
             NEW v \in Settled,
             outcome' = [outcome EXCEPT ![hand] = v],
             worker' # "handle",
             UNCHANGED queue,
             calls' \in {calls, Append(calls, hand)}
      PROVE  EventInv'
  <2>1. /\ DOMAIN outcome' = DOMAIN outcome
        /\ \A e \in DOMAIN outcome : e # hand => outcome'[e] = outcome[e]
        /\ outcome'[hand] # "pending"
        /\ hand \in DOMAIN outcome
    BY <1>S DEF Settled
  <2>2. NoEventLost'
    BY <1>S, <2>1
  <2>3. \A e \in DOMAIN outcome' : Pending(e)' => e > hand
    <3>1. \A e \in DOMAIN outcome' : Pending(e)' => InQueue(e) /\ Pending(e)
      BY <1>S, <2>1 DEF InQueue
    <3>2. \A e \in DOMAIN outcome : InQueue(e) /\ e # 0 => hand < e
      BY <1>S DEF InQueue
    <3>3. \A e \in DOMAIN outcome : e # 0
      BY LenProperties DEF TypeOK
    <3>4. QED
      BY <2>1, <3>1, <3>2, <3>3 DEF TypeOK
  <2>4. CASE calls' = calls
    BY <2>1, <2>2, <2>4
  <2>5. CASE calls' = Append(calls, hand)
    <3>1. calls \in Seq(Nat) /\ hand \in Nat
      BY DEF TypeOK
    <3>2. /\ DOMAIN calls = 1..Len(calls) /\ Len(calls) \in Nat
          /\ DOMAIN calls' = 1..(Len(calls) + 1)
          /\ \A m \in 1..Len(calls) : calls'[m] = calls[m]
          /\ calls'[Len(calls) + 1] = hand
      BY ONLY <2>5, <3>1, PutQueue
    <3>3. \A m \in 1..Len(calls) : calls[m] <= hand
      BY <1>S, <3>2
    <3>4. DeliveryOrder'
      BY <3>1, <3>2, <3>3
    <3>5. CallsBehind'
      <4>1. \A m \in DOMAIN calls' : calls'[m] \in DOMAIN outcome'
        BY <2>1, <3>2
      <4>2. \A m \in 1..Len(calls), e \in DOMAIN outcome' : Pending(e)' => calls'[m] <= e
        BY <2>1, <3>2
      <4>3. \A e \in DOMAIN outcome' : Pending(e)' => hand <= e
        BY <2>1, <2>3, <3>1 DEF TypeOK
      <4>4. QED
        BY <3>2, <4>1, <4>2, <4>3
    <3>6. QED
      BY <2>2, <3>4, <3>5
  <2>6. QED
    BY <1>S, <2>4, <2>5
<1>0. ASSUME UNCHANGED <<queue, outcome, calls>>,
             UNCHANGED hand,
             worker' = "handle" <=> worker = "handle"
      PROVE  EventInv'
  BY <1>0
<1> USE DEF channelVars, workerVars, queueVars, clientVars
<1>1. ASSUME NEW c \in Clients,
             \/ HandleRaises(c) \/ HandleStep(c) \/ EnsureThread(c)
             \/ ShutdownSkipped(c) \/ ShutdownBegin(c) \/ ShutdownNoThread(c)
             \/ ShutdownJoined(c)
      PROVE  EventInv'
  BY <1>0, <1>1 DEF HandleRaises, HandleStep, Handle, EnsureThread, ShutdownSkipped,
                    ShutdownBegin, ShutdownNoThread, ShutdownJoined
<1>4. ASSUME NEW c \in Clients, Start(c) PROVE EventInv'
  BY <1>0, <1>4 DEF Start, WorkerInv, OneWorker
<1>5. ASSUME NEW c \in Clients, Put(c) PROVE EventInv'
  <2> DEFINE n == Len(accepted)
  <2>1. /\ queue \in Seq(Nat) /\ outcome \in Seq(Outcome) /\ n \in Nat
        /\ DOMAIN outcome = 1..n
        /\ queue' = Append(queue, n + 1)
        /\ outcome' = Append(outcome, "pending")
        /\ calls' = calls /\ worker' = worker /\ hand' = hand
    BY <1>5, LenProperties DEF Put, TypeOK
  <2>n. n \in Nat /\ DOMAIN outcome = 1..n /\ UNCHANGED <<calls, worker, hand>>
    BY <2>1
  <2> HIDE DEF n
  <2>2. /\ DOMAIN outcome' = 1..(n + 1)
        /\ \A e \in 1..n : outcome'[e] = outcome[e]
        /\ outcome'[n + 1] = "pending"
    <3>1. "pending" \in Outcome /\ Len(outcome) = n
      BY DEF Outcome, TypeOK, n
    <3>2. QED
      BY ONLY <2>1, <3>1, AppendProperties, LenProperties
  <2>3. /\ DOMAIN queue = 1..Len(queue) /\ Len(queue) \in Nat
        /\ DOMAIN queue' = 1..(Len(queue) + 1)
        /\ \A i \in 1..Len(queue) : queue'[i] = queue[i]
        /\ queue'[Len(queue) + 1] = n + 1
    BY ONLY <2>1, PutQueue
  <2>4. NoEventLost'
    <3>1. ASSUME NEW e \in DOMAIN outcome', Pending(e)'
          PROVE  (Holding' /\ hand' = e) \/ InQueue(e)'
      <4>1. CASE e = n + 1
        <5>1. Len(queue) + 1 \in DOMAIN queue' /\ queue'[Len(queue) + 1] = e
          BY ONLY <2>3, <4>1
        <5>2. QED
          BY ONLY <5>1 DEF InQueue
      <4>2. CASE e # n + 1
        <5>1. e \in DOMAIN outcome /\ Pending(e)
          BY <2>1, <2>2, <3>1, <4>2
        <5>2. CASE Holding /\ hand = e
          BY <2>1, <5>2
        <5>3. CASE InQueue(e)
          BY <2>1, <2>3, <5>3 DEF InQueue
        <5>4. QED
          BY <5>1, <5>2, <5>3 DEF InQueue
      <4>3. QED
        BY <4>1, <4>2
    <3>2. ASSUME NEW i \in DOMAIN queue', queue'[i] # TERMINATOR
          PROVE  /\ queue'[i] \in DOMAIN outcome'
                 /\ outcome'[queue'[i]] = "pending"
                 /\ \A j \in 1..(i - 1) : queue'[j] < queue'[i]
                 /\ Holding' => hand' < queue'[i]
      <4>0. \A j \in 1..Len(queue) : queue[j] < n + 1
        <5>1. \A j \in 1..Len(queue) : queue[j] = 0 \/ queue[j] \in 1..n
          BY <2>1, <2>3
        <5>2. QED
          BY ONLY <2>n, <5>1
      <4>1. CASE i = Len(queue) + 1
        <5>1. queue'[i] = n + 1 /\ outcome'[queue'[i]] = "pending"
          BY ONLY <2>2, <2>3, <4>1
        <5>2. \A j \in 1..(i - 1) : queue'[j] < queue'[i]
          BY ONLY <2>n, <2>3, <4>0, <4>1, <5>1
        <5>3. Holding' => hand' < queue'[i]
          BY <2>n, <5>1
        <5>4. QED
          BY ONLY <2>n, <2>2, <5>1, <5>2, <5>3
      <4>2. CASE i \in 1..Len(queue)
        <5>1. queue'[i] = queue[i] /\ queue[i] # TERMINATOR /\ queue[i] \in 1..n
          BY <2>1, <2>3, <3>2, <4>2
        <5>2. \A j \in 1..(i - 1) : queue'[j] = queue[j]
          BY ONLY <2>3, <4>2
        <5>3. Pending(queue[i]) /\ \A j \in 1..(i - 1) : queue[j] < queue[i]
          BY <2>3, <4>2, <5>1
        <5>4. Holding => hand < queue[i]
          BY <2>3, <4>2, <5>1
        <5>5. QED
          BY ONLY <2>n, <2>2, <5>1, <5>2, <5>3, <5>4 DEF Pending, Holding
      <4>3. QED
        BY <2>3, <4>1, <4>2
    <3>3. Holding' => hand' \in DOMAIN outcome' /\ Pending(hand)'
      BY <2>1, <2>2
    <3>4. QED
      BY ONLY <3>1, <3>2, <3>3 DEF InQueue, NoEventLost, Pending, Holding
  <2>5. CallsBehind'
    BY <2>1, <2>2
  <2>6. QED
    BY <2>1, <2>4, <2>5
<1>9. ASSUME NEW c \in Clients, ShutdownTerminate(c) PROVE EventInv'
  <2>1. queue \in Seq(Nat) /\ queue' = Append(queue, 0)
    BY <1>9 DEF ShutdownTerminate, TypeOK
  <2>2. UNCHANGED <<outcome, calls, worker, hand>>
    BY <1>9 DEF ShutdownTerminate
  <2>3. /\ DOMAIN queue = 1..Len(queue) /\ Len(queue) \in Nat
        /\ DOMAIN queue' = 1..(Len(queue) + 1)
        /\ \A i \in 1..Len(queue) : queue'[i] = queue[i]
        /\ queue'[Len(queue) + 1] = 0
    BY ONLY <2>1, PutQueue
  <2>4. QED
    BY <2>2, <2>3
<1>11. CASE WorkerGet
  <2>1. queue \in Seq(Nat) /\ queue # <<>> /\ queue' = Tail(queue) /\ hand' = Head(queue)
    BY <1>11 DEF WorkerGet, TypeOK
  <2>2. worker = "get" /\ worker' = "handle" /\ UNCHANGED <<outcome, calls>>
    BY <1>11 DEF WorkerGet
  <2>3. /\ hand' = queue[1]
        /\ Len(queue) \in Nat \ {0}
        /\ DOMAIN queue = 1..Len(queue)
        /\ DOMAIN queue' = 1..(Len(queue) - 1)
        /\ \A i \in 1..(Len(queue) - 1) : queue'[i] = queue[i + 1]
    BY ONLY <2>1, GetQueue
  <2>4. ASSUME NEW e \in DOMAIN outcome, Pending(e)
        PROVE  (hand' # 0 /\ hand' = e) \/ InQueue(e)'
    <3>0. outcome \in Seq(Outcome)
      BY DEF TypeOK
    <3>e. e # 0
      BY ONLY <3>0, LenProperties, e \in DOMAIN outcome
    <3>1. InQueue(e) /\ e # 0
      BY <2>2, <2>4, <3>e DEF InQueue
    <3>2. hand' = e \/ InQueue(e)'
      BY ONLY <2>1, <3>1, GetMember DEF InQueue
    <3>3. QED
      BY <3>1, <3>2
  <2>5. ASSUME NEW i \in DOMAIN queue', queue'[i] # 0
        PROVE  /\ queue'[i] \in DOMAIN outcome
               /\ Pending(queue'[i])
               /\ \A j \in 1..(i - 1) : queue'[j] < queue'[i]
               /\ hand' < queue'[i]
    <3>1. i + 1 \in DOMAIN queue /\ queue'[i] = queue[i + 1] /\ i \in Nat
      BY ONLY <2>3, <2>5
    <3>2. /\ queue[i + 1] \in DOMAIN outcome
          /\ Pending(queue[i + 1])
          /\ \A j \in 1..i : queue[j] < queue[i + 1]
      BY <2>5, <3>1
    <3>3. \A j \in 1..(i - 1) : queue'[j] = queue[j + 1] /\ j + 1 \in 1..i
      BY ONLY <2>3, <2>5
    <3>4. hand' = queue[1] /\ 1 \in 1..i
      BY ONLY <2>3, <2>5
    <3>5. QED
      BY ONLY <3>1, <3>2, <3>3, <3>4
  <2>6. hand' # 0 => hand' \in DOMAIN outcome /\ Pending(hand')
    BY <2>3
  <2>7. QED
    BY <2>2, <2>4, <2>5, <2>6 DEF InQueue
<1>12. CASE WorkerBreak
  BY <1>12 DEF WorkerBreak
<1>13. CASE WorkerExit
  BY <1>0, <1>13 DEF WorkerExit
<1>14. CASE SkipItem
  BY <1>S, <1>14 DEF SkipItem, Settled
<1>15. CASE WebCallOk
  BY <1>S, <1>15 DEF WebCallOk, Calling, Settled
<1>16. CASE WebCallRetry
  <2>1. Holding /\ calls' = Append(calls, hand) /\ UNCHANGED <<queue, outcome, worker, hand>>
    BY <1>16 DEF WebCallRetry, Calling
  <2>2. calls \in Seq(Nat) /\ hand \in Nat
    BY DEF TypeOK
  <2>3. /\ DOMAIN calls = 1..Len(calls) /\ Len(calls) \in Nat
        /\ DOMAIN calls' = 1..(Len(calls) + 1)
        /\ \A m \in 1..Len(calls) : calls'[m] = calls[m]
        /\ calls'[Len(calls) + 1] = hand
    BY ONLY <2>1, <2>2, PutQueue
  <2>4. \A m \in 1..Len(calls) : calls[m] <= hand
    BY <2>1, <2>3
  <2>5. DeliveryOrder'
    BY <2>2, <2>3, <2>4
  <2>6. \A e \in DOMAIN outcome : Pending(e) => hand <= e
    <3>1. ASSUME NEW e \in DOMAIN outcome, InQueue(e), e # 0 PROVE hand < e
      BY <2>1, <3>1 DEF InQueue
    <3>0. outcome \in Seq(Outcome)
      BY DEF TypeOK
    <3>2. \A e \in DOMAIN outcome : e # 0 /\ e \in Nat
      BY ONLY <3>0, LenProperties
    <3>3. \A e \in DOMAIN outcome : Pending(e) => hand = e \/ InQueue(e)
      BY DEF InQueue
    <3>4. QED
      BY ONLY <2>2, <3>1, <3>2, <3>3
  <2>7. CallsBehind'
    BY <2>1, <2>3, <2>6
  <2>8. QED
    BY <2>1, <2>5, <2>7
<1>17. ASSUME NEW panic \in BOOLEAN, WebCallFails(panic) PROVE EventInv'
  BY <1>S, <1>17 DEF WebCallFails, Calling, Settled
<1>18. ASSUME NEW c \in Clients, Fork(c) PROVE EventInv'
  <2>1. CASE Holding
    BY <1>S, <1>18, <2>1 DEF Fork, Settled
  <2>2. CASE ~Holding
    BY <1>18, <2>2 DEF Fork
  <2>3. QED
    BY <2>1, <2>2
<1>19. CASE UNCHANGED vars
  BY <1>0, <1>19 DEF vars
<1>20. QED
  BY <1>1, <1>4, <1>5, <1>9, <1>11, <1>12, <1>13, <1>14, <1>15, <1>16, <1>17, <1>18, <1>19
     DEF Next, ClientStep, WorkerStep

-----------------------------------------------------------------------------
IInv == TypeOK /\ WorkerInv /\ EventInv

\* The inductive invariant holds of every reachable state.
THEOREM Invariance == Spec => []IInv
<1>1. Init => TypeOK
  BY TypeInit
<1>2. Init => WorkerInv /\ EventInv
  BY DEF Init, WorkerInv, QueueAccounting, JoinHoldsLock, OneWorker, is_alive, EventInv,
         NoEventLost, DeliveryOrder, CallsBehind, Holding, TERMINATOR
<1>3. ASSUME IInv, [Next]_vars PROVE IInv'
  <2>1. TypeOK'
    BY <1>3, TypeStep DEF IInv, WorkerInv
  <2>2. WorkerInv'
    BY <1>3, WorkerInvStep DEF IInv
  <2>3. EventInv'
    BY <1>3, <2>1, EventInvStep DEF IInv
  <2>4. QED
    BY <2>1, <2>2, <2>3 DEF IInv
<1>4. QED
  BY <1>1, <1>2, <1>3, PTL DEF Spec, IInv

\* The state keeps its types; in particular task_done() is never called too often.
THEOREM TypeCorrect == Spec => []TypeOK
<1>1. IInv => TypeOK
  BY DEF IInv
<1>2. QED
  BY <1>1, Invariance, PTL

\* join() counts exactly the items that are queued, in hand or left to a parent.
THEOREM QueueAccountingHolds == Spec => []QueueAccounting
<1>1. IInv => QueueAccounting
  BY DEF IInv, WorkerInv
<1>2. QED
  BY <1>1, Invariance, PTL

\* No second consumer is ever started on the queue.
THEOREM OneWorkerHolds == Spec => []OneWorker
<1>1. IInv => OneWorker
  BY DEF IInv, WorkerInv
<1>2. QED
  BY <1>1, Invariance, PTL

\* No accepted event is lost or overtaken inside the channel.
THEOREM NoEventLostHolds == Spec => []NoEventLost
<1>1. IInv => NoEventLost
  BY DEF IInv, EventInv
<1>2. QED
  BY <1>1, Invariance, PTL

\* The web channel is called for events in the order of their put().
THEOREM DeliveryOrderHolds == Spec => []DeliveryOrder
<1>1. IInv => DeliveryOrder
  BY DEF IInv, EventInv
<1>2. QED
  BY <1>1, Invariance, PTL

\* A shutdown() that waited leaves no accepted event unhandled when it returns.
THEOREM ShutdownDrainsHolds == Spec => ShutdownDrains
<1> DEFINE Drained == \A e \in DOMAIN outcome : ~Pending(e)
           Returns(c) == pc[c] = "sd_join" /\ pc'[c] = "idle"
<1>1. ASSUME IInv, NEW c \in Clients, ShutdownJoined(c) PROVE Drained
  <2>1. queue \in Seq(Nat) /\ leaked \in Nat /\ unfinished = 0 /\ QueueAccounting
    BY <1>1 DEF IInv, TypeOK, WorkerInv, ShutdownJoined
  <2>2. Len(queue) = 0 /\ worker # "handle" /\ DOMAIN queue = 1..Len(queue)
    BY ONLY <2>1, LenProperties DEF QueueAccounting
  <2>3. QED
    BY <1>1, <2>2 DEF IInv, EventInv, NoEventLost, Holding, Pending
<1>2. ASSUME TypeOK, [Next]_vars, NEW c \in Clients, Returns(c) PROVE ShutdownJoined(c)
  <2> USE DEF TypeOK, channelVars, workerVars, queueVars, clientVars
  <2>1. ~ UNCHANGED pc
    BY <1>2
  <2>2. ASSUME NEW d \in Clients,
               \/ HandleRaises(d) \/ HandleStep(d) \/ ShutdownSkipped(d)
               \/ ShutdownBegin(d) \/ Fork(d) \/ ClientStep(d)
        PROVE  ShutdownJoined(c)
    BY <1>2, <2>2 DEF HandleRaises, HandleStep, Handle, ShutdownSkipped, ShutdownBegin, Fork,
         ClientStep, EnsureThread, Start, Put, ShutdownNoThread, ShutdownTerminate, ShutdownJoined
  <2>3. ~ WorkerStep
    BY <2>1 DEF WorkerStep, WorkerGet, WorkerBreak, WorkerExit, SkipItem, WebCallOk,
                WebCallRetry, WebCallFails
  <2>4. QED
    BY <1>2, <2>1, <2>2, <2>3 DEF Next, vars
<1>3. IInv /\ [Next]_vars => [\A c \in Clients : Returns(c) => Drained]_vars
  BY <1>1, <1>2 DEF IInv
<1>4. QED
  BY <1>3, Invariance, PTL DEF Spec, ShutdownDrains

\* Every new web channel call is for an event that is still pending.
THEOREM SettledNotResentHolds == Spec => SettledNotResent
<1> DEFINE New == \A n \in DOMAIN calls' : n \notin DOMAIN calls => Pending(calls'[n])
<1>1. ASSUME IInv, Calling PROVE New
  <2>1. calls \in Seq(Nat) /\ hand \in Nat /\ calls' = Append(calls, hand) /\ Holding
    BY <1>1 DEF IInv, TypeOK, Calling, Holding
  <2>2. \A n \in DOMAIN calls' : n \notin DOMAIN calls => calls'[n] = hand
    BY ONLY <2>1, PutQueue
  <2>3. Pending(hand)
    BY <1>1, <2>1 DEF IInv, EventInv, NoEventLost
  <2>4. QED
    BY <2>2, <2>3
<1>2. ASSUME [Next]_vars PROVE Calling \/ calls' = calls
  BY <1>2 DEF Next, vars, HandleRaises, HandleStep, Handle, ShutdownSkipped, ShutdownBegin, Fork,
     ClientStep, EnsureThread, Start, Put, ShutdownNoThread, ShutdownTerminate, ShutdownJoined,
     WorkerStep, WorkerGet, WorkerBreak, WorkerExit, SkipItem, WebCallOk, WebCallRetry, WebCallFails
<1>3. IInv /\ [Next]_vars => [New]_vars
  BY <1>1, <1>2
<1>4. QED
  BY <1>3, Invariance, PTL DEF Spec, SettledNotResent

-----------------------------------------------------------------------------
\* The channel implements the ordered event log: every step accepts an event,
\* settles the first pending one, or changes neither.
THEOREM Refinement == Spec => ImplementsEventLog
<1>1. Init => Log!Init
  BY DEF Init, Log!Init
<1>2. ASSUME IInv, NEW v \in Settled, Holding, outcome' = [outcome EXCEPT ![hand] = v],
             accepted' = accepted
      PROVE  Log!Settle
  <2>1. hand \in DOMAIN outcome /\ Pending(hand)
    BY <1>2 DEF IInv, EventInv, NoEventLost
  <2>2. ASSUME NEW j \in 1..(hand - 1) PROVE outcome[j] # "pending"
    <3>1. j \in DOMAIN outcome /\ j # hand /\ ~(hand < j) /\ j # TERMINATOR
      BY <1>2, <2>1, LenProperties DEF IInv, TypeOK, TERMINATOR
    <3>2. ASSUME InQueue(j) PROVE hand < j
      BY <1>2, <3>1, <3>2 DEF IInv, EventInv, NoEventLost, InQueue
    <3>3. QED
      BY <1>2, <3>1, <3>2 DEF IInv, EventInv, NoEventLost, InQueue, Pending
  <2>3. QED
    BY <1>2, <2>1, <2>2 DEF Log!Settle, Pending
<1>3. ASSUME IInv, [Next]_vars PROVE [Log!Next]_(Log!vars)
  <2> USE DEF Log!Next, Log!vars, channelVars, workerVars, queueVars, clientVars, Settled
  <2>1. ASSUME NEW c \in Clients, Put(c) PROVE Log!Accept
    BY <1>3, <2>1 DEF Put, Log!Accept, IInv, TypeOK
  <2>2. ASSUME NEW c \in Clients, Fork(c) PROVE [Log!Next]_(Log!vars)
    BY <1>2, <1>3, <2>2 DEF Fork, Holding
  <2>3. CASE SkipItem
    BY <1>2, <1>3, <2>3 DEF SkipItem, Holding
  <2>4. CASE WebCallOk
    BY <1>2, <1>3, <2>4 DEF WebCallOk, Calling, Holding
  <2>5. ASSUME NEW panic \in BOOLEAN, WebCallFails(panic) PROVE Log!Settle
    BY <1>2, <1>3, <2>5 DEF WebCallFails, Calling, Holding
  <2>6. CASE UNCHANGED <<accepted, outcome>>
    BY <2>6
  <2>7. QED
    BY <1>3, <2>1, <2>2, <2>3, <2>4, <2>5, <2>6
       DEF Next, vars, HandleRaises, HandleStep, Handle, ShutdownSkipped, ShutdownBegin,
           ClientStep, EnsureThread, Start, ShutdownNoThread, ShutdownTerminate,
           ShutdownJoined, WorkerStep, WorkerGet, WorkerBreak, WorkerExit, WebCallRetry
<1>4. QED
  BY <1>1, <1>3, Invariance, PTL DEF Spec, ImplementsEventLog, Log!Spec

-----------------------------------------------------------------------------
(***************************************************************************)
(* Why a shutdown() does not wait for ever, if the application tracks from *)
(* one thread (from several, one may put an event behind the terminator).  *)
(***************************************************************************)
Single == \A c, d \in Clients : c = d

\* A thread that waits inside a tracking call has something to wait for: the lock is free, the
\* worker has an item in hand or in the queue, or every item is done but those that a fork left
\* in the hand of the parent's worker, of which there are none without a fork.
ShutdownServed ==
  /\ \A c \in Clients :
       /\ pc[c] \in {"start", "sd_lock"} => lock = Nobody
       /\ pc[c] = "sd_join" => unfinished = leaked \/ worker = "handle" \/ (worker = "get" /\ queue # <<>>)
  /\ ~AllowFork => leaked = 0

\* The terminator is the last item of the queue, and there is none before the shutdown.
Terminators(c) ==
  /\ lock # Nobody => pc[c] = "sd_join"
  /\ pc[c] # "sd_join" => /\ ~InQueue(TERMINATOR)
                          /\ worker = "handle" => hand # TERMINATOR
                          /\ worker = "exiting" => ~thread
  /\ pc[c] = "sd_lock" => thread /\ worker \in {"get", "handle"}
  /\ pc[c] = "sd_join" => /\ \A i \in DOMAIN queue : queue[i] = TERMINATOR => i = Len(queue)
                          /\ worker = "handle" /\ hand = TERMINATOR => queue = <<>>
                          /\ worker \in {"exiting", "none"} => queue = <<>>

\* The steps of the one client, and of the worker, keep it so.
LEMMA TerminatorsStep ==
  ASSUME Single, IInv, NEW c \in Clients, Terminators(c), [Next]_vars
  PROVE  Terminators(c)'
<1>t. /\ queue \in Seq(Nat) /\ accepted \in Seq(Item) /\ pc \in [Clients -> ClientPc]
      /\ worker \in {"none", "get", "handle", "exiting"} /\ leaked \in Nat /\ Len(queue) \in Nat
      /\ DOMAIN queue = 1..Len(queue) /\ (Len(queue) = 0 => queue = <<>>)
  <2>1. queue \in Seq(Nat)
    BY DEF IInv, TypeOK
  <2>. QED  BY <2>1, LenProperties, EmptySeq DEF IInv, TypeOK
<1>. USE DEF Terminators, InQueue, TERMINATOR, channelVars, workerVars, queueVars, clientVars
<1>1. ASSUME NEW d \in Clients,
             HandleRaises(d) \/ HandleStep(d) \/ EnsureThread(d) \/ ShutdownSkipped(d) \/ ShutdownNoThread(d)
      PROVE  Terminators(c)'
  BY <1>1, <1>t DEF Single, HandleRaises, HandleStep, Handle, EnsureThread, ShutdownSkipped, ShutdownNoThread
<1>2. ASSUME NEW d \in Clients, Start(d) PROVE Terminators(c)'
  BY <1>2, <1>t DEF Single, Start
<1>3. ASSUME NEW d \in Clients, Put(d) PROVE Terminators(c)'
  <2>1. /\ pc[c] = "put" /\ pc'[c] = "idle" /\ queue' = Append(queue, Len(accepted) + 1)
        /\ UNCHANGED <<lock, thread, worker, hand>>
    BY <1>3, <1>t DEF Single, Put
  <2>2. Len(accepted) + 1 \in Nat \ {0}
    BY ONLY <1>t, LenProperties
  <2>3. ~InQueue(TERMINATOR)'
    <3>1. \A i \in DOMAIN queue : queue[i] # 0
      BY <2>1
    <3>. QED  BY <1>t, <2>1, <2>2, <3>1, PutQueue
  <2>. QED  BY <2>1, <2>3
<1>4. ASSUME NEW d \in Clients, ShutdownBegin(d) PROVE Terminators(c)'
  BY <1>4, <1>t DEF Single, ShutdownBegin, is_alive
<1>5. ASSUME NEW d \in Clients, ShutdownTerminate(d) PROVE Terminators(c)'
  <2>1. /\ pc[c] = "sd_lock" /\ pc'[c] = "sd_join" /\ queue' = Append(queue, 0)
        /\ UNCHANGED <<thread, worker, hand>>
    BY <1>5, <1>t DEF Single, ShutdownTerminate
  <2>2. \A i \in DOMAIN queue : queue[i] # 0
    BY <2>1
  <2>3. \A i \in DOMAIN queue' : queue'[i] = 0 => i = Len(queue')
    BY <1>t, <2>1, <2>2, PutQueue
  <2>. QED  BY <2>1, <2>3
<1>6. ASSUME NEW d \in Clients, ShutdownJoined(d) PROVE Terminators(c)'
  <2>1. /\ pc[c] = "sd_join" /\ pc'[c] = "idle" /\ unfinished = 0 /\ lock' = Nobody /\ ~thread'
        /\ UNCHANGED <<worker, hand, queue>>
    BY <1>6, <1>t DEF Single, ShutdownJoined
  <2>2. Len(queue) = 0 /\ worker # "handle"
    BY <1>t, <2>1 DEF IInv, WorkerInv, QueueAccounting
  <2>. QED  BY <1>t, <2>1, <2>2
<1>7. CASE WorkerGet
  <2>1. /\ worker = "get" /\ queue # <<>> /\ hand' = Head(queue) /\ queue' = Tail(queue) /\ worker' = "handle"
        /\ UNCHANGED <<lock, thread, pc>>
    BY <1>7 DEF WorkerGet
  <2>2. /\ hand' = queue[1] /\ Len(queue) \in Nat \ {0} /\ Len(queue') = Len(queue) - 1
        /\ DOMAIN queue' = 1..(Len(queue) - 1)
        /\ \A i \in 1..(Len(queue) - 1) : queue'[i] = queue[i + 1]
    BY <1>t, <2>1, GetQueue
  <2>3. CASE pc[c] # "sd_join"
    <3>1. \A i \in 1..Len(queue) : queue[i] # 0
      BY <1>t, <2>3
    <3>2. hand' # 0 /\ \A i \in DOMAIN queue' : queue'[i] # 0
      BY <2>2, <3>1
    <3>. QED  BY <2>1, <2>3, <3>2
  <2>4. CASE pc[c] = "sd_join"
    <3>1. \A i \in 1..Len(queue) : queue[i] = 0 => i = Len(queue)
      BY <1>t, <2>4
    <3>2. \A i \in DOMAIN queue' : queue'[i] = 0 => i = Len(queue')
      BY <2>2, <3>1
    <3>3. hand' = 0 => Len(queue') = 0
      <4>1. 1 \in 1..Len(queue)
        BY <2>2
      <4>2. SUFFICES ASSUME hand' = 0 PROVE Len(queue') = 0
        OBVIOUS
      <4>3. Len(queue) = 1
        BY <2>2, <3>1, <4>1, <4>2
      <4>4. Len(queue') = Len(queue) - 1
        BY <2>2
      <4>5. Len(queue') = 1 - 1
        BY <4>3, <4>4, Zenon
      <4>. QED  BY <4>5
    <3>4. Len(queue') = 0 => queue' = <<>>
      <4>1. Tail(queue) \in Seq(Nat)
        BY <1>t, <2>1, HeadTailProperties
      <4>. QED  BY <2>1, <4>1, EmptySeq
    <3>. QED  BY <2>1, <2>4, <3>2, <3>3, <3>4
  <2>. QED  BY <2>3, <2>4
<1>8. CASE WorkerBreak
  BY <1>8, <1>t DEF WorkerBreak
<1>9. CASE WorkerExit
  BY <1>9, <1>t DEF WorkerExit
<1>10. CASE SkipItem \/ WebCallOk \/ WebCallRetry \/ \E panic \in BOOLEAN : WebCallFails(panic)
  BY <1>10, <1>t DEF SkipItem, WebCallOk, WebCallRetry, WebCallFails, Calling
<1>11. ASSUME NEW d \in Clients, Fork(d) PROVE Terminators(c)'
  BY <1>11, <1>t DEF Single, Fork
<1>12. CASE UNCHANGED vars
  BY <1>12 DEF vars
<1>. QED  BY <1>1, <1>2, <1>3, <1>4, <1>5, <1>6, <1>7, <1>8, <1>9, <1>10, <1>11, <1>12
             DEF Next, ClientStep, WorkerStep

\* Only a fork takes an item out of the hands of this process.
LEMMA LeakedStep == ASSUME ~AllowFork, [Next]_vars PROVE leaked' = leaked
BY DEF Next, vars, HandleRaises, HandleStep, Handle, ShutdownSkipped, ShutdownBegin, Fork,
   ClientStep, EnsureThread, Start, Put, ShutdownNoThread, ShutdownTerminate, ShutdownJoined,
   WorkerStep, WorkerGet, WorkerBreak, WorkerExit, SkipItem, WebCallOk, WebCallRetry, WebCallFails

\* No tracking call of an application with one thread is left waiting with nobody to wake it: the
\* part of ShutdownReturns that is a matter of safety, for any number of events and shutdowns.
THEOREM ShutdownServedHolds == ASSUME Single PROVE Spec => []ShutdownServed
<1>. DEFINE Inv == (\A c \in Clients : Terminators(c)) /\ (~AllowFork => leaked = 0)
<1>1. Init => Inv
  BY DEF Init, Terminators, InQueue
<1>2. IInv /\ Inv /\ [Next]_vars => Inv'
  BY TerminatorsStep, LeakedStep
<1>3. IInv /\ Inv => ShutdownServed
  <2>. SUFFICES ASSUME IInv, Inv, NEW c \in Clients
                PROVE  /\ pc[c] \in {"start", "sd_lock"} => lock = Nobody
                       /\ pc[c] = "sd_join" =>
                            unfinished = leaked \/ worker = "handle" \/ (worker = "get" /\ queue # <<>>)
    BY DEF ShutdownServed
  <2>1. Terminators(c) /\ worker \in {"none", "get", "handle", "exiting"} /\ leaked \in Nat
    BY DEF IInv, TypeOK
  <2>2. ASSUME pc[c] = "sd_join", worker = "get" PROVE queue # <<>>
    BY <2>2 DEF IInv, WorkerInv, JoinHoldsLock, InQueue
  <2>3. ASSUME pc[c] = "sd_join", worker \in {"none", "exiting"} PROVE unfinished = leaked
    <3>1. queue = <<>> /\ Len(<<>>) = 0
      BY <2>1, <2>3 DEF Terminators
    <3>. QED  BY <2>1, <2>3, <3>1 DEF IInv, WorkerInv, QueueAccounting
  <2>. QED  BY <2>1, <2>2, <2>3 DEF Terminators
<1>. QED  BY <1>1, <1>2, <1>3, Invariance, PTL DEF Spec
=============================================================================
