--------------------- MODULE CompositeTrackingStoreProofs ---------------------
(***************************************************************************)
(* Proofs about CompositeTrackingStore, for any threads, any stores, any   *)
(* number of calls and tries.                                              *)
(***************************************************************************)
EXTENDS CompositeTrackingStore, SequenceTheorems, TLAPS

InLoop == {"iterate", "sd_iterate"} \cup Stores
InInvoke == {"iterate", "remove"} \cup Stores

\* Stores only leave, so an iterator whose size is still right has seen no change.
Shrinking ==
  /\ Len(stores) <= Len(StoreOrder)
  /\ \A t \in Threads : pc[t] # "idle" => Len(stores) <= used[t]

\* A retry loop has not passed its last try.
TryBound == \A t \in Threads : pc[t] \in Stores => try_num[t] <= Tries(t)

\* The stores before the iterator's position were tried; after the loop, all of them.
Served ==
  \A t \in Threads :
    /\ pc[t] \in InLoop /\ Len(stores) = used[t] =>
         \A i \in 1..Len(stores) : i < pos[t] => stores[i] \in tried[t]
    /\ pc[t] = "remove" => \A i \in 1..Len(stores) : stores[i] \in tried[t]

\* What an _invoke is going to remove has failed in it.
Blamed ==
  \A t \in Threads :
    /\ pc[t] \in InInvoke => \A i \in 1..Len(failed[t]) : failed[t][i] \in lost[t]
    /\ pc[t] = "remove" => failed[t] # <<>>

IInv == TypeOK /\ Shrinking /\ TryBound /\ Served /\ Blamed

-----------------------------------------------------------------------------
\* Removing a key from the dict: the rest stays, in its order.
LEMMA RemoveAtFacts ==
  ASSUME NEW S, NEW s \in Seq(S), NEW i \in DOMAIN s
  PROVE  /\ RemoveAt(s, i) \in Seq(S)
         /\ Len(RemoveAt(s, i)) = Len(s) - 1
         /\ \A j \in 1..(Len(s) - 1) : RemoveAt(s, i)[j] = IF j < i THEN s[j] ELSE s[j + 1]
<1> DEFINE a == SubSeq(s, 1, i - 1)
           b == SubSeq(s, i + 1, Len(s))
<1>1. Len(s) \in Nat /\ i \in 1..Len(s) /\ \A j \in 1..Len(s) : s[j] \in S
  BY LenProperties, ElementOfSeq
<1>2. /\ a \in Seq(S) /\ Len(a) = i - 1
      /\ \A j \in 1..(i - 1) : a[j] = s[j]
  <2>1. \A j \in 1..(i - 1) : s[j] \in S
    BY <1>1
  <2>. QED  BY <1>1, <2>1, SubSeqProperties
<1>3. /\ b \in Seq(S) /\ Len(b) = Len(s) - i
      /\ \A j \in 1..(Len(s) - i) : b[j] = s[i + j]
  <2>1. \A j \in (i + 1)..Len(s) : s[j] \in S
    BY <1>1
  <2>. QED  BY <1>1, <2>1, SubSeqProperties
<1> HIDE DEF a, b
<1>4. /\ a \o b \in Seq(S) /\ Len(a \o b) = Len(a) + Len(b)
      /\ \A j \in 1..(Len(a) + Len(b)) :
           (a \o b)[j] = IF j <= Len(a) THEN a[j] ELSE b[j - Len(a)]
  BY <1>2, <1>3, ConcatProperties
<1>5. Len(a) + Len(b) = Len(s) - 1
  BY <1>1, <1>2, <1>3
<1>6. ASSUME NEW j \in 1..(Len(s) - 1)
      PROVE  (a \o b)[j] = IF j < i THEN s[j] ELSE s[j + 1]
  <2>1. (a \o b)[j] = IF j <= i - 1 THEN a[j] ELSE b[j - (i - 1)]
    BY <1>2, <1>4, <1>5
  <2>2. CASE j < i
    BY <1>1, <1>2, <2>1, <2>2
  <2>3. CASE ~(j < i)
    <3>1. j - (i - 1) \in 1..(Len(s) - i) /\ i + (j - (i - 1)) = j + 1
      BY <1>1, <2>3
    <3>2. ~(j <= i - 1)
      BY <1>1, <2>3
    <3>. QED  BY <1>3, <2>1, <2>3, <3>1, <3>2
  <2>. QED  BY <2>2, <2>3
<1>. QED  BY <1>4, <1>5, <1>6 DEF RemoveAt, a, b

\* The configured stores, as the dict begins.
LEMMA OrderType ==
  /\ StoreOrder \in Seq(Stores) /\ Len(StoreOrder) \in Nat
  BY OrderAssumption, SeqOfRange, LenProperties DEF Stores

\* Before the first call every store is in the dict and nothing has failed.
LEMMA InitIInv == Init => IInv
<1> SUFFICES ASSUME Init PROVE IInv
  OBVIOUS
<1>1. TypeOK
  <2>1. <<>> \in Seq(Stores)
    BY EmptySeq
  <2>2. [state |-> FALSE, tracking |-> FALSE] \in Call
    BY DEF Call
  <2>. QED  BY <2>1, <2>2, OrderType, RetriesAssumption, BoundsAssumption DEF Init, TypeOK
<1>2. Shrinking /\ TryBound /\ Served /\ Blamed
  BY NamesAssumption, OrderType
     DEF Init, Shrinking, TryBound, Served, Blamed, InLoop, InInvoke
<1>. QED  BY <1>1, <1>2 DEF IInv

\* The type of everything that the steps read.
LEMMA Types ==
  ASSUME TypeOK
  PROVE  /\ Len(stores) \in Nat /\ DOMAIN stores = 1..Len(stores)
         /\ \A i \in 1..Len(stores) : stores[i] \in Stores
         /\ \A t \in Threads :
              /\ failed[t] \in Seq(Stores) /\ Len(failed[t]) \in Nat
              /\ pos[t] \in Nat /\ used[t] \in Nat /\ try_num[t] \in Nat
              /\ Tries(t) \in 1..MaxRetries
BY OrderType, LenProperties, ElementOfSeq, RetriesAssumption DEF TypeOK, Tries, Call

\* Where a thread goes, and how its call ends.
LEMMA PlaceType ==
  ASSUME TypeOK, NEW t \in Threads
  PROVE  /\ \A r \in {"none", "returned", "panic", "error"} : End(t, r) =>
              /\ pc' \in [Threads -> {"idle", "iterate", "remove", "sd_iterate"} \cup Stores]
              /\ result' \in [Threads -> {"none", "returned", "panic", "error"}]
         /\ \A p \in {"iterate", "remove"} : pc' = [pc EXCEPT ![t] = p] =>
              pc' \in [Threads -> {"idle", "iterate", "remove", "sd_iterate"} \cup Stores]
BY DEF TypeOK, End

-----------------------------------------------------------------------------
\* Begin, for _invoke and for shutdown: a new iterator, and nothing tried yet.
LEMMA BeginStep ==
  ASSUME IInv, NEW t \in Threads, NEW where \in {"iterate", "sd_iterate"}, Begin(t, where),
         call' \in [Threads -> Call], \A u \in Threads \ {t} : call'[u] = call[u]
  PROVE  IInv'
<1> USE Types, NamesAssumption DEF IInv
<1>1. TypeOK'
  <2>1. Len(stores) \in 0..Len(StoreOrder) /\ 1 \in 1..(Len(StoreOrder) + 1) /\ 1 \in 1..MaxRetries
    BY OrderType, RetriesAssumption DEF Shrinking
  <2>2. /\ pos' \in [Threads -> 1..(Len(StoreOrder) + 1)] /\ used' \in [Threads -> 0..Len(StoreOrder)]
        /\ try_num' \in [Threads -> 1..MaxRetries] /\ failed' \in [Threads -> Seq(Stores)]
    BY <2>1, EmptySeq DEF TypeOK, Begin
  <2>3. invokes' \in [Threads -> 0..MaxInvokes]
    <3>1. invokes[t] \in 0..MaxInvokes /\ invokes[t] < MaxInvokes
      BY DEF TypeOK, Begin
    <3>2. invokes[t] + 1 \in 0..MaxInvokes
      BY <3>1, BoundsAssumption
    <3>. QED  BY <3>2 DEF TypeOK, Begin
  <2>4. /\ pc' \in [Threads -> {"idle", "iterate", "remove", "sd_iterate"} \cup Stores]
        /\ result' \in [Threads -> {"none", "returned", "panic", "error"}]
    BY DEF TypeOK, Begin, End
  <2>5. tried' \in [Threads -> SUBSET Stores] /\ lost' \in [Threads -> SUBSET Stores]
    BY DEF TypeOK, Begin
  <2>. QED  BY <2>2, <2>3, <2>4, <2>5 DEF TypeOK, Begin
<1>2. pc'[t] \in {"idle", "iterate", "sd_iterate"} /\ \A u \in Threads \ {t} : pc'[u] = pc[u]
  BY DEF TypeOK, Begin, End
<1>3. Shrinking'
  <2>1. /\ stores' = stores /\ used'[t] = Len(stores) /\ Len(stores) \in Nat
        /\ \A u \in Threads \ {t} : used'[u] = used[u]
    BY DEF TypeOK, Begin
  <2>2. Shrinking
    OBVIOUS
  <2>. QED  BY ONLY <1>2, <2>1, <2>2 DEF Shrinking
<1>4. TryBound'
  BY <1>2 DEF TypeOK, Begin, TryBound, Tries
<1>5. Served'
  <2>1. /\ stores' = stores /\ pos'[t] = 1
        /\ \A u \in Threads \ {t} : pos'[u] = pos[u] /\ used'[u] = used[u] /\ tried'[u] = tried[u]
    BY DEF TypeOK, Begin
  <2>2. ASSUME NEW i \in 1..Len(stores) PROVE ~(i < 1)
    OBVIOUS
  <2>3. ASSUME NEW u \in Threads PROVE
          /\ pc'[u] \in InLoop /\ Len(stores') = used'[u] =>
               \A i \in 1..Len(stores') : i < pos'[u] => stores'[i] \in tried'[u]
          /\ pc'[u] = "remove" => \A i \in 1..Len(stores') : stores'[i] \in tried'[u]
    <3>1. CASE u = t
      BY <1>2, <2>1, <2>2, <3>1
    <3>2. CASE u # t
      BY <1>2, <2>1, <3>2 DEF Served
    <3>. QED  BY <3>1, <3>2
  <2>. QED  BY <2>3 DEF Served, InLoop
<1>6. Blamed'
  <2>1. /\ failed'[t] = <<>> /\ Len(<<>>) = 0
        /\ \A u \in Threads \ {t} : failed'[u] = failed[u] /\ lost'[u] = lost[u]
    BY EmptySeq DEF TypeOK, Begin
  <2>. QED  BY <1>2, <2>1 DEF Blamed, InInvoke
<1>. QED  BY <1>1, <1>3, <1>4, <1>5, <1>6

\* The steps that change nothing but where the thread is, or end the call.
LEMMA EndStep ==
  ASSUME IInv, NEW t \in Threads, IteratorBroken(t) \/ ShutdownEnds(t) \/ HandlerOk(t)
  PROVE  IInv'
<1> USE Types, NamesAssumption DEF IInv
<1>1. TypeOK'
  BY DEF TypeOK, IteratorBroken, ShutdownEnds, HandlerOk, End
<1>2. /\ pc'[t] \in {"idle", "iterate"}
      /\ pc'[t] = "iterate" => pc[t] \in Stores
      /\ \A u \in Threads \ {t} : pc'[u] = pc[u]
      /\ UNCHANGED <<stores, used, pos, try_num, call, failed, tried, lost>>
  BY DEF TypeOK, IteratorBroken, ShutdownEnds, HandlerOk, End
<1>3. Shrinking' /\ TryBound'
  BY <1>2 DEF TypeOK, Shrinking, TryBound, Tries
<1>4. Served' /\ Blamed'
  BY <1>2 DEF TypeOK, Served, InLoop, Blamed, InInvoke
<1>. QED  BY <1>1, <1>3, <1>4

\* Taking the next store: the iterator's place is within the dict, whose size did not change.
LEMMA NextStoreStep == ASSUME IInv, NEW t \in Threads, NextStore(t) PROVE IInv'
<1> USE Types, NamesAssumption DEF IInv
<1>1. stores[pos[t]] \in Stores /\ pos[t] <= Len(StoreOrder)
  BY OrderType DEF TypeOK, NextStore, Shrinking
<1>2. TypeOK'
  <2>1. 1 \in 1..MaxRetries /\ pos[t] + 1 \in 1..(Len(StoreOrder) + 1)
    <3>1. pos[t] \in 1..(Len(StoreOrder) + 1)
      BY DEF TypeOK
    <3>. QED  BY <1>1, <3>1, RetriesAssumption, OrderType
  <2>. QED  BY <1>1, <2>1 DEF TypeOK, NextStore
<1>3. Shrinking' /\ Blamed'
  BY <1>1 DEF TypeOK, NextStore, Shrinking, Blamed, InInvoke
<1>5. TryBound'
  <2>1. try_num'[t] = 1 /\ \A u \in Threads \ {t} : pc'[u] = pc[u] /\ try_num'[u] = try_num[u]
    BY DEF TypeOK, NextStore
  <2>2. \A u \in Threads : Tries(u)' = Tries(u)
    BY DEF NextStore, Tries
  <2>. QED  BY <2>1, <2>2 DEF TryBound
<1>4. Served'
  <2>1. /\ pc[t] = "iterate" /\ pc'[t] \in Stores /\ pos'[t] = pos[t] + 1
        /\ tried'[t] = tried[t] \cup {stores[pos[t]]} /\ Len(stores) = used[t]
        /\ \A u \in Threads \ {t} : pc'[u] = pc[u] /\ pos'[u] = pos[u] /\ tried'[u] = tried[u]
        /\ UNCHANGED <<stores, used>>
    BY <1>1 DEF TypeOK, NextStore
  <2>2. ASSUME NEW i \in 1..Len(stores), i < pos[t] + 1 PROVE stores[i] \in tried'[t]
    <3>1. i < pos[t] \/ i = pos[t]
      <4>1. pos[t] \in Nat
        BY OrderType DEF TypeOK
      <4>. QED  BY ONLY <2>2, <4>1
    <3>. QED  BY <2>1, <2>2, <3>1 DEF Served, InLoop
  <2>. QED  BY <2>1, <2>2 DEF Served, InLoop
<1>. QED  BY <1>2, <1>3, <1>4, <1>5

\* The next try of a call to the same store.
LEMMA HandlerRetryStep == ASSUME IInv, NEW t \in Threads, HandlerRetry(t) PROVE IInv'
<1> USE Types, NamesAssumption DEF IInv
<1>1. try_num[t] + 1 <= Tries(t) /\ try_num[t] + 1 \in 1..MaxRetries
  <2>1. try_num[t] \in 1..MaxRetries /\ try_num[t] <= Tries(t) /\ try_num[t] # Tries(t)
    BY DEF TypeOK, HandlerRetry, TryBound
  <2>2. Tries(t) \in {1, MaxRetries}
    BY DEF Tries
  <2>. QED  BY ONLY <2>1, <2>2, RetriesAssumption
<1>2. TypeOK'
  BY <1>1 DEF TypeOK, HandlerRetry
<1>3. Shrinking' /\ TryBound' /\ Blamed' /\ Served'
  BY <1>1 DEF TypeOK, HandlerRetry, Shrinking, TryBound, Tries, Blamed, InInvoke, Served, InLoop
<1>. QED  BY <1>2, <1>3

\* A handler that failed for good is noted in lost before it is blamed.
LEMMA HandlerFailsStep ==
  ASSUME IInv, NEW t \in Threads, NEW panic \in BOOLEAN, HandlerFails(t, panic)
  PROVE  IInv'
<1> USE Types, NamesAssumption DEF IInv
<1>1. /\ pc[t] \in Stores /\ pc'[t] \in {"idle", "iterate"}
      /\ \A u \in Threads \ {t} : pc'[u] = pc[u] /\ failed'[u] = failed[u] /\ lost'[u] = lost[u]
      /\ lost'[t] = lost[t] \cup {pc[t]}
      /\ failed'[t] = failed[t] \/ failed'[t] = Append(failed[t], pc[t])
      /\ UNCHANGED <<stores, is_dict, call, pos, used, try_num, invokes, tried, shut>>
  BY DEF TypeOK, HandlerFails, End, Current
<1>2. /\ failed'[t] \in Seq(Stores)
      /\ \A i \in 1..Len(failed'[t]) : failed'[t][i] \in lost'[t]
  <2>1. \A i \in 1..Len(failed[t]) : failed[t][i] \in lost[t]
    BY <1>1 DEF Blamed, InInvoke
  <2>2. CASE failed'[t] = failed[t]
    BY <1>1, <2>1, <2>2
  <2>3. CASE failed'[t] = Append(failed[t], pc[t])
    BY <1>1, <2>1, <2>3, AppendProperties
  <2>. QED  BY <1>1, <2>2, <2>3
<1>3. TypeOK'
  <2>1. /\ pc' \in [Threads -> {"idle", "iterate", "remove", "sd_iterate"} \cup Stores]
        /\ result' \in [Threads -> {"none", "returned", "panic", "error"}]
    BY ONLY IInv, HandlerFails(t, panic), PlaceType DEF IInv, HandlerFails, TypeOK
  <2>2. lost' \in [Threads -> SUBSET Stores]
    BY <1>1 DEF TypeOK, HandlerFails, Current
  <2>3. failed' \in [Threads -> Seq(Stores)]
    <3>1. CASE failed' = failed
      BY <3>1 DEF TypeOK
    <3>2. CASE failed' = [failed EXCEPT ![t] = Append(@, Current(t))]
      <4>1. failed' = [failed EXCEPT ![t] = failed'[t]]
        BY <3>2 DEF TypeOK
      <4>. QED  BY <1>2, <4>1 DEF TypeOK
    <3>. QED  BY <3>1, <3>2 DEF HandlerFails
  <2>. QED  BY <1>1, <2>1, <2>2, <2>3 DEF TypeOK
<1>4. Shrinking' /\ TryBound'
  BY <1>1 DEF TypeOK, Shrinking, TryBound, Tries
<1>5. Served'
  BY <1>1 DEF TypeOK, Served, InLoop
<1>6. Blamed'
  BY <1>1, <1>2 DEF TypeOK, Blamed, InInvoke
<1>. QED  BY <1>3, <1>4, <1>5, <1>6

\* The loop of _invoke ends with every store of the dict tried.
LEMMA InvokeLoopEndsStep == ASSUME IInv, NEW t \in Threads, InvokeLoopEnds(t) PROVE IInv'
<1> USE Types, NamesAssumption DEF IInv
<1>1. TypeOK'
  <2>1. /\ pc' \in [Threads -> {"idle", "iterate", "remove", "sd_iterate"} \cup Stores]
        /\ result' \in [Threads -> {"none", "returned", "panic", "error"}]
    BY ONLY IInv, InvokeLoopEnds(t), PlaceType DEF IInv, InvokeLoopEnds, TypeOK
  <2>2. UNCHANGED <<stores, is_dict, call, pos, used, try_num, failed, invokes, tried, lost, shut>>
    BY DEF InvokeLoopEnds
  <2>. QED  BY <2>1, <2>2 DEF TypeOK
<1>2. /\ pc[t] = "iterate" /\ Len(stores) = used[t] /\ pos[t] > Len(stores)
      /\ \/ pc'[t] = "idle"
         \/ pc'[t] = "remove" /\ failed[t] # <<>>
      /\ \A u \in Threads \ {t} : pc'[u] = pc[u]
      /\ UNCHANGED <<stores, used, pos, try_num, call, failed, tried, lost>>
  BY DEF TypeOK, InvokeLoopEnds, End
<1>3. Shrinking' /\ TryBound'
  BY <1>2 DEF Shrinking, TryBound, Tries
<1>4. Blamed'
  BY <1>2 DEF Blamed, InInvoke
<1>5. Served'
  <2>1. \A i \in 1..Len(stores) : stores[i] \in tried[t]
    BY <1>2 DEF Served, InLoop
  <2>. QED  BY <1>2, <2>1 DEF Served, InLoop
<1>. QED  BY <1>1, <1>3, <1>4, <1>5

\* A store is taken from the dict: every other iterator is broken, and what all
\* iterations that are through have tried is still enough.
LEMMA RemoveStoreStep == ASSUME IInv, NEW t \in Threads, RemoveStore(t) PROVE IInv'
<1> USE Types, NamesAssumption DEF IInv
<1> DEFINE name == Head(failed[t])
<1>1. CASE UNCHANGED <<stores, failed, shut>> /\ End(t, "error")
  <2>1. TypeOK'
    BY <1>1 DEF TypeOK, RemoveStore, End
  <2>2. /\ pc'[t] = "idle" /\ \A u \in Threads \ {t} : pc'[u] = pc[u]
        /\ UNCHANGED <<stores, used, pos, try_num, call, failed, tried, lost>>
    BY <1>1 DEF TypeOK, RemoveStore, End
  <2>3. Shrinking' /\ TryBound'
    BY <2>2 DEF Shrinking, TryBound, Tries
  <2>4. Served' /\ Blamed'
    BY <2>2 DEF Served, Blamed, InLoop, InInvoke
  <2>. QED  BY <2>1, <2>3, <2>4
<1>2. ASSUME NEW k \in DOMAIN stores, stores[k] = name, stores' = RemoveAt(stores, k),
             shut' = Append(shut, name), failed' = [failed EXCEPT ![t] = Tail(@)],
             IF Len(failed[t]) = 1 THEN End(t, "returned") ELSE UNCHANGED <<pc, result>>
      PROVE  IInv'
  <2>1. /\ stores' \in Seq(Stores) /\ Len(stores') = Len(stores) - 1
        /\ \A j \in 1..Len(stores') : \E i \in 1..Len(stores) : stores'[j] = stores[i]
    <3>1. stores \in Seq(Stores)
      BY DEF TypeOK
    <3>2. /\ stores' \in Seq(Stores) /\ Len(stores') = Len(stores) - 1
          /\ \A j \in 1..(Len(stores) - 1) :
               stores'[j] = IF j < k THEN stores[j] ELSE stores[j + 1]
      BY <1>2, <3>1, RemoveAtFacts
    <3>. QED  BY <3>2
  <2>2. /\ pc[t] = "remove" /\ failed[t] # <<>> /\ failed[t] \in Seq(Stores)
        /\ UNCHANGED <<is_dict, call, pos, used, try_num, invokes, tried, lost>>
    BY DEF RemoveStore, Blamed
  <2>3. /\ name \in Stores /\ Tail(failed[t]) \in Seq(Stores)
        /\ Len(Tail(failed[t])) = Len(failed[t]) - 1
        /\ \A i \in 1..Len(Tail(failed[t])) : Tail(failed[t])[i] = failed[t][i + 1]
    BY <2>2, HeadTailProperties
  <2>4. /\ failed'[t] = Tail(failed[t])
        /\ pc'[t] = "idle" \/ (pc'[t] = "remove" /\ Len(failed[t]) # 1)
        /\ \A u \in Threads \ {t} : pc'[u] = pc[u] /\ failed'[u] = failed[u]
    BY <1>2, <2>2 DEF TypeOK, End
  <2>5. TypeOK'
    <3>1. shut' \in Seq(Stores)
      BY <1>2, <2>3, AppendProperties DEF TypeOK
    <3>2. failed' \in [Threads -> Seq(Stores)]
      BY <1>2, <2>3 DEF TypeOK
    <3>3. /\ pc' \in [Threads -> {"idle", "iterate", "remove", "sd_iterate"} \cup Stores]
          /\ result' \in [Threads -> {"none", "returned", "panic", "error"}]
      BY <1>2 DEF TypeOK, End
    <3>. QED  BY <2>1, <2>2, <3>1, <3>2, <3>3 DEF TypeOK
  <2>6. Shrinking'
    <3>1. Len(stores) \in Nat
      BY LenProperties DEF TypeOK
    <3>2. \A u \in Threads : pc'[u] # "idle" => pc[u] # "idle" /\ used'[u] = used[u] /\ used[u] \in Nat
      BY <2>2, <2>4, OrderType DEF TypeOK
    <3>. QED  BY ONLY <2>1, <3>1, <3>2, OrderType, IInv DEF Shrinking, IInv
  <2>7. TryBound'
    BY <2>2, <2>4 DEF TryBound, Tries
  <2>8. Served'
    <3>1. ASSUME NEW u \in Threads, pc'[u] \in InLoop PROVE Len(stores') # used'[u]
      <4>1. u # t /\ pc'[u] = pc[u] /\ pc[u] # "idle"
        BY <2>4, <3>1 DEF InLoop
      <4>2. Len(stores) <= used[u]
        BY <4>1 DEF Shrinking
      <4>. QED  BY <2>1, <2>2, <4>2
    <3>2. ASSUME NEW u \in Threads, pc'[u] = "remove" PROVE \A i \in 1..Len(stores') : stores'[i] \in tried'[u]
      BY <2>1, <2>2, <2>4, <3>2 DEF Served
    <3>. QED  BY <3>1, <3>2 DEF Served, InLoop
  <2>9. Blamed'
    <3>1. \A i \in 1..Len(failed'[t]) : failed'[t][i] \in lost'[t]
      BY <2>2, <2>3, <2>4 DEF Blamed, InInvoke
    <3>2. pc'[t] = "remove" => failed'[t] # <<>>
      <4>1. ASSUME failed'[t] = <<>> PROVE Len(failed[t]) = 1
        <5>1. Len(Tail(failed[t])) = 0
          BY <2>4, <4>1, EmptySeq
        <5>2. Len(failed[t]) \in Nat
          BY <2>2, LenProperties
        <5>. QED  BY ONLY <2>3, <5>1, <5>2
      <4>. QED  BY <2>4, <4>1
    <3>. QED  BY <2>2, <2>4, <3>1, <3>2 DEF Blamed, InInvoke
  <2>. QED  BY <2>5, <2>6, <2>7, <2>8, <2>9
<1>. QED  BY <1>1, <1>2 DEF RemoveStore

\* shutdown visits one store; an exception is noted and the loop goes on.
LEMMA ShutdownStoreStep ==
  ASSUME IInv, NEW t \in Threads, NEW raises \in BOOLEAN, ShutdownStore(t, raises)
  PROVE  IInv'
<1> USE Types, NamesAssumption DEF IInv
<1>1. /\ pc[t] = "sd_iterate" /\ Len(stores) = used[t] /\ pos[t] <= Len(stores)
      /\ stores[pos[t]] \in Stores /\ pos[t] + 1 \in 1..(Len(StoreOrder) + 1)
  BY OrderType DEF TypeOK, ShutdownStore, Shrinking
<1>2. TypeOK'
  <2>1. shut' \in Seq(Stores)
    BY <1>1, AppendProperties DEF TypeOK, ShutdownStore
  <2>2. <<stores[pos[t]]>> \in Seq(Stores)
    BY <1>1
  <2>3. failed' \in [Threads -> Seq(Stores)]
    BY <2>2 DEF TypeOK, ShutdownStore
  <2>. QED  BY <1>1, <2>1, <2>3 DEF TypeOK, ShutdownStore
<1>3. Shrinking' /\ TryBound'
  BY DEF TypeOK, ShutdownStore, Shrinking, TryBound, Tries
<1>4. Served'
  <2>1. /\ stores' = stores /\ used' = used /\ pc' = pc /\ pos'[t] = pos[t] + 1
        /\ tried'[t] = tried[t] \cup {stores[pos[t]]}
        /\ \A u \in Threads \ {t} : pos'[u] = pos[u] /\ tried'[u] = tried[u]
    BY DEF TypeOK, ShutdownStore
  <2>2. ASSUME NEW i \in 1..Len(stores), i < pos[t] + 1 PROVE stores[i] \in tried[t] \cup {stores[pos[t]]}
    <3>1. i < pos[t] \/ i = pos[t]
      BY <2>2
    <3>. QED  BY <1>1, <3>1 DEF Served, InLoop
  <2>3. ASSUME NEW u \in Threads PROVE
          /\ pc'[u] \in InLoop /\ Len(stores') = used'[u] =>
               \A i \in 1..Len(stores') : i < pos'[u] => stores'[i] \in tried'[u]
          /\ pc'[u] = "remove" => \A i \in 1..Len(stores') : stores'[i] \in tried'[u]
    <3>1. CASE u = t
      BY <1>1, <2>1, <2>2, <3>1
    <3>2. CASE u # t
      BY <2>1, <3>2 DEF Served
    <3>. QED  BY <3>1, <3>2
  <2>. QED  BY <2>3 DEF Served, InLoop
<1>5. Blamed'
  <2>1. \A u \in Threads \ {t} : failed'[u] = failed[u]
    BY DEF TypeOK, ShutdownStore
  <2>. QED  BY <1>1, <2>1 DEF ShutdownStore, Blamed, InInvoke
<1>. QED  BY <1>2, <1>3, <1>4, <1>5

\* Every step of every thread keeps the inductive invariant.
LEMMA NextIInv == IInv /\ [Next]_vars => IInv'
<1> SUFFICES ASSUME IInv, [Next]_vars PROVE IInv'
  OBVIOUS
<1>1. ASSUME NEW t \in Threads, NEW state \in BOOLEAN, NEW tracking \in BOOLEAN,
             Invoke(t, state, tracking)
      PROVE  IInv'
  <2>1. [state |-> state, tracking |-> tracking] \in Call
    BY DEF Call
  <2>. QED  BY <1>1, <2>1, BeginStep DEF Invoke, IInv, TypeOK
<1>2. ASSUME NEW t \in Threads, Shutdown(t) PROVE IInv'
  BY <1>2, BeginStep DEF Shutdown, IInv, TypeOK
<1>3. ASSUME NEW t \in Threads, InvokeStep(t) PROVE IInv'
  BY <1>3, EndStep, NextStoreStep, HandlerRetryStep, HandlerFailsStep, InvokeLoopEndsStep,
     RemoveStoreStep, ShutdownStoreStep DEF InvokeStep
<1>4. CASE disable_tracking_api
  BY <1>4 DEF disable_tracking_api, threadVars, IInv, TypeOK, Shrinking, TryBound, Tries,
     Served, InLoop, Blamed, InInvoke
<1>5. CASE UNCHANGED vars
  BY <1>5 DEF vars, threadVars, IInv, TypeOK, Shrinking, TryBound, Tries,
     Served, InLoop, Blamed, InInvoke
<1>. QED  BY <1>1, <1>2, <1>3, <1>4, <1>5 DEF Next

\* The inductive invariant holds in every reachable state of the composite store.
THEOREM Invariance == Spec => []IInv
<1>. QED  BY InitIInv, NextIInv, PTL DEF Spec

\* Every thread's position, sizes, tries and lists have the types of the Python objects.
THEOREM TypeCorrect == Spec => []TypeOK
<1>. QED  BY Invariance, PTL DEF IInv

-----------------------------------------------------------------------------
\* The only steps that end a call with "returned".
LEMMA ReturnedServed ==
  ASSUME IInv, [Next]_vars, NEW t \in Threads,
         pc[t] # "idle", pc'[t] = "idle", result'[t] = "returned"
  PROVE  Range(stores') \subseteq tried[t]
<1> USE Types, NamesAssumption DEF IInv
<1> SUFFICES \A i \in 1..Len(stores') : stores'[i] \in tried[t]
  <2>1. IInv'
    BY NextIInv
  <2>2. stores' \in Seq(Stores)
    BY <2>1 DEF TypeOK
  <2>. QED  BY <2>2, RangeEquality
<1>1. \/ InvokeLoopEnds(t) \/ ShutdownEnds(t)
      \/ RemoveStore(t) /\ End(t, "returned")
  <2>1. ASSUME NEW u \in Threads, InvokeStep(u)
        PROVE  u = t /\ (InvokeLoopEnds(t) \/ ShutdownEnds(t) \/ (RemoveStore(t) /\ End(t, "returned")))
    <3>1. u = t
      BY <2>1 DEF TypeOK, InvokeStep, IteratorBroken, NextStore, HandlerOk, HandlerRetry, HandlerFails,
         InvokeLoopEnds, RemoveStore, ShutdownStore, ShutdownEnds, End
    <3>2. ~IteratorBroken(t) /\ ~NextStore(t) /\ ~HandlerOk(t) /\ ~HandlerRetry(t)
      BY DEF TypeOK, IteratorBroken, NextStore, HandlerOk, HandlerRetry, End
    <3>3. \A b \in BOOLEAN : ~HandlerFails(t, b) /\ ~ShutdownStore(t, b)
      BY DEF TypeOK, HandlerFails, ShutdownStore, End
    <3>4. RemoveStore(t) => End(t, "returned")
      BY DEF TypeOK, RemoveStore, End
    <3>. QED  BY <2>1, <3>1, <3>2, <3>3, <3>4 DEF InvokeStep
  <2>2. ASSUME NEW u \in Threads, NEW w, Begin(u, w) PROVE FALSE
    BY <2>2 DEF TypeOK, Begin, End
  <2>3. ~disable_tracking_api /\ ~UNCHANGED vars
    BY DEF disable_tracking_api, vars, threadVars
  <2>. QED  BY <2>1, <2>2, <2>3 DEF Next, Invoke, Shutdown
<1>2. CASE InvokeLoopEnds(t)
  BY <1>2 DEF InvokeLoopEnds, Served, InLoop
<1>3. CASE ShutdownEnds(t)
  BY <1>3 DEF ShutdownEnds, Served, InLoop
<1>4. CASE RemoveStore(t)
  <2>1. \A i \in 1..Len(stores) : stores[i] \in tried[t]
    BY <1>4 DEF RemoveStore, Served
  <2>2. CASE stores' = stores
    BY <2>1, <2>2
  <2>3. ASSUME NEW k \in DOMAIN stores, stores' = RemoveAt(stores, k)
        PROVE  \A i \in 1..Len(stores') : stores'[i] \in tried[t]
    <3>1. stores \in Seq(Stores)
      BY DEF TypeOK
    <3>2. /\ Len(stores') = Len(stores) - 1
          /\ \A j \in 1..(Len(stores) - 1) : stores'[j] = IF j < k THEN stores[j] ELSE stores[j + 1]
      BY <2>3, <3>1, RemoveAtFacts
    <3>. QED  BY <2>1, <3>2
  <2>. QED  BY <1>4, <2>2, <2>3 DEF RemoveStore
<1>. QED  BY <1>1, <1>2, <1>3, <1>4

\* A call that returns has gone to every store that is still configured, for any
\* number of threads and stores, whatever was removed while it ran.
THEOREM EveryStoreServedHolds == Spec => EveryStoreServed
<1>1. IInv /\ [Next]_vars =>
        [\A t \in Threads :
           (pc[t] # "idle" /\ pc'[t] = "idle" /\ result'[t] = "returned")
             => Range(stores') \subseteq tried[t]]_vars
  BY ReturnedServed
<1>. QED  BY <1>1, Invariance, PTL DEF Spec, EveryStoreServed

\* Only RemoveStore takes a store away, the one at the head of failed.
LEMMA RemovedFailed ==
  ASSUME IInv, [Next]_vars, NEW s \in Range(stores) \ Range(stores')
  PROVE  (\E t \in Threads : s \in lost[t] /\ pc[t] = "remove") /\ Contains(shut', s)
<1> USE Types DEF IInv
<1>1. PICK t \in Threads : RemoveStore(t) /\ stores' # stores
  BY DEF Next, Invoke, Shutdown, Begin, InvokeStep, IteratorBroken, NextStore, HandlerOk,
     HandlerRetry, HandlerFails, InvokeLoopEnds, ShutdownStore, ShutdownEnds,
     disable_tracking_api, vars, threadVars
<1>2. PICK k \in DOMAIN stores : stores[k] = Head(failed[t]) /\ stores' = RemoveAt(stores, k)
                                  /\ shut' = Append(shut, Head(failed[t]))
  BY <1>1 DEF RemoveStore
<1>3. s = Head(failed[t])
  <2>1. PICK i \in 1..Len(stores) : s = stores[i]
    BY DEF Range
  <2>2. /\ stores' \in Seq(Stores) /\ Len(stores') = Len(stores) - 1
        /\ \A j \in 1..(Len(stores) - 1) : stores'[j] = IF j < k THEN stores[j] ELSE stores[j + 1]
    BY <1>2, RemoveAtFacts DEF TypeOK
  <2>3. \A j \in 1..(Len(stores) - 1) : stores'[j] # s
    BY <2>2, RangeEquality
  <2>4. ~(i < k)
    <3>1. SUFFICES ASSUME i < k PROVE FALSE
      OBVIOUS
    <3>2. i \in 1..(Len(stores) - 1)
      BY <1>2, <2>1, <3>1
    <3>. QED  BY <2>1, <2>2, <2>3, <3>1, <3>2
  <2>5. ~(i > k)
    <3>1. SUFFICES ASSUME i > k PROVE FALSE
      OBVIOUS
    <3>2. i - 1 \in 1..(Len(stores) - 1) /\ ~(i - 1 < k) /\ (i - 1) + 1 = i
      BY <1>2, <2>1, <3>1
    <3>. QED  BY <2>1, <2>2, <2>3, <3>2
  <2>. QED  BY <1>2, <2>1, <2>4, <2>5
<1>4. pc[t] = "remove" /\ failed[t] # <<>> /\ failed[t] \in Seq(Stores)
  BY <1>1 DEF RemoveStore, Blamed
<1>5. Head(failed[t]) = failed[t][1] /\ 1 \in 1..Len(failed[t]) /\ failed[t][1] \in Stores
  BY <1>4, HeadTailProperties, LenProperties
<1>6. s \in lost[t]
  BY <1>3, <1>4, <1>5 DEF Blamed, InInvoke
<1>7. Contains(shut', s)
  <2>1. shut \in Seq(Stores) /\ Len(shut) \in Nat
    BY LenProperties DEF TypeOK
  <2>2. Len(shut') = Len(shut) + 1 /\ shut'[Len(shut) + 1] = s
    BY <1>2, <1>3, <1>5, <2>1, AppendProperties
  <2>3. Len(shut) + 1 \in 1..Len(shut')
    BY <2>1, <2>2
  <2>. QED  BY <2>2, <2>3 DEF Contains
<1>. QED  BY <1>4, <1>6, <1>7

\* A store that leaves failed in the call that removes it, and was shut down.
THEOREM OnlyFailedRemovedHolds == Spec => OnlyFailedRemoved
<1>1. IInv /\ [Next]_vars =>
        [\A s \in Range(stores) \ Range(stores') :
           /\ \E t \in Threads : s \in lost[t] /\ pc[t] = "remove"
           /\ Contains(shut', s)]_vars
  BY RemovedFailed
<1>. QED  BY <1>1, Invariance, PTL DEF Spec, OnlyFailedRemoved

-----------------------------------------------------------------------------
(***************************************************************************)
(* Why a call ends: the steps that a thread still has to make.  Each store *)
(* that the iterator has not reached costs its call, its tries and perhaps *)
(* its removal.                                                            *)
(***************************************************************************)
StoreCost == MaxRetries + 2
Rest(t) == (used[t] + 1 - pos[t]) * StoreCost
StepsLeft(t) ==
  IF pc[t] = "idle" THEN 0
  ELSE IF pc[t] = "remove" THEN Len(failed[t])
  ELSE Rest(t) + 2 + Len(failed[t]) + (IF pc[t] \in Stores THEN Tries(t) - try_num[t] + 2 ELSE 0)
StepsBound == Len(StoreOrder) * StoreCost + 2

\* A thread inside a call has steps left, and only such a thread.
Counted == \A t \in Threads : StepsLeft(t) \in Nat /\ (StepsLeft(t) = 0 <=> pc[t] = "idle")

\* A call begins with at most StepsBound steps to make.  Every step of its thread
\* uses one up, and nothing that other threads do (remove a store, call the same one, switch
\* the stores off) adds to them.
CallBounded ==
  [][\A t \in Threads :
       /\ pc[t] = "idle" => StepsLeft(t)' <= StepsBound
       /\ pc[t] # "idle" => StepsLeft(t)' <= StepsLeft(t)
       /\ InvokeStep(t) => StepsLeft(t)' < StepsLeft(t)]_vars

\* The iterator is never further than one behind the last key.
Within == \A t \in Threads : pc[t] \in InLoop => pos[t] <= used[t] + 1

\* One store more or less to go.
LEMMA CostFacts ==
  ASSUME NEW n \in Nat, NEW m \in Nat, n <= m
  PROVE  /\ StoreCost \in Nat /\ n * StoreCost \in Nat /\ n * StoreCost <= m * StoreCost
         /\ (n + 1) * StoreCost = n * StoreCost + StoreCost
         /\ 0 * StoreCost = 0
<1>1. StoreCost \in Nat
  BY RetriesAssumption DEF StoreCost
<1>2. PICK d \in Nat : m = n + d
  <2>1. m - n \in Nat /\ m = n + (m - n)
    OBVIOUS
  <2>. QED  BY <2>1
<1>3. n * StoreCost \in Nat /\ d * StoreCost \in Nat
  BY <1>1
<1>4. (n + d) * StoreCost = n * StoreCost + d * StoreCost
  BY <1>1
<1>5. (n + 1) * StoreCost = n * StoreCost + StoreCost /\ 0 * StoreCost = 0
  BY <1>1
<1>. QED  BY <1>1, <1>2, <1>3, <1>4, <1>5

\* The steps of a thread move its own iterator only.
LEMMA WithinStep == ASSUME IInv, Within, [Next]_vars PROVE Within'
<1>. USE Types, NamesAssumption DEF IInv, Within, InLoop
<1>1. ASSUME NEW t \in Threads, NEW where \in {"iterate", "sd_iterate"}, Begin(t, where) PROVE Within'
  <2>1. pos' = [pos EXCEPT ![t] = 1] /\ used' = [used EXCEPT ![t] = Len(stores)]
        /\ \A u \in Threads \ {t} : pc'[u] = pc[u]
    BY <1>1 DEF Begin, End, TypeOK
  <2>2. pos \in [Threads -> Int] /\ used \in [Threads -> Int]
    BY OrderType DEF TypeOK
  <2>. QED  BY <2>1, <2>2
<1>2. ASSUME NEW t \in Threads, NextStore(t) \/ \E raises \in BOOLEAN : ShutdownStore(t, raises) PROVE Within'
  <2>1. /\ pos' = [pos EXCEPT ![t] = @ + 1] /\ used' = used /\ pos[t] <= used[t]
        /\ \A u \in Threads \ {t} : pc'[u] = pc[u]
    BY <1>2 DEF NextStore, ShutdownStore, TypeOK
  <2>2. pos \in [Threads -> Int] /\ used \in [Threads -> Int]
    BY OrderType DEF TypeOK
  <2>3. pos'[t] = pos[t] + 1 /\ \A u \in Threads \ {t} : pos'[u] = pos[u]
    BY <2>1, <2>2
  <2>. QED  BY <2>1, <2>3
<1>3. ASSUME NEW t \in Threads,
             \/ IteratorBroken(t) \/ HandlerOk(t) \/ HandlerRetry(t)
             \/ \E panic \in BOOLEAN : HandlerFails(t, panic)
             \/ InvokeLoopEnds(t) \/ RemoveStore(t) \/ ShutdownEnds(t)
      PROVE  Within'
  <2>1. UNCHANGED <<pos, used>>
    BY <1>3 DEF IteratorBroken, HandlerOk, HandlerRetry, HandlerFails, InvokeLoopEnds, RemoveStore, ShutdownEnds
  <2>2. DOMAIN pc = Threads
    BY DEF TypeOK
  <2>3. \A u \in Threads : pc'[u] \in InLoop => pc[u] \in InLoop
    <3>1. CASE IteratorBroken(t) \/ HandlerOk(t) \/ HandlerRetry(t)
      BY <2>2, <3>1 DEF IteratorBroken, HandlerOk, HandlerRetry, End
    <3>2. CASE \E panic \in BOOLEAN : HandlerFails(t, panic)
      BY <2>2, <3>2 DEF HandlerFails, End
    <3>3. CASE InvokeLoopEnds(t) \/ ShutdownEnds(t)
      BY <2>2, <3>3 DEF InvokeLoopEnds, ShutdownEnds, End
    <3>4. CASE RemoveStore(t)
      BY <2>2, <3>4 DEF RemoveStore, End
    <3>. QED  BY <1>3, <3>1, <3>2, <3>3, <3>4
  <2>. QED  BY <2>1, <2>3
<1>4. CASE disable_tracking_api \/ UNCHANGED vars
  BY <1>4 DEF disable_tracking_api, vars, threadVars
<1>. QED  BY <1>1, <1>2, <1>3, <1>4 DEF Next, InvokeStep, Invoke, Shutdown

\* What is left of the iteration is a number of stores.
LEMMA RestNat ==
  ASSUME IInv, Within, NEW t \in Threads, pc[t] \in InLoop
  PROVE  used[t] + 1 - pos[t] \in Nat /\ Rest(t) \in Nat
<1>1. used[t] + 1 - pos[t] \in Nat
  BY Types DEF IInv, Within
<1>. QED  BY <1>1, CostFacts DEF Rest

\* In every state of a call something is left to do.
LEMMA CountedFrom == ASSUME IInv, Within PROVE Counted
<1>1. SUFFICES ASSUME NEW t \in Threads PROVE StepsLeft(t) \in Nat /\ (StepsLeft(t) = 0 <=> pc[t] = "idle")
  BY DEF Counted
<1>2. Len(failed[t]) \in Nat /\ Tries(t) \in Nat /\ try_num[t] \in Nat
  BY Types, RetriesAssumption DEF IInv
<1>3. CASE pc[t] = "idle"
  BY <1>3 DEF StepsLeft
<1>4. CASE pc[t] = "remove"
  <2>1. failed[t] # <<>> /\ failed[t] \in Seq(Stores)
    BY <1>4, Types DEF IInv, Blamed
  <2>2. Len(failed[t]) # 0
    BY <2>1, EmptySeq
  <2>. QED  BY <1>2, <1>4, <2>2 DEF StepsLeft
<1>5. CASE pc[t] \in InLoop
  <2>1. Rest(t) \in Nat
    BY <1>5, RestNat
  <2>2. pc[t] \notin {"idle", "remove"}
    BY <1>5, NamesAssumption DEF InLoop
  <2>3. pc[t] \in Stores => Tries(t) - try_num[t] + 2 \in Nat
    BY <1>2 DEF IInv, TryBound
  <2>4. (IF pc[t] \in Stores THEN Tries(t) - try_num[t] + 2 ELSE 0) \in Nat
    BY <2>3
  <2>. DEFINE F == Len(failed[t])
              T == IF pc[t] \in Stores THEN Tries(t) - try_num[t] + 2 ELSE 0
  <2>5. StepsLeft(t) = Rest(t) + 2 + F + T
    BY <2>2 DEF StepsLeft
  <2>. HIDE DEF F, T
  <2>6. F \in Nat /\ T \in Nat
    BY <1>2, <2>4 DEF F, T
  <2>. QED  BY <2>1, <2>2, <2>5, <2>6
<1>. QED  BY <1>3, <1>4, <1>5 DEF IInv, TypeOK, InLoop

\* What the steps left are, in the places of a loop.
LEMMA LoopLeft ==
  ASSUME NEW t \in Threads
  PROVE  /\ pc[t] \in {"iterate", "sd_iterate"} => StepsLeft(t) = Rest(t) + 2 + Len(failed[t]) + 0
         /\ pc[t] \in Stores => StepsLeft(t) = Rest(t) + 2 + Len(failed[t]) + (Tries(t) - try_num[t] + 2)
BY NamesAssumption DEF StepsLeft

\* One step of a thread inside a call uses one of its steps up.
LEMMA OwnStep ==
  ASSUME IInv, IInv', Within, Within', NEW t \in Threads, InvokeStep(t)
  PROVE  StepsLeft(t)' < StepsLeft(t)
<1>. DEFINE F == Len(failed[t])
            N == used[t] + 1 - pos[t]
            T == Tries(t) - try_num[t] + 2
<1>1. pc[t] # "idle"
  BY NamesAssumption DEF InvokeStep, IteratorBroken, NextStore, HandlerOk, HandlerRetry, HandlerFails,
     InvokeLoopEnds, RemoveStore, ShutdownStore, ShutdownEnds
<1>2. StepsLeft(t) \in Nat \ {0}
  BY <1>1, CountedFrom DEF Counted
<1>3. pc'[t] = "idle" => StepsLeft(t)' = 0
  BY DEF StepsLeft
<1>4. SUFFICES ASSUME pc'[t] # "idle" PROVE StepsLeft(t)' < StepsLeft(t)
  BY <1>2, <1>3
<1>5. /\ F \in Nat /\ Tries(t) \in 1..MaxRetries /\ try_num[t] \in Nat /\ failed[t] \in Seq(Stores)
      /\ pos[t] \in Nat /\ used[t] \in Nat
  BY Types DEF IInv
<1>6. /\ DOMAIN pc = Threads /\ DOMAIN pos = Threads /\ DOMAIN try_num = Threads /\ DOMAIN failed = Threads
  BY DEF IInv, TypeOK
<1>7. pc[t] \in InLoop => N \in Nat /\ Rest(t) = N * StoreCost /\ Rest(t) \in Nat
  BY RestNat DEF Rest
<1>8. /\ pc'[t] \in {"iterate", "sd_iterate"} =>
           StepsLeft(t)' = (used'[t] + 1 - pos'[t]) * StoreCost + 2 + Len(failed'[t]) + 0
      /\ pc'[t] \in Stores =>
           StepsLeft(t)' = (used'[t] + 1 - pos'[t]) * StoreCost + 2 + Len(failed'[t])
                             + (Tries(t)' - try_num'[t] + 2)
      /\ pc'[t] = "remove" => StepsLeft(t)' = Len(failed'[t])
  BY <1>4, NamesAssumption DEF StepsLeft, Rest
<1>n. ASSUME pos[t] <= used[t], pos'[t] = pos[t] + 1, used'[t] = used[t], pc[t] \in InLoop
      PROVE  /\ used'[t] + 1 - pos'[t] \in Nat
             /\ Rest(t) = (used'[t] + 1 - pos'[t]) * StoreCost + MaxRetries + 2
             /\ (used'[t] + 1 - pos'[t]) * StoreCost \in Nat
  <2>. DEFINE M == used'[t] + 1 - pos'[t]
  <2>1. M \in Nat /\ N = M + 1
    BY <1>5, <1>n
  <2>2. (M + 1) * StoreCost = M * StoreCost + StoreCost /\ M * StoreCost \in Nat
    <3>1. \A n \in Nat : (n + 1) * StoreCost = n * StoreCost + StoreCost /\ n * StoreCost \in Nat
      BY CostFacts
    <3>. HIDE DEF M
    <3>. QED  BY <2>1, <3>1, Zenon
  <2>3. Rest(t) = M * StoreCost + StoreCost
    <3>1. Rest(t) = N * StoreCost
      BY <1>7, <1>n
    <3>. HIDE DEF M, N
    <3>. QED  BY <3>1, <2>1, <2>2
  <2>4. StoreCost = MaxRetries + 2 /\ MaxRetries \in Nat
    BY RetriesAssumption DEF StoreCost
  <2>. HIDE DEF M
  <2>5. Rest(t) = M * StoreCost + MaxRetries + 2
    BY <2>2, <2>3, <2>4
  <2>. QED  BY <2>1, <2>2, <2>5 DEF M
<1>9. CASE NextStore(t)
  <2>1. /\ pc[t] = "iterate" /\ pos[t] <= used[t] /\ pos'[t] = pos[t] + 1 /\ used'[t] = used[t]
        /\ failed'[t] = failed[t] /\ try_num'[t] = 1 /\ Tries(t)' = Tries(t) /\ pc[t] \in InLoop
    BY <1>6, <1>9 DEF NextStore, Tries, InLoop
  <2>2. pc'[t] \in Stores
    <3>1. pc'[t] = stores[pos[t]] /\ pos[t] \in 1..Len(stores)
      BY <1>6, <1>9 DEF NextStore, IInv, TypeOK
    <3>. QED  BY <3>1, Types DEF IInv
  <2>3. StepsLeft(t) = Rest(t) + 2 + F
    BY <1>5, <1>7, <2>1, LoopLeft
  <2>. DEFINE R == (used'[t] + 1 - pos'[t]) * StoreCost
  <2>4. StepsLeft(t)' = R + 2 + F + (Tries(t) - 1 + 2)
    BY <1>8, <2>1, <2>2
  <2>5. R \in Nat /\ Rest(t) = R + MaxRetries + 2
    BY <1>n, <2>1
  <2>. HIDE DEF R, F
  <2>. QED  BY <1>5, <2>3, <2>4, <2>5, RetriesAssumption
<1>10. CASE HandlerOk(t) \/ HandlerRetry(t) \/ \E panic \in BOOLEAN : HandlerFails(t, panic)
  <2>1. /\ pc[t] \in Stores /\ pc[t] \in InLoop /\ pos'[t] = pos[t] /\ used'[t] = used[t] /\ Tries(t)' = Tries(t)
        /\ \/ pc'[t] = pc[t] /\ try_num'[t] = try_num[t] + 1 /\ failed'[t] = failed[t]
           \/ pc'[t] = "iterate" /\ failed'[t] = failed[t]
           \/ pc'[t] = "iterate" /\ failed'[t] = Append(failed[t], pc[t])
    BY <1>4, <1>6, <1>10 DEF HandlerOk, HandlerRetry, HandlerFails, End, Tries, InLoop, Current
  <2>2. Len(Append(failed[t], pc[t])) = F + 1
    BY <1>5, <2>1, AppendProperties
  <2>3. StepsLeft(t) = Rest(t) + 2 + F + (Tries(t) - try_num[t] + 2)
    BY <2>1, LoopLeft
  <2>4. (used'[t] + 1 - pos'[t]) * StoreCost = Rest(t)
    BY <1>7, <2>1
  <2>5. try_num[t] <= Tries(t) /\ Rest(t) \in Nat
    BY <1>7, <2>1 DEF IInv, TryBound
  <2>6. CASE pc'[t] = pc[t] /\ try_num'[t] = try_num[t] + 1 /\ failed'[t] = failed[t]
    <3>1. StepsLeft(t)' = Rest(t) + 2 + F + (Tries(t) - (try_num[t] + 1) + 2)
      BY <1>8, <2>1, <2>4, <2>6
    <3>. HIDE DEF F
    <3>. QED  BY <1>5, <2>3, <2>5, <3>1
  <2>7. CASE pc'[t] = "iterate" /\ failed'[t] = failed[t]
    <3>1. StepsLeft(t)' = Rest(t) + 2 + F + 0
      BY <1>8, <2>4, <2>7
    <3>. HIDE DEF F
    <3>. QED  BY <1>5, <2>3, <2>5, <3>1
  <2>8. CASE pc'[t] = "iterate" /\ failed'[t] = Append(failed[t], pc[t])
    <3>1. StepsLeft(t)' = Rest(t) + 2 + (F + 1) + 0
      BY <1>8, <2>2, <2>4, <2>8
    <3>. HIDE DEF F
    <3>. QED  BY <1>5, <2>3, <2>5, <3>1
  <2>. QED  BY <2>1, <2>6, <2>7, <2>8
<1>11. CASE InvokeLoopEnds(t)
  <2>1. pc[t] = "iterate" /\ pc[t] \in InLoop /\ pc'[t] = "remove" /\ failed'[t] = failed[t]
    BY <1>4, <1>6, <1>11 DEF InvokeLoopEnds, End, InLoop
  <2>2. StepsLeft(t)' = F /\ StepsLeft(t) = Rest(t) + 2 + F + 0
    BY <1>8, <2>1, LoopLeft
  <2>. HIDE DEF F
  <2>. QED  BY <1>5, <1>7, <2>1, <2>2
<1>12. CASE RemoveStore(t)
  <2>1. pc[t] = "remove" /\ pc'[t] = "remove" /\ failed'[t] = Tail(failed[t]) /\ failed[t] # <<>>
    BY <1>4, <1>6, <1>12 DEF RemoveStore, End, IInv, Blamed
  <2>2. Len(Tail(failed[t])) = F - 1
    BY <1>5, <2>1, HeadTailProperties
  <2>3. StepsLeft(t)' = F - 1 /\ StepsLeft(t) = F
    BY <1>8, <2>1, <2>2 DEF StepsLeft
  <2>. HIDE DEF F
  <2>. QED  BY <1>5, <2>3
<1>13. CASE \E raises \in BOOLEAN : ShutdownStore(t, raises)
  <2>1. /\ pc[t] = "sd_iterate" /\ pc[t] \in InLoop /\ pc'[t] = pc[t] /\ pos[t] <= used[t] /\ used'[t] = used[t]
        /\ pos'[t] = pos[t] + 1 /\ failed'[t] \in {failed[t], <<stores[pos[t]]>>}
    BY <1>6, <1>13 DEF ShutdownStore, InLoop
  <2>2. Len(failed'[t]) \in {F, 1}
    BY <2>1
  <2>3. StepsLeft(t) = Rest(t) + 2 + F + 0
    BY <2>1, LoopLeft
  <2>. DEFINE R == (used'[t] + 1 - pos'[t]) * StoreCost
              G == Len(failed'[t])
  <2>4. StepsLeft(t)' = R + 2 + G + 0
    BY <1>8, <2>1
  <2>5. R \in Nat /\ Rest(t) = R + MaxRetries + 2
    BY <1>n, <2>1
  <2>. HIDE DEF R, F, G
  <2>6. G \in {F, 1}
    BY <2>2 DEF G
  <2>. QED  BY <1>5, <2>3, <2>4, <2>5, <2>6, RetriesAssumption
<1>14. CASE IteratorBroken(t) \/ ShutdownEnds(t)
  BY <1>4, <1>6, <1>14 DEF IteratorBroken, ShutdownEnds, End
<1>. QED  BY <1>9, <1>10, <1>11, <1>12, <1>13, <1>14 DEF InvokeStep

\* A step of another thread, or none, leaves a call's steps as they are.
LEMMA OthersStep ==
  ASSUME IInv, NEW t \in Threads, NEW u \in Threads, t # u,
         \/ \E state, tracking \in BOOLEAN : Invoke(u, state, tracking)
         \/ Shutdown(u) \/ InvokeStep(u)
  PROVE  StepsLeft(t)' = StepsLeft(t)
<1>1. DOMAIN pc = Threads /\ DOMAIN pos = Threads /\ DOMAIN used = Threads /\ DOMAIN try_num = Threads
      /\ DOMAIN failed = Threads /\ DOMAIN call = Threads
  BY DEF IInv, TypeOK
<1>2. CASE (\E state, tracking \in BOOLEAN : Invoke(u, state, tracking)) \/ Shutdown(u)
  <2>1. /\ pc'[t] = pc[t] /\ pos'[t] = pos[t] /\ used'[t] = used[t] /\ try_num'[t] = try_num[t]
        /\ failed'[t] = failed[t] /\ call'[t] = call[t]
    BY <1>1, <1>2 DEF Invoke, Shutdown, Begin, End
  <2>. QED  BY <2>1 DEF StepsLeft, Rest, Tries
<1>3. CASE InvokeStep(u)
  <2>1. /\ pc'[t] = pc[t] /\ pos'[t] = pos[t] /\ used'[t] = used[t] /\ try_num'[t] = try_num[t]
        /\ failed'[t] = failed[t] /\ call'[t] = call[t]
    BY <1>1, <1>3 DEF InvokeStep, IteratorBroken, NextStore, HandlerOk, HandlerRetry, HandlerFails,
       InvokeLoopEnds, RemoveStore, ShutdownStore, ShutdownEnds, End
  <2>. QED  BY <2>1 DEF StepsLeft, Rest, Tries
<1>. QED  BY <1>2, <1>3

\* A call begins with at most StepsBound steps to make.
LEMMA FirstStep ==
  ASSUME IInv, NEW t \in Threads, NEW where \in {"iterate", "sd_iterate"}, Begin(t, where)
  PROVE  StepsLeft(t)' <= StepsBound
<1>1. DOMAIN pc = Threads /\ DOMAIN pos = Threads /\ DOMAIN used = Threads /\ DOMAIN failed = Threads
  BY DEF IInv, TypeOK
<1>2. Len(stores) \in Nat /\ Len(StoreOrder) \in Nat /\ Len(stores) <= Len(StoreOrder)
  BY Types, OrderType DEF IInv, Shrinking
<1>3. /\ Len(stores) * StoreCost \in Nat /\ Len(StoreOrder) * StoreCost \in Nat
      /\ Len(stores) * StoreCost <= Len(StoreOrder) * StoreCost
  BY <1>2, CostFacts
<1>4. CASE pc'[t] = "idle"
  <2>1. StepsLeft(t)' = 0
    BY <1>4 DEF StepsLeft
  <2>. QED  BY <1>3, <2>1 DEF StepsBound
<1>5. CASE pc'[t] # "idle"
  <2>1. pc'[t] = where /\ pos'[t] = 1 /\ used'[t] = Len(stores) /\ failed'[t] = <<>>
    BY <1>1, <1>5 DEF Begin, End
  <2>2. pc'[t] \notin {"idle", "remove"} \cup Stores
    BY <2>1, NamesAssumption
  <2>3. StepsLeft(t)' = (Len(stores) + 1 - 1) * StoreCost + 2 + Len(<<>>) + 0
    BY <2>1, <2>2 DEF StepsLeft, Rest
  <2>4. StepsLeft(t)' = Len(stores) * StoreCost + 2
    <3>1. Len(stores) + 1 - 1 = Len(stores) /\ Len(<<>>) = 0
      BY <1>2
    <3>. QED  BY <1>3, <2>3, <3>1
  <2>. QED  BY <1>3, <2>4 DEF StepsBound
<1>. QED  BY <1>4, <1>5

\* In every state StepsLeft counts the steps of the calls under way.
THEOREM CountedHolds == Spec => []Counted
<1>1. Init => Within
  BY NamesAssumption DEF Init, Within, InLoop
<1>2. IInv /\ Within /\ [Next]_vars => Within'
  BY WithinStep
<1>3. Spec => []Within
  BY <1>1, <1>2, Invariance, PTL DEF Spec
<1>4. IInv /\ Within => Counted
  BY CountedFrom
<1>. QED  BY <1>3, <1>4, Invariance, PTL

\* Every call of every thread is bounded by StepsBound steps of its own, whatever the other
\* threads do meanwhile and whichever stores fail: the reason why InvokeEnds holds.
THEOREM CallBoundedHolds == Spec => CallBounded
<1>. DEFINE P(t) == /\ pc[t] = "idle" => StepsLeft(t)' <= StepsBound
                    /\ pc[t] # "idle" => StepsLeft(t)' <= StepsLeft(t)
                    /\ InvokeStep(t) => StepsLeft(t)' < StepsLeft(t)
<1>1. Init => Within
  BY NamesAssumption DEF Init, Within, InLoop
<1>2. IInv /\ Within /\ [Next]_vars => Within'
  BY WithinStep
<1>3. Spec => []Within
  BY <1>1, <1>2, Invariance, PTL DEF Spec
<1>4. ASSUME IInv, IInv', Within, Within', [Next]_vars, NEW t \in Threads PROVE P(t)
  <2>1. StepsLeft(t) \in Nat /\ StepsLeft(t)' \in Int /\ StepsBound \in Nat /\ (pc[t] = "idle" => StepsLeft(t) = 0)
    <3>1. StepsLeft(t) \in Nat /\ (pc[t] = "idle" => StepsLeft(t) = 0)
      BY <1>4, CountedFrom DEF Counted
    <3>2. Counted'
      BY <1>4, CountedFrom, PTL
    <3>3. Len(StoreOrder) * StoreCost \in Nat
      BY OrderType, CostFacts
    <3>. QED  BY <3>1, <3>2, <3>3 DEF Counted, StepsBound
  <2>2. InvokeStep(t) => StepsLeft(t)' < StepsLeft(t) /\ pc[t] # "idle"
    <3>1. InvokeStep(t) => StepsLeft(t)' < StepsLeft(t)
      BY <1>4, OwnStep
    <3>2. InvokeStep(t) => pc[t] # "idle"
      BY NamesAssumption DEF InvokeStep, IteratorBroken, NextStore, HandlerOk, HandlerRetry, HandlerFails,
         InvokeLoopEnds, RemoveStore, ShutdownStore, ShutdownEnds
    <3>. QED  BY <3>1, <3>2
  <2>3. CASE InvokeStep(t)
    BY <2>1, <2>2, <2>3
  <2>4. CASE ~InvokeStep(t) /\ StepsLeft(t)' = StepsLeft(t)
    BY <2>1, <2>4
  <2>5. CASE ~InvokeStep(t) /\ \E where \in {"iterate", "sd_iterate"} : Begin(t, where)
    <3>1. StepsLeft(t)' <= StepsBound /\ pc[t] = "idle"
      BY <1>4, <2>5, FirstStep DEF Begin
    <3>. QED  BY <2>5, <3>1
  <2>6. CASE disable_tracking_api \/ UNCHANGED vars
    <3>1. StepsLeft(t)' = StepsLeft(t)
      BY <2>6 DEF disable_tracking_api, vars, threadVars, StepsLeft, Rest, Tries
    <3>. QED  BY <2>3, <2>4, <3>1
  <2>7. ASSUME NEW u \in Threads,
               \/ \E state, tracking \in BOOLEAN : Invoke(u, state, tracking)
               \/ Shutdown(u) \/ InvokeStep(u)
        PROVE  P(t)
    <3>1. CASE u # t
      <4>1. StepsLeft(t)' = StepsLeft(t)
        BY <1>4, <2>7, <3>1, OthersStep
      <4>. QED  BY <2>3, <2>4, <4>1
    <3>2. CASE u = t
      <4>1. InvokeStep(t) \/ \E where \in {"iterate", "sd_iterate"} : Begin(t, where)
        BY <2>7, <3>2 DEF Invoke, Shutdown
      <4>. QED  BY <2>3, <2>5, <4>1
    <3>. QED  BY <3>1, <3>2
  <2>. HIDE DEF P
  <2>. QED  BY <1>4, <2>6, <2>7 DEF Next
<1>5. IInv /\ IInv' /\ Within /\ Within' /\ [Next]_vars => [\A t \in Threads : P(t)]_vars
  BY <1>4
<1>. QED  BY <1>3, <1>5, Invariance, PTL DEF Spec, CallBounded
=============================================================================
