---------------------- MODULE KubernetesSchedulerProofs ----------------------
(***************************************************************************)
(* Proofs about KubernetesScheduler, for any finite set of tasks, any      *)
(* retry counts and any number of crashes, failing calls and lost events.  *)
(***************************************************************************)
EXTENDS KubernetesScheduler, SequenceTheorems, FiniteSetTheorems, TLAPS

Live == {"schedule", "health", "events", "results", "run", "manage"}
Settled == {"success", "failed", "up_for_retry"}

Of(S, t) == {p \in S : p[1] = t}
Submitted(t) == Of(DOMAIN submitted_pods, t)
Queue(t) == Of(Range(task_queue), t)
PodsIn(queue) == {queue[i].pod : i \in DOMAIN queue}
Results(t) == Of(PodsIn(result_queue), t)
Running(t) == Of(running, t)
Buffer(t) == Of(DOMAIN event_buffer, t)
Processed(p) == submitted_pods[p].processed

\* The try that has its pod, and the one that is to get it.
This(t) == <<t, created[t]>>
NextTry(t) == <<t, created[t] + 1>>

(***************************************************************************)
(* The stages of a try of a task, all of whose calls to the cluster did    *)
(* what they said.                                                         *)
(***************************************************************************)
Idle(t) ==
  /\ t \notin waiting
  /\ Running(t) = {} /\ Submitted(t) = {} /\ Queue(t) = {} /\ Results(t) = {} /\ Buffer(t) = {}
  /\ ti[t].state \in Settled \cup {"scheduled"} /\ ti[t].try = created[t]

Queued(t) ==
  /\ t \in waiting
  /\ Running(t) = {NextTry(t)} /\ Submitted(t) \subseteq {NextTry(t)} /\ Queue(t) = {NextTry(t)}
  /\ Results(t) = {} /\ Buffer(t) = {}
  /\ ti[t].state = "queued" /\ ti[t].try = created[t]

Sent(t) ==
  /\ t \in waiting
  /\ Running(t) = {This(t)} /\ Submitted(t) = {This(t)} /\ ~Processed(This(t))
  /\ Queue(t) = {} /\ Results(t) = {} /\ Buffer(t) = {}
  /\ \/ ti[t].state = "queued" /\ ti[t].try + 1 = created[t]
     \/ ti[t].state \in Settled \cup {"running"} /\ ti[t].try = created[t]

Done(t) ==
  /\ t \in waiting
  /\ Running(t) = {This(t)} /\ Submitted(t) = {This(t)} /\ Processed(This(t))
  /\ Queue(t) = {} /\ Results(t) = {This(t)} /\ Buffer(t) = {}
  /\ ti[t].state \in Settled /\ ti[t].try = created[t]

Handed(t) ==
  /\ t \in waiting
  /\ Running(t) = {} /\ Submitted(t) = {} /\ Queue(t) = {} /\ Results(t) = {} /\ Buffer(t) = {This(t)}
  /\ ti[t].state \in Settled /\ ti[t].try = created[t]

Stage(t) == Idle(t) \/ Queued(t) \/ Sent(t) \/ Done(t) \/ Handed(t)
Stages == pc \in Live => \A t \in Tasks : Clean(t) => Stage(t)

CleanTasks == {t \in Tasks : Clean(t)}

\* The queues have one entry for a task, so that it is gone when the head is taken off.
OneEntry ==
  \A i, j \in DOMAIN task_queue :
    task_queue[i][1] \in CleanTasks /\ task_queue[i][1] = task_queue[j][1] => i = j
OneResult ==
  \A i, j \in DOMAIN result_queue :
    result_queue[i].pod[1] \in CleanTasks /\ result_queue[i].pod[1] = result_queue[j].pod[1] => i = j
QueueReady == pc = "run" => task_queue # <<>>

\* Every pod that nobody deletes is recorded, whether it works or is over.
Recorded == \A p \in Pods : Exists(p) /\ ~pods[p].deleting => p \in DOMAIN submitted_pods \/ p \in undeleted

\* Of the pods of a task only that of the last try is not being deleted.
LastTry ==
  \A p \in Pods : Exists(p) /\ Clean(p[1]) =>
    p[2] <= created[p[1]] /\ (pods[p].deleting \/ p[2] = created[p[1]])

\* The watcher reports pods that were created.
Seen == \A p \in PodsIn(watcher_queue) : Clean(p[1]) => p[2] <= created[p[1]]

\* A task that will get another try has one left.
TryLeft == \A t \in Tasks : ti[t].state \in {"scheduled", "queued", "up_for_retry"} => ti[t].try <= MaxRetries

IInv == /\ TypeOK /\ Stages /\ OneEntry /\ OneResult /\ QueueReady /\ Recorded /\ LastTry /\ Seen /\ TryLeft
        /\ TriesBounded /\ OutcomeTracked


-----------------------------------------------------------------------------
(***************************************************************************)
(* The operators of the model                                              *)
(***************************************************************************)
LEMMA MaxRetriesFacts ==
  /\ MaxRetries \in Nat /\ MaxRetries \in RetryCounts \cup Retries
  /\ \A n \in RetryCounts \cup Retries : n \in Nat /\ n <= MaxRetries
BY RetriesAssumption DEF MaxRetries

\* A pod is a task with the number of a try; there are finitely many.
LEMMA PodFacts ==
  /\ \A p \in Pods : p = <<p[1], p[2]>> /\ p[1] \in Tasks /\ p[2] \in Nat /\ p[2] <= MaxRetries + 1
  /\ \A t \in Tasks, n \in Nat : n > 0 /\ n <= MaxRetries + 1 => <<t, n>> \in Pods
  /\ IsFiniteSet(Pods)
<1>1. MaxRetries \in Nat
  BY MaxRetriesFacts
<1>2. IsFiniteSet(1..(MaxRetries + 1))
  BY <1>1, FS_Interval
<1>3. IsFiniteSet(Pods)
  BY <1>2, TasksAssumption, FS_Product DEF Pods
<1>. QED  BY <1>1, <1>3 DEF Pods

\* What the proofs need of a queue: its domain, its items and its head.
LEMMA SeqFacts ==
  ASSUME NEW S, NEW s \in Seq(S)
  PROVE  /\ Len(s) \in Nat /\ DOMAIN s = 1..Len(s) /\ \A i \in DOMAIN s : s[i] \in S
         /\ s # <<>> => 1 \in DOMAIN s /\ Head(s) = s[1] /\ Head(s) \in S
BY LenProperties, ElementOfSeq, EmptySeq, HeadTailProperties

\* The elements of the queues that the steps build.
LEMMA TailFacts ==
  ASSUME NEW S, NEW s \in Seq(S), s # <<>>
  PROVE  /\ Tail(s) \in Seq(S) /\ DOMAIN Tail(s) = 1..(Len(s) - 1) /\ Len(s) \in Nat /\ Len(s) > 0
         /\ \A i \in DOMAIN Tail(s) : i + 1 \in DOMAIN s /\ Tail(s)[i] = s[i + 1]
<1>1. Tail(s) \in Seq(S) /\ Len(Tail(s)) = Len(s) - 1 /\ \A i \in 1..Len(Tail(s)) : Tail(s)[i] = s[i + 1]
  BY HeadTailProperties
<1>2. DOMAIN Tail(s) = 1..Len(Tail(s)) /\ DOMAIN s = 1..Len(s) /\ Len(s) \in Nat
  BY <1>1, LenProperties
<1>3. Len(s) > 0
  BY <1>2, EmptySeq
<1>. QED  BY <1>1, <1>2, <1>3

\* Each item of a concatenation comes from one of the two queues, at a known place.
LEMMA ConcatFacts ==
  ASSUME NEW S, NEW s \in Seq(S), NEW u \in Seq(S)
  PROVE  /\ s \o u \in Seq(S)
         /\ \A i \in DOMAIN (s \o u) :
              \/ i \in DOMAIN s /\ (s \o u)[i] = s[i]
              \/ i - Len(s) \in DOMAIN u /\ (s \o u)[i] = u[i - Len(s)]
         /\ \A i \in DOMAIN s : i \in DOMAIN (s \o u) /\ (s \o u)[i] = s[i]
         /\ \A i \in DOMAIN u : i + Len(s) \in DOMAIN (s \o u) /\ (s \o u)[i + Len(s)] = u[i]
<1>1. /\ s \o u \in Seq(S) /\ Len(s \o u) = Len(s) + Len(u)
      /\ \A i \in 1..Len(s) + Len(u) : (s \o u)[i] = IF i <= Len(s) THEN s[i] ELSE u[i - Len(s)]
  BY ConcatProperties
<1>2. /\ DOMAIN s = 1..Len(s) /\ DOMAIN u = 1..Len(u) /\ Len(s) \in Nat /\ Len(u) \in Nat
      /\ DOMAIN (s \o u) = 1..(Len(s) + Len(u))
  BY <1>1, LenProperties
<1>3. ASSUME NEW i \in DOMAIN u PROVE i + Len(s) \in DOMAIN (s \o u) /\ (s \o u)[i + Len(s)] = u[i]
  <2>1. i + Len(s) \in 1..Len(s) + Len(u) /\ ~(i + Len(s) <= Len(s)) /\ (i + Len(s)) - Len(s) = i
    BY <1>2
  <2>. QED  BY <1>1, <1>2, <2>1
<1>4. ASSUME NEW i \in DOMAIN (s \o u)
      PROVE  \/ i \in DOMAIN s /\ (s \o u)[i] = s[i]
             \/ i - Len(s) \in DOMAIN u /\ (s \o u)[i] = u[i - Len(s)]
  BY <1>1, <1>2
<1>5. ASSUME NEW i \in DOMAIN s PROVE i \in DOMAIN (s \o u) /\ (s \o u)[i] = s[i]
  BY <1>1, <1>2
<1>. QED  BY <1>1, <1>3, <1>4, <1>5

\* Concatenating two queues of events joins the pods they tell of.
LEMMA PodsInConcat ==
  ASSUME NEW s \in Seq(Reports), NEW u \in Seq(Reports)
  PROVE  s \o u \in Seq(Reports) /\ PodsIn(s \o u) = PodsIn(s) \cup PodsIn(u)
<1>1. /\ s \o u \in Seq(Reports)
      /\ \A i \in DOMAIN (s \o u) :
           \/ i \in DOMAIN s /\ (s \o u)[i] = s[i]
           \/ i - Len(s) \in DOMAIN u /\ (s \o u)[i] = u[i - Len(s)]
      /\ \A i \in DOMAIN s : i \in DOMAIN (s \o u) /\ (s \o u)[i] = s[i]
      /\ \A i \in DOMAIN u : i + Len(s) \in DOMAIN (s \o u) /\ (s \o u)[i + Len(s)] = u[i]
  BY ConcatFacts
<1>2. PodsIn(s \o u) \subseteq PodsIn(s) \cup PodsIn(u)
  BY <1>1 DEF PodsIn
<1>3. PodsIn(s) \cup PodsIn(u) \subseteq PodsIn(s \o u)
  <2>1. ASSUME NEW i \in DOMAIN s PROVE s[i].pod \in PodsIn(s \o u)
    BY <1>1 DEF PodsIn
  <2>2. ASSUME NEW i \in DOMAIN u PROVE u[i].pod \in PodsIn(s \o u)
    <3>1. i + Len(s) \in DOMAIN (s \o u) /\ (s \o u)[i + Len(s)] = u[i]
      BY <1>1
    <3>. QED  BY <3>1 DEF PodsIn
  <2>. QED  BY <2>1, <2>2 DEF PodsIn
<1>. QED  BY <1>1, <1>2, <1>3

\* A part of a queue tells of no other pods.
LEMMA PodsInSubSeq ==
  ASSUME NEW s \in Seq(Reports), NEW a \in 1..(Len(s) + 1), NEW b \in 0..Len(s)
  PROVE  SubSeq(s, a, b) \in Seq(Reports) /\ PodsIn(SubSeq(s, a, b)) \subseteq PodsIn(s)
<1>1. DOMAIN s = 1..Len(s) /\ Len(s) \in Nat /\ \A i \in 1..Len(s) : s[i] \in Reports
  BY LenProperties, ElementOfSeq
<1>2. \A i \in a..b : s[i] \in Reports
  BY <1>1
<1>3. /\ SubSeq(s, a, b) \in Seq(Reports)
      /\ Len(SubSeq(s, a, b)) = IF a <= b THEN b - a + 1 ELSE 0
      /\ \A i \in 1..(b - a + 1) : SubSeq(s, a, b)[i] = s[a + i - 1]
  <2>1. a \in Int /\ b \in Int
    BY <1>1
  <2>. QED  BY <1>2, <2>1, SubSeqProperties
<1>4. DOMAIN SubSeq(s, a, b) = 1..Len(SubSeq(s, a, b))
  BY <1>3, LenProperties
<1>5. ASSUME NEW i \in DOMAIN SubSeq(s, a, b) PROVE SubSeq(s, a, b)[i].pod \in PodsIn(s)
  <2>1. i \in 1..(b - a + 1) /\ a + i - 1 \in DOMAIN s
    BY <1>1, <1>3, <1>4
  <2>. QED  BY <1>3, <2>1 DEF PodsIn
<1>. QED  BY <1>3, <1>5 DEF PodsIn

\* Taking the head leaves the events of all other pods.
LEMMA PodsInTail ==
  ASSUME NEW s \in Seq(Reports), s # <<>>
  PROVE  /\ Tail(s) \in Seq(Reports) /\ PodsIn(s) = {Head(s).pod} \cup PodsIn(Tail(s))
         /\ Head(s) \in Reports
<1>1. /\ Len(s) \in Nat /\ DOMAIN s = 1..Len(s) /\ 1 \in DOMAIN s /\ Head(s) = s[1] /\ Head(s) \in Reports
  BY SeqFacts
<1>2. /\ Tail(s) \in Seq(Reports) /\ DOMAIN Tail(s) = 1..(Len(s) - 1)
      /\ \A i \in DOMAIN Tail(s) : i + 1 \in DOMAIN s /\ Tail(s)[i] = s[i + 1]
  BY TailFacts
<1>3. ASSUME NEW i \in DOMAIN s PROVE s[i].pod \in {Head(s).pod} \cup PodsIn(Tail(s))
  <2>1. CASE i = 1
    BY <1>1, <2>1
  <2>2. CASE i # 1
    <3>1. i - 1 \in DOMAIN Tail(s) /\ (i - 1) + 1 = i
      BY <1>1, <1>2, <2>2
    <3>2. Tail(s)[i - 1] = s[(i - 1) + 1]
      BY <1>2, <3>1
    <3>. QED  BY <3>1, <3>2 DEF PodsIn
  <2>. QED  BY <2>1, <2>2
<1>. QED  BY <1>1, <1>2, <1>3 DEF PodsIn

\* A report is about its pod.
LEMMA ReportFacts ==
  ASSUME NEW p \in Pods, NEW pod, NEW gone, NEW err
  PROVE  /\ Report(Event(p, pod, gone, err)) \in Seq(Reports)
         /\ PodsIn(Report(Event(p, pod, gone, err))) \subseteq {p}
         /\ Report(Event(p, pod, gone, err)) # <<>> =>
              Head(Report(Event(p, pod, gone, err))) \in Reports /\ Head(Report(Event(p, pod, gone, err))).pod = p
<1> DEFINE e == Event(p, pod, gone, err)
<1>1. e.pod = p
  BY DEF Event
<1> HIDE DEF e
<1>2. \/ Report(e) = <<>>
      \/ \E state \in {"failed", "running", "finished"} : Report(e) = <<[pod |-> e.pod, state |-> state]>>
  BY DEF Report
<1>3. CASE Report(e) = <<>>
  <2>1. <<>> \in Seq(Reports) /\ PodsIn(<<>>) = {}
    BY EmptySeq DEF PodsIn
  <2>. QED  BY <1>3, <2>1 DEF e
<1>4. ASSUME NEW state \in {"failed", "running", "finished"}, Report(e) = <<[pod |-> e.pod, state |-> state]>>
      PROVE  /\ Report(e) \in Seq(Reports) /\ PodsIn(Report(e)) \subseteq {p}
             /\ Head(Report(e)) \in Reports /\ Head(Report(e)).pod = p
  <2> DEFINE r == [pod |-> e.pod, state |-> state]
  <2>1. r \in Reports /\ r.pod = p
    BY <1>1 DEF Reports
  <2> HIDE DEF r
  <2>2. <<r>> \in Seq(Reports) /\ DOMAIN <<r>> = {1} /\ <<r>>[1] = r /\ Head(<<r>>) = r
    BY <2>1
  <2>3. PodsIn(<<r>>) = {p}
    BY <2>1, <2>2 DEF PodsIn
  <2>. QED  BY <1>4, <2>1, <2>2, <2>3 DEF r
<1>. QED  BY <1>2, <1>3, <1>4 DEF e

\* An event of the cluster adds at most its own pod to the watcher's queue, or is lost.
LEMMA EmitFacts ==
  ASSUME TypeOK, NEW p \in Pods, NEW pod, NEW gone, NEW err, Emit(Event(p, pod, gone, err))
  PROVE  watcher_queue' \in Seq(Reports) /\ PodsIn(watcher_queue') \subseteq PodsIn(watcher_queue) \cup {p}
<1>1. watcher_queue \in Seq(Reports)
  BY DEF TypeOK
<1>2. Report(Event(p, pod, gone, err)) \in Seq(Reports) /\ PodsIn(Report(Event(p, pod, gone, err))) \subseteq {p}
  BY ReportFacts
<1>3. \/ watcher_queue' = watcher_queue
      \/ watcher_queue' = watcher_queue \o Report(Event(p, pod, gone, err))
  BY DEF Emit
<1>. QED  BY <1>1, <1>2, <1>3, PodsInConcat

\* A listing of the cluster tells only of pods that exist.
LEMMA ListingFacts ==
  ASSUME NEW l \in Listings
  PROVE  l \in Seq(Reports) /\ PodsIn(l) \subseteq {p \in Pods : Exists(p)}
<1> DEFINE P == {p \in Pods : Exists(p) /\ Listed(p) # <<>>}
<1>1. IsFiniteSet(P)
  BY PodFacts, FS_Subset
<1>2. PICK s \in SetToSeqs(P) : l = [i \in DOMAIN s |-> Head(Listed(s[i]))]
  BY DEF Listings
<1>3. Cardinality(P) \in Nat /\ s \in [1..Cardinality(P) -> P]
  BY <1>1, <1>2, FS_CardinalityType DEF SetToSeqs
<1>4. ASSUME NEW i \in DOMAIN s PROVE l[i] \in Reports /\ l[i].pod \in P
  <2>1. s[i] \in P
    BY <1>3
  <2>2. Head(Listed(s[i])) \in Reports /\ Head(Listed(s[i])).pod = s[i]
    <3>1. ASSUME NEW q \in Pods, Listed(q) # <<>> PROVE Head(Listed(q)) \in Reports /\ Head(Listed(q)).pod = q
      BY <3>1, ReportFacts DEF Listed
    <3>. QED  BY <2>1, <3>1
  <2>. QED  BY <1>2, <2>1, <2>2
<1>5. l \in Seq(Reports)
  <2>1. l \in [1..Cardinality(P) -> Reports]
    BY <1>2, <1>3, <1>4
  <2> HIDE DEF P
  <2>2. PICK n \in Nat : n = Cardinality(P)
    BY <1>3
  <2>3. l \in [1..n -> Reports]
    BY <2>1, <2>2
  <2>. QED  BY <2>3, SeqDef
<1>6. PodsIn(l) \subseteq P
  BY <1>2, <1>4 DEF PodsIn
<1>. QED  BY <1>5, <1>6

-----------------------------------------------------------------------------
(***************************************************************************)
(* The database                                                            *)
(***************************************************************************)
\* What a task instance needs to be tried again.
HasTry(i) == i.state \in {"scheduled", "queued", "up_for_retry"} => i.try <= MaxRetries

\* Airflow's handle_failure keeps the number of the try and leaves a try for a retry.
LEMMA FailureFacts ==
  ASSUME NEW i \in TaskInstance
  PROVE  LET f == HandleFailure(i) IN
         f \in TaskInstance /\ f.try = i.try /\ f.state \in {"up_for_retry", "failed"} /\ HasTry(f)
<1>1. /\ i.state \in States /\ i.try \in 0..(MaxRetries + 1) /\ i.max \in RetryCounts \cup Retries
      /\ i.max \in Nat /\ i.max <= MaxRetries /\ MaxRetries \in Nat
  BY MaxRetriesFacts DEF TaskInstance
<1> DEFINE s == IF i.max > 0 /\ TryNumber(i) <= i.max THEN "up_for_retry" ELSE "failed"
<1>2. s \in {"up_for_retry", "failed"} /\ (s = "up_for_retry" => i.try <= MaxRetries)
  BY <1>1 DEF TryNumber
<1>3. HandleFailure(i) = [i EXCEPT !.state = s]
  BY DEF HandleFailure
<1> HIDE DEF s
<1>4. /\ [i EXCEPT !.state = s] \in TaskInstance /\ [i EXCEPT !.state = s].state = s
      /\ [i EXCEPT !.state = s].try = i.try
  BY <1>2 DEF TaskInstance, States
<1>. QED  BY <1>2, <1>3, <1>4 DEF HasTry

\* A crashed pod counts as a try also when its task had not begun (state queued).
LEMMA CrashedFacts ==
  ASSUME NEW i \in TaskInstance, HasTry(i), NEW count \in RetryCounts \cup {i.max}
  PROVE  LET f == HandleCrashed(i, count) IN
         /\ f \in TaskInstance /\ f.state \in {"up_for_retry", "failed"} /\ HasTry(f)
         /\ f.try = IF i.state = "queued" THEN i.try + 1 ELSE i.try
<1>1. /\ i.state \in States /\ i.try \in 0..(MaxRetries + 1) /\ count \in RetryCounts \cup Retries
      /\ MaxRetries \in Nat /\ (i.state = "queued" => i.try <= MaxRetries)
  BY MaxRetriesFacts DEF TaskInstance, HasTry
<1> DEFINE n == IF i.state = "queued" THEN i.try + 1 ELSE i.try
           j == [i EXCEPT !.max = count, !.try = n]
<1>2. n \in 0..(MaxRetries + 1)
  BY <1>1
<1>3. HandleCrashed(i, count) = HandleFailure(j)
  BY DEF HandleCrashed
<1> HIDE DEF n
<1>4. j \in TaskInstance /\ j.try = n
  BY <1>1, <1>2 DEF TaskInstance
<1> HIDE DEF j
<1>. QED  BY <1>3, <1>4, FailureFacts DEF n

\* A step of the database that touches one task, which it leaves with a try or without need of one.
Writes(t) ==
  /\ ti' \in [Tasks -> TaskInstance] /\ tracked' \in [Tasks -> States \cup {"cancelled"}]
  /\ \A u \in Tasks \ {t} : ti'[u] = ti[u] /\ tracked'[u] = tracked[u]
  /\ HasTry(ti'[t])

\* Handling a pod's end settles its task, and what it writes is also tracked.
LEMMA PodFailedFacts ==
  ASSUME IInv, NEW t \in Tasks, ProcessPodFailed(t) \/ ProcessPodSuccess(t)
  PROVE  /\ Writes(t)
         /\ ti'[t].state \in Settled
         /\ ti'[t].try = IF ti[t].state = "queued" THEN ti[t].try + 1 ELSE ti[t].try
         /\ UNCHANGED <<ti, tracked>> \/ tracked'[t] = ti'[t].state
<1>1. /\ ti \in [Tasks -> TaskInstance] /\ tracked \in [Tasks -> States \cup {"cancelled"}]
      /\ HasTry(ti[t]) /\ ti[t] \in TaskInstance
  BY DEF IInv, TypeOK, TryLeft, HasTry
<1>2. CASE UNCHANGED database /\ ti[t].state \in Finished \cup {"up_for_retry"}
  <2>1. UNCHANGED <<ti, tracked>> /\ ti[t].state \in Settled
    BY <1>2 DEF database, Finished, Settled
  <2>. QED  BY <1>1, <2>1 DEF Writes, Settled
<1>3. CASE /\ \E count \in RetryCounts \cup {ti[t].max} : ti' = [ti EXCEPT ![t] = HandleCrashed(@, count)]
           /\ tracked' = [tracked EXCEPT ![t] = ti'[t].state]
  <2>1. PICK count \in RetryCounts \cup {ti[t].max} : ti' = [ti EXCEPT ![t] = HandleCrashed(ti[t], count)]
    BY <1>3
  <2> DEFINE f == HandleCrashed(ti[t], count)
  <2>2. /\ f \in TaskInstance /\ f.state \in {"up_for_retry", "failed"} /\ HasTry(f)
        /\ f.try = IF ti[t].state = "queued" THEN ti[t].try + 1 ELSE ti[t].try
    BY <1>1, CrashedFacts
  <2>3. ti' = [ti EXCEPT ![t] = f]
    BY <2>1
  <2> HIDE DEF f
  <2>4. ti' \in [Tasks -> TaskInstance] /\ ti'[t] = f /\ \A u \in Tasks \ {t} : ti'[u] = ti[u]
    BY <1>1, <2>2, <2>3
  <2>5. /\ tracked' \in [Tasks -> States \cup {"cancelled"}] /\ tracked'[t] = ti'[t].state
        /\ \A u \in Tasks \ {t} : tracked'[u] = tracked[u]
    <3>1. ti'[t].state \in States
      BY <2>2, <2>4 DEF States
    <3>. QED  BY <1>1, <1>3, <3>1
  <2>. QED  BY <2>2, <2>4, <2>5 DEF Writes, Settled
<1>. QED  BY <1>2, <1>3 DEF ProcessPodFailed, ProcessPodSuccess, Finished

\* A settled state written with its tracking call keeps TryLeft and OutcomeTracked.
LEMMA WritesFacts ==
  ASSUME IInv, NEW t \in Tasks, Writes(t), CleanTasks' \subseteq CleanTasks,
         UNCHANGED <<ti, tracked>> \/ tracked'[t] = ti'[t].state \/ ti'[t].state \notin Finished
  PROVE  TryLeft' /\ OutcomeTracked'
<1>1. TryLeft'
  BY DEF IInv, TryLeft, Writes, HasTry
<1>2. \A u \in Tasks : Clean(u)' => Clean(u)
  BY DEF CleanTasks
<1>3. OutcomeTracked'
  BY <1>2 DEF IInv, OutcomeTracked, Writes
<1>. QED  BY <1>1, <1>3

-----------------------------------------------------------------------------
(***************************************************************************)
(* Frames                                                                  *)
(***************************************************************************)
\* A step that leaves the stage of t.
Same(t) ==
  /\ (t \in waiting') <=> (t \in waiting)
  /\ Running(t)' = Running(t) /\ Submitted(t)' = Submitted(t) /\ Queue(t)' = Queue(t)
  /\ Results(t)' = Results(t) /\ Buffer(t)' = Buffer(t)
  /\ \A p \in Submitted(t) : Processed(p)' <=> Processed(p)
  /\ ti'[t].state = ti[t].state /\ ti'[t].try = ti[t].try /\ created'[t] = created[t]

\* A task none of whose variables changed is in the same stage.
LEMMA SameStage == ASSUME NEW t, Stage(t), Same(t) PROVE Stage(t)'
<1>1. This(t)' = This(t) /\ NextTry(t)' = NextTry(t)
  BY DEF Same, This, NextTry
<1>2. Idle(t) => Idle(t)'
  BY DEF Same, Idle
<1>3. Queued(t) => Queued(t)'
  BY <1>1 DEF Same, Queued
<1>4. Sent(t) => Sent(t)'
  BY <1>1 DEF Same, Sent
<1>5. Done(t) => Done(t)'
  BY <1>1 DEF Same, Done
<1>6. Handed(t) => Handed(t)'
  BY <1>1 DEF Same, Handed
<1>. QED  BY <1>2, <1>3, <1>4, <1>5, <1>6 DEF Stage

\* At the start nothing is queued, sent or known of any pod.
LEMMA InitIInv == Init => IInv
<1> SUFFICES ASSUME Init PROVE IInv
  OBVIOUS
<1>0. MaxRetries \in Nat
  BY MaxRetriesFacts
<1>1. /\ <<>> \in Seq(Reports) /\ <<>> \in Seq(Pods) /\ DOMAIN <<>> = {} /\ DOMAIN Nothing = {}
      /\ Range(<<>>) = {} /\ PodsIn(<<>>) = {}
  BY EmptySeq DEF Nothing, Range, PodsIn
<1>2. /\ ti \in [Tasks -> TaskInstance] /\ tracked \in [Tasks -> States \cup {"cancelled"}]
  BY <1>0 DEF Init, TaskInstance, States
<1>3. pods \in [Pods -> Pod] /\ \A p \in Pods : ~Exists(p)
  BY DEF Init, NoPod, Pod, Exists
<1>4. TypeOK
  <2>1. Nothing \in [DOMAIN Nothing -> [node : BOOLEAN, processed : BOOLEAN]] /\ Nothing \in [DOMAIN Nothing -> {"failed", "running", "finished"}]
    BY DEF Nothing
  <2>2. created \in [Tasks -> Nat] /\ faults \in 0..MaxFaults
    BY FaultsAssumption DEF Init
  <2>. QED  BY <1>1, <1>2, <1>3, <2>1, <2>2 DEF Init, TypeOK
<1>5. Stages
  <2> SUFFICES ASSUME NEW t \in Tasks PROVE Idle(t)
    BY DEF Stages, Stage
  <2>1. Running(t) = {} /\ Submitted(t) = {} /\ Queue(t) = {} /\ Results(t) = {} /\ Buffer(t) = {}
    BY <1>1 DEF Init, Running, Submitted, Queue, Results, Buffer, Of
  <2>2. ti[t].state = "scheduled" /\ ti[t].try = 0 /\ created[t] = 0 /\ t \notin waiting
    BY DEF Init
  <2>. QED  BY <2>1, <2>2 DEF Idle, Settled
<1>6. OneEntry /\ OneResult /\ QueueReady /\ Seen
  BY <1>1 DEF Init, OneEntry, OneResult, QueueReady, Seen
<1>7. Recorded /\ LastTry
  BY <1>3 DEF Recorded, LastTry
<1>8. TryLeft /\ TriesBounded /\ OutcomeTracked
  BY <1>0 DEF Init, TryLeft, TriesBounded, OutcomeTracked, Finished
<1>. QED  BY <1>4, <1>5, <1>6, <1>7, <1>8 DEF IInv

\* A step that spends faults stays within their bound.
LEMMA FaultFacts == ASSUME TypeOK, NEW n \in Nat, Faults(n) PROVE faults' \in 0..MaxFaults
BY FaultsAssumption DEF TypeOK, Faults

Places == {"schedule", "health", "events", "results", "run", "manage", "terminate", "cancel", "ended"}

\* A step of the cluster or of the watcher, or one that only moves the loop on.
LEMMA Frame ==
  ASSUME IInv, UNCHANGED <<created, executor, waiting, history>>,
         ti' \in [Tasks -> TaskInstance], tracked' \in [Tasks -> States \cup {"cancelled"}],
         TryLeft', OutcomeTracked',
         \A t \in Tasks : Clean(t) /\ Stage(t) => Stage(t)',
         pods' \in [Pods -> Pod],
         \A p \in Pods : Exists(p)' => Exists(p) /\ (pods[p].deleting => pods'[p].deleting),
         watcher_queue' \in Seq(Reports),
         PodsIn(watcher_queue') \subseteq PodsIn(watcher_queue) \cup {p \in Pods : Exists(p)},
         watching' \in BOOLEAN, faults' \in 0..MaxFaults, pods_to_delete' \subseteq Pods,
         pc' \in Places, pc' \in Live => pc \in Live, QueueReady'
  PROVE  IInv'
<1> USE DEF executor, history
<1>1. CleanTasks' = CleanTasks /\ \A t : Clean(t)' = Clean(t)
  BY DEF CleanTasks, Clean
<1>2. TypeOK'
  BY DEF IInv, TypeOK, Places
<1>3. Stages'
  BY <1>1 DEF IInv, Stages
<1>4. OneEntry' /\ OneResult'
  BY <1>1 DEF IInv, OneEntry, OneResult
<1>5. Recorded'
  BY DEF IInv, Recorded
<1>6. LastTry'
  BY <1>1 DEF IInv, LastTry
<1>7. Seen'
  BY <1>1 DEF IInv, Seen, LastTry, PodsIn
<1>8. TriesBounded'
  BY <1>1 DEF IInv, TriesBounded
<1>. QED  BY <1>2, <1>3, <1>4, <1>5, <1>6, <1>7, <1>8 DEF IInv

\* A step that changes neither executor, pods nor database changes no task's stage.
LEMMA SameAll ==
  ASSUME UNCHANGED <<created, executor, waiting, ti>>, NEW t
  PROVE  Same(t)
<1> USE DEF executor
<1>1. /\ Running(t)' = Running(t) /\ Submitted(t)' = Submitted(t) /\ Queue(t)' = Queue(t)
      /\ Results(t)' = Results(t) /\ Buffer(t)' = Buffer(t)
  BY DEF Running, Submitted, Queue, Results, Buffer, Of, PodsIn, Range
<1>2. \A p \in Submitted(t) : Processed(p)' <=> Processed(p)
  BY DEF Processed
<1>. QED  BY <1>1, <1>2 DEF Same

\* The same, for steps that leave the database.
LEMMA QuietFrame ==
  ASSUME IInv, UNCHANGED <<created, executor, waiting, history, database>>,
         pods' \in [Pods -> Pod],
         \A p \in Pods : Exists(p)' => Exists(p) /\ (pods[p].deleting => pods'[p].deleting),
         watcher_queue' \in Seq(Reports),
         PodsIn(watcher_queue') \subseteq PodsIn(watcher_queue) \cup {p \in Pods : Exists(p)},
         watching' \in BOOLEAN, faults' \in 0..MaxFaults, pods_to_delete' \subseteq Pods,
         pc' \in Places, pc' \in Live => pc \in Live, QueueReady'
  PROVE  IInv'
<1>1. UNCHANGED <<ti, tracked>>
  BY DEF database
<1>2. \A t : Clean(t)' = Clean(t)
  BY DEF Clean, history
<1>3. TryLeft' /\ OutcomeTracked'
  BY <1>1, <1>2 DEF IInv, TryLeft, OutcomeTracked
<1>4. \A t \in Tasks : Stage(t) => Stage(t)'
  BY <1>1, SameAll, SameStage
<1>5. ti' \in [Tasks -> TaskInstance] /\ tracked' \in [Tasks -> States \cup {"cancelled"}]
  BY <1>1 DEF IInv, TypeOK
<1>. QED  BY <1>3, <1>4, <1>5, Frame

-----------------------------------------------------------------------------
(***************************************************************************)
(* Steps of the cluster and of the watcher                                 *)
(***************************************************************************)
\* A pod that changes is one that exists, and its deletion is not taken back.
LEMMA ChangePodStep ==
  ASSUME IInv, NEW p \in Pods, NEW pod \in Pod, ChangePod(p, pod), UNCHANGED database,
         Exists(p), pods[p].deleting => pod.deleting, faults' \in 0..MaxFaults
  PROVE  IInv'
<1>1. TypeOK
  BY DEF IInv
<1>2. /\ pods' = [pods EXCEPT ![p] = pod] /\ Emit(Event(p, pod, FALSE, FALSE))
      /\ UNCHANGED <<created, watching, executor, job, history>>
  BY DEF ChangePod
<1>3. pods' \in [Pods -> Pod]
  BY <1>1, <1>2 DEF TypeOK
<1>4. \A q \in Pods : Exists(q)' => Exists(q) /\ (pods[q].deleting => pods'[q].deleting)
  BY <1>1, <1>2 DEF TypeOK, Exists
<1>5. watcher_queue' \in Seq(Reports) /\ PodsIn(watcher_queue') \subseteq PodsIn(watcher_queue) \cup {p}
  BY <1>1, <1>2, EmitFacts
<1>6. /\ watching' \in BOOLEAN /\ pods_to_delete' \subseteq Pods /\ pc' \in Places /\ pc' = pc /\ UNCHANGED waiting
  BY <1>1, <1>2 DEF TypeOK, job, Places
<1>7. QueueReady'
  BY <1>2 DEF IInv, QueueReady, executor, job
<1>. QED  BY <1>2, <1>3, <1>4, <1>5, <1>6, <1>7, QuietFrame

\* A pod that boots, or writes its task's state, keeps the invariant.
LEMMA PodWorkStep == ASSUME IInv, NEW p \in Pods, PodBoots(p) \/ PodWrites(p) PROVE IInv'
<1> DEFINE t == p[1]
<1>0. /\ TypeOK /\ t \in Tasks /\ p = <<p[1], p[2]>> /\ pods[p] \in Pod /\ pods \in [Pods -> Pod]
      /\ ti \in [Tasks -> TaskInstance] /\ tracked \in [Tasks -> States \cup {"cancelled"}]
      /\ ti[t] \in TaskInstance /\ HasTry(ti[t]) /\ MaxRetries \in Nat
  BY PodFacts, MaxRetriesFacts DEF IInv, TypeOK, TryLeft, HasTry
<1>1. /\ UNCHANGED <<created, watcher, executor, job, faults, history>> /\ Exists(p)
      /\ \E run \in {"task", "done"} : pods' = [pods EXCEPT ![p].run = run]
  BY DEF PodBoots, PodWrites, Alive, Exists
<1>2. /\ pods' \in [Pods -> Pod]
      /\ \A q \in Pods : Exists(q)' => Exists(q) /\ (pods[q].deleting => pods'[q].deleting)
  <2>1. PICK run \in {"task", "done"} : pods' = [pods EXCEPT ![p].run = run]
    BY <1>1
  <2>2. [pods[p] EXCEPT !.run = run] \in Pod /\ [pods[p] EXCEPT !.run = run].deleting = pods[p].deleting
    BY <1>0 DEF Pod
  <2>3. pods' = [pods EXCEPT ![p] = [pods[p] EXCEPT !.run = run]]
    BY <1>0, <2>1
  <2>. QED  BY <1>0, <1>1, <2>2, <2>3 DEF Exists
<1>3. /\ watcher_queue' = watcher_queue /\ watching' \in BOOLEAN /\ faults' \in 0..MaxFaults
      /\ pods_to_delete' \subseteq Pods /\ pc' \in Places /\ pc' = pc /\ UNCHANGED waiting
      /\ watcher_queue' \in Seq(Reports) /\ CleanTasks' = CleanTasks
  BY <1>0, <1>1 DEF TypeOK, job, watcher, Places, CleanTasks, Clean, history
<1>4. QueueReady'
  BY <1>1 DEF IInv, QueueReady, executor, job
<1>5. CASE UNCHANGED database
  BY <1>1, <1>2, <1>3, <1>4, <1>5, QuietFrame
<1>6. ASSUME NEW i \in TaskInstance, ti' = [ti EXCEPT ![t] = i], tracked' = [tracked EXCEPT ![t] = i.state],
             HasTry(i),
             Clean(t) /\ Stage(t) => Stage(t)'
      PROVE  IInv'
  <2>1. Writes(t) /\ tracked'[t] = ti'[t].state
    BY <1>0, <1>6 DEF Writes, TaskInstance
  <2>2. TryLeft' /\ OutcomeTracked'
    BY <1>0, <1>3, <2>1, WritesFacts
  <2>3. ASSUME NEW u \in Tasks, u # t, Stage(u) PROVE Stage(u)'
    <3>1. /\ Running(u)' = Running(u) /\ Submitted(u)' = Submitted(u) /\ Queue(u)' = Queue(u)
          /\ Results(u)' = Results(u) /\ Buffer(u)' = Buffer(u)
      BY <1>1 DEF executor, Running, Submitted, Queue, Results, Buffer, Of, PodsIn, Range
    <3>2. Same(u)
      BY <1>1, <1>3, <1>6, <2>3, <3>1 DEF Same, Processed, executor
    <3>. QED  BY <2>3, <3>2, SameStage
  <2>. QED  BY <1>1, <1>2, <1>3, <1>4, <1>6, <2>1, <2>2, <2>3, Frame DEF Writes
\* The stage of the task itself: only the pod of a try that is sent may find it queued.
<1>7. /\ Running(t)' = Running(t) /\ Submitted(t)' = Submitted(t) /\ Queue(t)' = Queue(t)
      /\ Results(t)' = Results(t) /\ Buffer(t)' = Buffer(t) /\ This(t)' = This(t)
      /\ Processed(This(t))' = Processed(This(t))
  BY <1>1 DEF executor, Running, Submitted, Queue, Results, Buffer, Of, PodsIn, Range, This, Processed
<1>8. CASE /\ PodBoots(p) /\ ti[t].state = "queued"
           /\ ti' = [ti EXCEPT ![t].state = "running", ![t].try = @ + 1]
           /\ tracked' = [tracked EXCEPT ![t] = "running"]
  <2> DEFINE i == [ti[t] EXCEPT !.state = "running", !.try = ti[t].try + 1]
  <2>0. ti[t].try + 1 \in 0..(MaxRetries + 1)
    BY <1>0, <1>8 DEF HasTry, TaskInstance
  <2>1. i \in TaskInstance /\ i.state = "running" /\ i.try = ti[t].try + 1
    BY <1>0, <2>0 DEF TaskInstance, States
  <2>2. ti' = [ti EXCEPT ![t] = i]
    BY <1>0, <1>8
  <2> HIDE DEF i
  <2>3. ASSUME Clean(t), Stage(t) PROVE Stage(t)'
    <3>1. ~pods[p].deleting
      BY <1>8 DEF PodBoots
    <3>2. p \in DOMAIN submitted_pods /\ p[2] <= created[t]
      BY <1>0, <1>1, <2>3, <3>1 DEF IInv, Recorded, LastTry, Clean
    <3>3. p \in Submitted(t)
      BY <3>2 DEF Submitted, Of
    <3>4. ~Queued(t)
      <4>1. p # NextTry(t)
        <5>1. NextTry(t)[2] = created[t] + 1 /\ created[t] \in Nat
          BY <1>0 DEF NextTry, TypeOK
        <5>2. p[2] \in Nat
          BY PodFacts
        <5>. QED  BY <3>2, <5>1, <5>2
      <4>. QED  BY <3>3, <4>1 DEF Queued
    <3>5. Sent(t)
      BY <1>8, <2>3, <3>4 DEF Stage, Idle, Done, Handed, Settled
    <3>6. ti'[t].state = "running" /\ ti'[t].try = created[t] /\ created'[t] = created[t]
      <4>1. ti[t].try + 1 = created[t]
        BY <1>8, <3>5 DEF Sent, Settled
      <4>. QED  BY <1>0, <1>1, <2>1, <2>2, <4>1
    <3>. QED  BY <1>3, <1>7, <3>5, <3>6 DEF Stage, Sent
  <2>4. HasTry(i)
    BY <2>1 DEF HasTry
  <2>. QED  BY <1>6, <1>8, <2>1, <2>2, <2>3, <2>4
<1>9. CASE /\ PodWrites(p) /\ ti[t].state = "running"
           /\ \E i \in {[ti[t] EXCEPT !.state = "success"], HandleFailure(ti[t])} : ti' = [ti EXCEPT ![t] = i]
           /\ tracked' = [tracked EXCEPT ![t] = ti'[t].state]
  <2>1. PICK i : /\ i \in {[ti[t] EXCEPT !.state = "success"], HandleFailure(ti[t])}
                 /\ ti' = [ti EXCEPT ![t] = i]
    BY <1>9
  <2>2. i \in TaskInstance /\ i.state \in Settled /\ i.try = ti[t].try /\ HasTry(i)
    <3>1. CASE i = [ti[t] EXCEPT !.state = "success"]
      BY <1>0, <3>1 DEF TaskInstance, States, Settled, HasTry
    <3>2. CASE i = HandleFailure(ti[t])
      BY <1>0, <3>2, FailureFacts DEF Settled
    <3>. QED  BY <2>1, <3>1, <3>2
  <2>3. ti'[t] = i
    BY <1>0, <2>1
  <2>4. ASSUME Clean(t), Stage(t) PROVE Stage(t)'
    <3>1. Sent(t) /\ ti[t].try = created[t]
      BY <1>9, <2>4 DEF Stage, Idle, Queued, Sent, Done, Handed, Settled
    <3>2. ti'[t].state \in Settled /\ ti'[t].try = created'[t]
      BY <1>1, <2>2, <2>3, <3>1
    <3>. QED  BY <1>3, <1>7, <3>1, <3>2 DEF Stage, Sent
  <2>. QED  BY <1>6, <1>9, <2>1, <2>2, <2>3, <2>4
<1>. QED  BY <1>5, <1>8, <1>9 DEF PodBoots, PodWrites

\* So does every step of the cluster.
LEMMA ClusterStep == ASSUME IInv, Cluster PROVE IInv'
<1>0. TypeOK /\ pods \in [Pods -> Pod] /\ faults \in 0..MaxFaults
  BY DEF IInv, TypeOK
<1>1. PICK p \in Pods :
        \/ PodStarts(p) \/ PodHasError(p) \/ PodBoots(p) \/ PodWrites(p) \/ PodExits(p)
        \/ PodCrashes(p) \/ PodEvicted(p) \/ PodRemoved(p)
  BY DEF Cluster
<1>2. pods[p] \in Pod /\ (Fault => faults' \in 0..MaxFaults)
  BY <1>0, FaultFacts DEF Fault
<1>3. CASE PodStarts(p) \/ PodExits(p) \/ PodCrashes(p)
  <2>1. PICK phase \in {"Running", "Succeeded", "Failed"} : ChangePod(p, [pods[p] EXCEPT !.phase = phase])
    BY <1>3 DEF PodStarts, PodExits, PodCrashes
  <2>2. [pods[p] EXCEPT !.phase = phase] \in Pod /\ [pods[p] EXCEPT !.phase = phase].deleting = pods[p].deleting
    BY <1>2 DEF Pod
  <2>3. Exists(p) /\ UNCHANGED database /\ faults' \in 0..MaxFaults
    BY <1>0, <1>2, <1>3 DEF PodStarts, PodExits, PodCrashes, Exists
  <2>. QED  BY <2>1, <2>2, <2>3, ChangePodStep
<1>4. CASE PodEvicted(p)
  <2>1. [pods[p] EXCEPT !.deleting = TRUE] \in Pod /\ [pods[p] EXCEPT !.deleting = TRUE].deleting
    BY <1>2 DEF Pod
  <2>. QED  BY <1>2, <1>4, <2>1, ChangePodStep DEF PodEvicted
<1>5. ASSUME pods' \in [Pods -> Pod], Exists(p),
             \A q \in Pods : Exists(q)' => Exists(q) /\ pods'[q] = pods[q],
             UNCHANGED <<database, created, watching, executor, job, history>>, faults' \in 0..MaxFaults,
             watcher_queue' \in Seq(Reports), PodsIn(watcher_queue') \subseteq PodsIn(watcher_queue) \cup {p}
      PROVE  IInv'
  <2>1. /\ watching' \in BOOLEAN /\ pods_to_delete' \subseteq Pods /\ pc' \in Places /\ pc' = pc /\ UNCHANGED waiting
    BY <1>0, <1>5 DEF TypeOK, job, Places
  <2>2. QueueReady'
    BY <1>5 DEF IInv, QueueReady, executor, job
  <2>. QED  BY <1>5, <2>1, <2>2, QuietFrame
<1>6. CASE PodHasError(p)
  <2>1. /\ Exists(p) /\ UNCHANGED <<database, pods, created, watching, executor, job, history>>
        /\ faults' \in 0..MaxFaults /\ Emit(Event(p, pods[p], FALSE, TRUE))
    BY <1>2, <1>6 DEF PodHasError, Exists
  <2>2. watcher_queue' \in Seq(Reports) /\ PodsIn(watcher_queue') \subseteq PodsIn(watcher_queue) \cup {p}
    BY <1>0, <2>1, EmitFacts
  <2>. QED  BY <1>0, <1>5, <2>1, <2>2 DEF Exists
<1>7. CASE PodRemoved(p)
  <2>1. /\ Exists(p) /\ UNCHANGED <<database, created, watching, executor, job, history, faults>>
        /\ pods' = [pods EXCEPT ![p] = NoPod] /\ Emit(Event(p, pods[p], TRUE, FALSE))
    BY <1>7 DEF PodRemoved
  <2>2. watcher_queue' \in Seq(Reports) /\ PodsIn(watcher_queue') \subseteq PodsIn(watcher_queue) \cup {p}
    BY <1>0, <2>1, EmitFacts
  <2>3. NoPod \in Pod /\ NoPod.phase = "none"
    BY DEF NoPod, Pod
  <2>4. /\ pods' \in [Pods -> Pod]
        /\ \A q \in Pods : Exists(q)' => Exists(q) /\ pods'[q] = pods[q]
    BY <1>0, <2>1, <2>3 DEF Exists
  <2>. QED  BY <1>0, <1>5, <2>1, <2>2, <2>4
<1>. QED  BY <1>1, <1>3, <1>4, <1>6, <1>7, PodWorkStep

\* The watcher forwards an event or lists the pods again.
LEMMA WatcherStep == ASSUME IInv, Watcher \/ HealthCheck PROVE IInv'
<1>0. /\ TypeOK /\ pods \in [Pods -> Pod] /\ watcher_queue \in Seq(Reports) /\ watching \in BOOLEAN
      /\ faults \in 0..MaxFaults
  BY DEF IInv, TypeOK
<1>1. /\ UNCHANGED <<database, cluster, executor, history, waiting, pods_to_delete>> /\ watching' \in BOOLEAN
      /\ pc' = pc \/ (pc = "health" /\ pc' = "events")
      /\ Fault \/ faults' = faults
  BY <1>0 DEF Watcher, WatchSkips, WatchExpires, WatcherDies, HealthCheck, job
<1>2. faults' \in 0..MaxFaults
  BY <1>0, <1>1, FaultFacts DEF Fault
<1>3. Len(watcher_queue) \in Nat
  BY <1>0, LenProperties
<1>4. ASSUME NEW n \in 0..Len(watcher_queue)
      PROVE  /\ SubSeq(watcher_queue, 1, n) \in Seq(Reports)
             /\ PodsIn(SubSeq(watcher_queue, 1, n)) \subseteq PodsIn(watcher_queue)
  BY <1>0, <1>3, PodsInSubSeq
<1>5. /\ watcher_queue' \in Seq(Reports)
      /\ PodsIn(watcher_queue') \subseteq PodsIn(watcher_queue) \cup {p \in Pods : Exists(p)}
  <2>1. CASE WatchSkips
    <3>1. PICK i \in 1..Len(watcher_queue) : watcher_queue' = RemoveAt(watcher_queue, i)
      BY <2>1 DEF WatchSkips
    <3> DEFINE a == SubSeq(watcher_queue, 1, i - 1)
               b == SubSeq(watcher_queue, i + 1, Len(watcher_queue))
    <3>2. watcher_queue' = a \o b
      BY <3>1 DEF RemoveAt
    <3>3. i - 1 \in 0..Len(watcher_queue) /\ i + 1 \in 1..(Len(watcher_queue) + 1) /\ Len(watcher_queue) \in 0..Len(watcher_queue)
      BY <1>3
    <3>4. a \in Seq(Reports) /\ PodsIn(a) \subseteq PodsIn(watcher_queue)
      BY <1>4, <3>3
    <3>5. b \in Seq(Reports) /\ PodsIn(b) \subseteq PodsIn(watcher_queue)
      BY <1>0, <3>3, PodsInSubSeq
    <3> HIDE DEF a, b
    <3>. QED  BY <3>2, <3>4, <3>5, PodsInConcat
  <2>2. CASE WatchExpires
    <3>1. PICK n \in 0..Len(watcher_queue), l \in Listings : watcher_queue' = SubSeq(watcher_queue, 1, n) \o l
      BY <2>2 DEF WatchExpires
    <3> DEFINE a == SubSeq(watcher_queue, 1, n)
    <3>2. watcher_queue' = a \o l /\ a \in Seq(Reports) /\ PodsIn(a) \subseteq PodsIn(watcher_queue)
      BY <1>4, <3>1
    <3> HIDE DEF a
    <3>. QED  BY <3>2, ListingFacts, PodsInConcat
  <2>3. CASE WatcherDies
    BY <1>4, <2>3 DEF WatcherDies
  <2>4. CASE HealthCheck
    <3>1. PICK l \in Listings : watcher_queue' = watcher_queue \o l
      BY <2>4 DEF HealthCheck
    <3>. QED  BY <1>0, <3>1, ListingFacts, PodsInConcat
  <2>. QED  BY <2>1, <2>2, <2>3, <2>4 DEF Watcher
<1>6. UNCHANGED <<pods, created>>
  BY <1>1 DEF cluster
<1>7. pods_to_delete' \subseteq Pods /\ pc' \in Places /\ (pc' \in Live => pc \in Live)
  BY <1>0, <1>1 DEF TypeOK, Places, Live
<1>8. QueueReady'
  BY <1>1 DEF IInv, QueueReady, executor
<1>9. \A p \in Pods : Exists(p)' => Exists(p) /\ (pods[p].deleting => pods'[p].deleting)
  BY <1>6 DEF Exists
<1>. QED  BY <1>0, <1>1, <1>2, <1>5, <1>6, <1>7, <1>8, <1>9, QuietFrame

\* Steps that only move the loop on.
LEMMA MoveStep ==
  ASSUME IInv, EventsDone \/ ResultsDone \/ ManageDone \/ PodsTerminated \/ UNCHANGED vars
  PROVE  IInv'
<1>0. /\ TypeOK /\ pods \in [Pods -> Pod] /\ watcher_queue \in Seq(Reports) /\ watching \in BOOLEAN
      /\ faults \in 0..MaxFaults
  BY DEF IInv, TypeOK
<1>1. /\ UNCHANGED <<database, cluster, watcher, executor, waiting, pods_to_delete, faults, history>>
      /\ pc' \in Places /\ (pc' \in Live => pc \in Live) /\ (pc' = "run" => task_queue # <<>>)
  BY <1>0 DEF EventsDone, ResultsDone, ManageDone, PodsTerminated, AfterResults, vars, job, Live, Places,
              TypeOK, IInv, QueueReady
<1>2. UNCHANGED <<pods, created, watching, watcher_queue, task_queue>>
  BY <1>1 DEF cluster, watcher, executor
<1>3. QueueReady' /\ pods_to_delete' \subseteq Pods
  BY <1>0, <1>1, <1>2 DEF QueueReady, TypeOK
<1>4. \A p \in Pods : Exists(p)' => Exists(p) /\ (pods[p].deleting => pods'[p].deleting)
  BY <1>2 DEF Exists
<1>. QED  BY <1>0, <1>1, <1>2, <1>3, <1>4, QuietFrame

\* The last states that terminate writes are those that the database has.
LEMMA LastStatesStep == ASSUME IInv, SetLastStates PROVE IInv'
<1>0. /\ TypeOK /\ pods \in [Pods -> Pod] /\ watcher_queue \in Seq(Reports) /\ watching \in BOOLEAN
      /\ faults \in 0..MaxFaults /\ tracked \in [Tasks -> States \cup {"cancelled"}]
      /\ ti \in [Tasks -> TaskInstance]
  BY DEF IInv, TypeOK
<1>1. /\ UNCHANGED <<ti, cluster, watcher, executor, waiting, pods_to_delete, faults, history>>
      /\ pc' = "ended"
      /\ tracked' = [t \in Tasks |-> IF \E p \in pods_to_delete : p[1] = t THEN LastState(t) ELSE tracked[t]]
  BY DEF SetLastStates
<1>2. UNCHANGED <<pods, created, watching, watcher_queue, task_queue>>
  BY <1>1 DEF cluster, watcher, executor
<1>3. QueueReady' /\ pods_to_delete' \subseteq Pods /\ pc' \in Places /\ pc' \notin Live
  BY <1>0, <1>1 DEF QueueReady, TypeOK, Places, Live
<1>4. \A p \in Pods : Exists(p)' => Exists(p) /\ (pods[p].deleting => pods'[p].deleting)
  BY <1>2 DEF Exists
<1>5. ASSUME NEW t \in Tasks
      PROVE  /\ LastState(t) \in States \cup {"cancelled"}
             /\ ti[t].state \in Finished /\ tracked[t] = ti[t].state => LastState(t) = ti[t].state
  <2>1. ti[t].state \in States /\ tracked[t] \in States \cup {"cancelled"}
    BY <1>0 DEF TaskInstance
  <2>. QED  BY <2>1 DEF LastState, Finished
<1>6. tracked' \in [Tasks -> States \cup {"cancelled"}]
  BY <1>0, <1>1, <1>5
<1>7. \A t : Clean(t)' = Clean(t)
  BY <1>1 DEF Clean, history
<1>8. TryLeft' /\ OutcomeTracked'
  BY <1>1, <1>5, <1>7 DEF IInv, TryLeft, OutcomeTracked
<1>9. \A t \in Tasks : Stage(t) => Stage(t)'
  BY <1>1, <1>2, SameAll, SameStage
<1>. QED  BY <1>0, <1>1, <1>2, <1>3, <1>4, <1>6, <1>8, <1>9, Frame

-----------------------------------------------------------------------------
(***************************************************************************)
(* Steps of the loop                                                       *)
(***************************************************************************)
\* delete_pod: the pod is forgotten, and it is being deleted, gone, or refused to be deleted.
LEMMA DeleteFacts ==
  ASSUME IInv, NEW p \in Pods, DeletePod(p), UNCHANGED created, ambiguous \subseteq ambiguous'
  PROVE  /\ pods' \in [Pods -> Pod] /\ watcher_queue' \in Seq(Reports) /\ faults' \in 0..MaxFaults
         /\ DOMAIN submitted_pods' = DOMAIN submitted_pods \ {p}
         /\ submitted_pods' \in [DOMAIN submitted_pods' -> [node : BOOLEAN, processed : BOOLEAN]]
         /\ \A q \in DOMAIN submitted_pods' : submitted_pods'[q] = submitted_pods[q]
         /\ undeleted' \subseteq Pods /\ CleanTasks' \subseteq CleanTasks /\ \A t : Clean(t)' => Clean(t)
         /\ Recorded' /\ LastTry' /\ Seen'
<1>0. /\ TypeOK /\ pods \in [Pods -> Pod] /\ watcher_queue \in Seq(Reports) /\ faults \in 0..MaxFaults
      /\ submitted_pods \in [DOMAIN submitted_pods -> [node : BOOLEAN, processed : BOOLEAN]]
      /\ undeleted \subseteq Pods
  BY DEF IInv, TypeOK
<1>1. submitted_pods' = [q \in DOMAIN submitted_pods \ {p} |-> submitted_pods[q]]
  BY DEF DeletePod, Without
<1>2. /\ DOMAIN submitted_pods' = DOMAIN submitted_pods \ {p}
      /\ submitted_pods' \in [DOMAIN submitted_pods' -> [node : BOOLEAN, processed : BOOLEAN]]
      /\ \A q \in DOMAIN submitted_pods' : submitted_pods'[q] = submitted_pods[q]
  BY <1>0, <1>1
<1>3. CASE /\ Exists(p) /\ ~pods[p].deleting
           /\ pods' = [pods EXCEPT ![p].deleting = TRUE]
           /\ Emit(Event(p, pods'[p], FALSE, FALSE))
           /\ UNCHANGED <<undeleted, faults>>
  <2>1. \A t : Clean(t)' => Clean(t)
    BY <1>3 DEF Clean
  <2>2. [pods[p] EXCEPT !.deleting = TRUE] \in Pod
    BY <1>0 DEF Pod
  <2>3. /\ pods' \in [Pods -> Pod] /\ pods'[p].deleting = TRUE /\ Exists(p)' = Exists(p)
        /\ \A q \in Pods \ {p} : pods'[q] = pods[q] /\ Exists(q)' = Exists(q)
    BY <1>0, <1>3, <2>2 DEF Exists, Pod
  <2>4. watcher_queue' \in Seq(Reports) /\ PodsIn(watcher_queue') \subseteq PodsIn(watcher_queue) \cup {p}
    BY <1>0, <1>3, EmitFacts
  <2>5. Recorded'
    BY <1>2, <1>3, <2>3 DEF IInv, Recorded
  <2>6. LastTry'
    BY <2>1, <2>3 DEF IInv, LastTry
  <2>7. Seen'
    BY <1>3, <2>1, <2>4 DEF IInv, Seen, LastTry, PodsIn
  <2>8. CleanTasks' \subseteq CleanTasks
    BY <2>1 DEF CleanTasks
  <2>. QED  BY <1>0, <1>2, <1>3, <2>1, <2>3, <2>4, <2>5, <2>6, <2>7, <2>8
<1>4. CASE /\ undeleted' = undeleted \cup {p} /\ Fault /\ UNCHANGED <<pods, watcher_queue>>
  <2>1. \A t : Clean(t)' => Clean(t)
    BY <1>4 DEF Clean
  <2>2. CleanTasks' \subseteq CleanTasks
    BY <2>1 DEF CleanTasks
  <2>3. Recorded'
    BY <1>2, <1>4 DEF IInv, Recorded, Exists
  <2>4. LastTry' /\ Seen'
    BY <1>4, <2>1 DEF IInv, LastTry, Seen, PodsIn, Exists
  <2>5. faults' \in 0..MaxFaults
    BY <1>0, <1>4, FaultFacts DEF Fault
  <2>. QED  BY <1>0, <1>2, <1>4, <2>1, <2>2, <2>3, <2>4, <2>5
<1>5. CASE /\ p \in DOMAIN submitted_pods => ~Exists(p) \/ pods[p].deleting
           /\ UNCHANGED <<pods, watcher_queue, undeleted, faults>>
  <2>1. \A t : Clean(t)' => Clean(t)
    BY <1>5 DEF Clean
  <2>2. CleanTasks' \subseteq CleanTasks
    BY <2>1 DEF CleanTasks
  <2>3. Recorded'
    BY <1>2, <1>5 DEF IInv, Recorded, Exists
  <2>4. LastTry' /\ Seen'
    BY <1>5, <2>1 DEF IInv, LastTry, Seen, PodsIn, Exists
  <2>. QED  BY <1>0, <1>2, <1>5, <2>1, <2>2, <2>3, <2>4
<1>. QED  BY <1>3, <1>4, <1>5 DEF DeletePod

\* _change_state hands a try that is sent, and over, to the job; no other task has part in it.
LEMMA ChangeStateFacts ==
  ASSUME IInv, NEW p \in Pods, NEW state, ChangeState(p, state), NEW u \in Tasks, u # p[1],
         UNCHANGED <<created, task_queue, waiting>>, ambiguous \subseteq ambiguous', ti'[u] = ti[u],
         Results(u)' = Results(u), Stage(u)
  PROVE  Stage(u)'
<1>0. p = <<p[1], p[2]>>
  BY PodFacts
<1>1. /\ DOMAIN submitted_pods' = DOMAIN submitted_pods \ {p}
      /\ \A q \in DOMAIN submitted_pods' : submitted_pods'[q] = submitted_pods[q]
  <2>1. DeletePod(p)
    BY DEF ChangeState
  <2>. QED  BY <2>1, DeleteFacts
<1>2. running' = running \ {p} /\ DOMAIN event_buffer' = DOMAIN event_buffer \cup {p}
  BY DEF ChangeState, With
<1>3. Running(u)' = Running(u) /\ Submitted(u)' = Submitted(u) /\ Queue(u)' = Queue(u) /\ Buffer(u)' = Buffer(u)
  BY <1>1, <1>2 DEF Running, Submitted, Queue, Buffer, Of, Range
<1>4. \A q \in Submitted(u) : Processed(q)' <=> Processed(q)
  BY <1>1, <1>3 DEF Submitted, Of, Processed
<1>5. Same(u)
  BY <1>3, <1>4 DEF Same
<1>. QED  BY <1>5, SameStage

\* Taking a result leaves the results of the other tasks, and none of this one.
LEMMA TailOnce ==
  ASSUME IInv, result_queue # <<>>, CleanTasks' \subseteq CleanTasks, result_queue' = Tail(result_queue)
  PROVE  /\ OneResult'
         /\ \A u \in Tasks : u # Head(result_queue).pod[1] => Results(u)' = Results(u)
         /\ \A u \in CleanTasks : u = Head(result_queue).pod[1] => Results(u)' = {}
<1>0. result_queue \in Seq(Reports)
  BY DEF IInv, TypeOK
<1>1. /\ Len(result_queue) \in Nat /\ DOMAIN result_queue = 1..Len(result_queue)
      /\ 1 \in DOMAIN result_queue /\ Head(result_queue) = result_queue[1]
  BY <1>0, SeqFacts
<1>2. /\ DOMAIN Tail(result_queue) = 1..(Len(result_queue) - 1)
      /\ \A i \in DOMAIN Tail(result_queue) :
           i + 1 \in DOMAIN result_queue /\ Tail(result_queue)[i] = result_queue[i + 1]
  BY <1>0, TailFacts
<1>3. PodsIn(result_queue) = {Head(result_queue).pod} \cup PodsIn(Tail(result_queue))
  BY <1>0, PodsInTail
<1>4. OneResult'
  <2> SUFFICES ASSUME NEW i \in DOMAIN Tail(result_queue), NEW j \in DOMAIN Tail(result_queue),
                      Tail(result_queue)[i].pod[1] \in CleanTasks,
                      Tail(result_queue)[i].pod[1] = Tail(result_queue)[j].pod[1]
               PROVE  i = j
    BY DEF OneResult
  <2>1. i + 1 = j + 1
    BY <1>2 DEF IInv, OneResult
  <2>. QED  BY <1>1, <1>2, <2>1
<1>5. \A u \in Tasks : u # Head(result_queue).pod[1] => Results(u)' = Results(u)
  BY <1>3 DEF Results, Of
<1>6. ASSUME NEW u \in CleanTasks, u = Head(result_queue).pod[1], NEW q \in Results(u)'
      PROVE  FALSE
  <2>1. PICK i \in DOMAIN Tail(result_queue) : q = Tail(result_queue)[i].pod /\ q[1] = u
    BY <1>6 DEF Results, Of, PodsIn
  <2>2. result_queue[i + 1].pod[1] = u /\ result_queue[1].pod[1] = u
    BY <1>1, <1>2, <1>6, <2>1
  <2>3. i + 1 = 1
    BY <1>1, <1>2, <1>6, <2>2 DEF IInv, OneResult
  <2>. QED  BY <1>1, <1>2, <2>3
<1>. QED  BY <1>4, <1>5, <1>6 DEF Results, Of

\* The executor's handling of one result.
LEMMA ProcessResultStep == ASSUME IInv, ProcessResult PROVE IInv'
<1> DEFINE p == Head(result_queue).pod
           t == p[1]
<1>0. /\ TypeOK /\ result_queue \in Seq(Reports) /\ result_queue # <<>> /\ pc = "results"
      /\ result_queue' = Tail(result_queue)
      /\ ChangeState(p, Head(result_queue).state) /\ DeletePod(p)
      /\ UNCHANGED <<database, created, watching, task_queue, job, ambiguous>>
  BY DEF IInv, TypeOK, ProcessResult, ChangeState
<1>1. /\ Tail(result_queue) \in Seq(Reports) /\ PodsIn(result_queue) = {p} \cup PodsIn(Tail(result_queue))
      /\ Head(result_queue) \in Reports /\ p \in Pods /\ Head(result_queue).state \in {"failed", "running", "finished"}
  BY <1>0, PodsInTail DEF Reports
<1>2. t \in Tasks /\ p = <<p[1], p[2]>>
  BY <1>1, PodFacts
<1>3. /\ running' = running \ {p} /\ event_buffer' = With(event_buffer, p, Head(result_queue).state)
      /\ UNCHANGED <<ti, tracked, waiting, pods_to_delete, pc>>
  BY <1>0 DEF ChangeState, database, job
<1> HIDE DEF p
<1>4. /\ pods' \in [Pods -> Pod] /\ watcher_queue' \in Seq(Reports) /\ faults' \in 0..MaxFaults
      /\ DOMAIN submitted_pods' = DOMAIN submitted_pods \ {p}
      /\ submitted_pods' \in [DOMAIN submitted_pods' -> [node : BOOLEAN, processed : BOOLEAN]]
      /\ \A q \in DOMAIN submitted_pods' : submitted_pods'[q] = submitted_pods[q]
      /\ undeleted' \subseteq Pods /\ CleanTasks' \subseteq CleanTasks /\ \A u : Clean(u)' => Clean(u)
      /\ Recorded' /\ LastTry' /\ Seen'
  BY <1>0, <1>1, DeleteFacts
<1>5. /\ DOMAIN event_buffer' = DOMAIN event_buffer \cup {p}
      /\ event_buffer' \in [DOMAIN event_buffer' -> {"failed", "running", "finished"}]
  BY <1>0, <1>1, <1>3 DEF With, TypeOK
<1>6. TypeOK'
  BY <1>0, <1>1, <1>3, <1>4, <1>5 DEF TypeOK
<1>7. /\ OneResult'
      /\ \A u \in Tasks : u # t => Results(u)' = Results(u)
      /\ \A u \in CleanTasks : u = t => Results(u)' = {}
  BY <1>0, <1>4, TailOnce DEF p
<1>8. ASSUME NEW u \in Tasks, Clean(u)' PROVE Stage(u)'
  <2>1. Clean(u) /\ Stage(u) /\ u \in CleanTasks
    BY <1>0, <1>4, <1>8 DEF IInv, Stages, Live, CleanTasks
  <2>2. CASE u # t
    BY <1>0, <1>1, <1>3, <1>7, <2>1, <2>2, ChangeStateFacts DEF p
  <2>3. CASE u = t
    <3>1. p \in Results(u)
      BY <1>1, <2>3 DEF Results, Of
    <3>2. Done(u) /\ p = This(u)
      BY <2>1, <3>1 DEF Stage, Idle, Queued, Sent, Done, Handed
    <3>3. Results(u)' = {}
      BY <1>7, <2>1, <2>3
    <3>4. Running(u)' = {} /\ Submitted(u)' = {} /\ Buffer(u)' = {p} /\ Queue(u)' = {} /\ This(u)' = p
      <4>1. Running(u) = {p} /\ Submitted(u) = {p} /\ Buffer(u) = {} /\ Queue(u) = {}
        BY <3>2 DEF Done
      <4>2. Running(u)' = {} /\ Submitted(u)' = {} /\ Buffer(u)' = {p}
        BY <1>3, <1>4, <1>5, <2>3, <4>1 DEF Running, Submitted, Buffer, Of
      <4>3. Queue(u)' = Queue(u) /\ This(u)' = This(u)
        BY <1>0 DEF Queue, This
      <4>. QED  BY <3>2, <4>1, <4>2, <4>3
    <3>5. u \in waiting' /\ ti'[u].state \in Settled /\ ti'[u].try = created'[u]
      BY <1>0, <1>3, <3>2 DEF Done
    <3>. QED  BY <3>3, <3>4, <3>5 DEF Stage, Handed
  <2>. QED  BY <2>2, <2>3
<1>9. Stages'
  BY <1>8 DEF Stages
<1>10. OneEntry' /\ QueueReady' /\ TryLeft' /\ TriesBounded' /\ OutcomeTracked'
  BY <1>0, <1>3, <1>4 DEF IInv, OneEntry, QueueReady, TryLeft, TriesBounded, OutcomeTracked
<1>. QED  BY <1>4, <1>6, <1>7, <1>9, <1>10 DEF IInv

\* process_watcher_task: the first report of the end of a try that is sent puts its result into
\* the queue, and settles the task.
LEMMA WatcherTaskStep == ASSUME IInv, ProcessWatcherTask PROVE IInv'
<1> PICK e, p, t : e = Head(watcher_queue) /\ p = e.pod /\ t = p[1]
  OBVIOUS
<1>0. /\ TypeOK /\ watcher_queue \in Seq(Reports) /\ watcher_queue # <<>> /\ pc = "events"
      /\ watcher_queue' = Tail(watcher_queue) /\ HandleEvent(e)
      /\ UNCHANGED <<cluster, watching, task_queue, running, event_buffer, job, faults, history>>
  BY DEF IInv, TypeOK, ProcessWatcherTask
<1>1. /\ Tail(watcher_queue) \in Seq(Reports) /\ PodsIn(watcher_queue) = {p} \cup PodsIn(Tail(watcher_queue))
      /\ e \in Reports /\ p \in Pods
  BY <1>0, PodsInTail DEF Reports
<1>2. t \in Tasks /\ p = <<p[1], p[2]>> /\ p[2] \in Nat
  BY <1>1, PodFacts
<1>3. UNCHANGED <<pods, created, waiting, pods_to_delete, pc, ambiguous, undeleted>>
  BY <1>0 DEF cluster, job, history
<1>4. CleanTasks' = CleanTasks /\ \A u : Clean(u)' = Clean(u)
  BY <1>3 DEF CleanTasks, Clean
<1>5. Seen' /\ p \in PodsIn(watcher_queue)
  <2>1. PodsIn(watcher_queue') \subseteq PodsIn(watcher_queue)
    BY <1>0, <1>1
  <2>. QED  BY <1>1, <1>3, <1>4, <2>1 DEF IInv, Seen
<1>6. /\ submitted_pods \in [DOMAIN submitted_pods -> [node : BOOLEAN, processed : BOOLEAN]]
      /\ DOMAIN submitted_pods \subseteq Pods /\ result_queue \in Seq(Reports)
      /\ ti \in [Tasks -> TaskInstance] /\ tracked \in [Tasks -> States \cup {"cancelled"}]
  BY <1>0 DEF TypeOK
\* What is left to show of each outcome.
<1>7. ASSUME ti' \in [Tasks -> TaskInstance], tracked' \in [Tasks -> States \cup {"cancelled"}],
             TryLeft', OutcomeTracked', OneResult',
             DOMAIN submitted_pods' = DOMAIN submitted_pods,
             submitted_pods' \in [DOMAIN submitted_pods -> [node : BOOLEAN, processed : BOOLEAN]],
             \A q \in DOMAIN submitted_pods \ {p} : submitted_pods'[q] = submitted_pods[q],
             result_queue' \in Seq(Reports), PodsIn(result_queue') \subseteq PodsIn(result_queue) \cup {p},
             PodsIn(result_queue) \subseteq PodsIn(result_queue'),
             \A u \in Tasks \ {t} : ti'[u] = ti[u],
             Clean(t) /\ Stage(t) => Stage(t)'
      PROVE  IInv'
  <2>1. TypeOK'
    BY <1>0, <1>1, <1>3, <1>6, <1>7 DEF TypeOK
  <2>2. ASSUME NEW u \in Tasks, u # t, Stage(u) PROVE Stage(u)'
    <3>1. /\ Running(u)' = Running(u) /\ Submitted(u)' = Submitted(u) /\ Queue(u)' = Queue(u)
          /\ Buffer(u)' = Buffer(u)
      BY <1>0, <1>7 DEF Running, Submitted, Queue, Buffer, Of, Range
    <3>2. Results(u)' = Results(u)
      BY <1>7, <2>2 DEF Results, Of
    <3>3. \A q \in Submitted(u) : Processed(q)' <=> Processed(q)
      BY <1>7, <2>2 DEF Submitted, Of, Processed
    <3>4. Same(u)
      BY <1>3, <1>7, <2>2, <3>1, <3>2, <3>3 DEF Same
    <3>. QED  BY <2>2, <3>4, SameStage
  <2>3. Stages'
    <3>1. ASSUME NEW u \in Tasks, Clean(u)' PROVE Stage(u)'
      <4>1. Clean(u) /\ Stage(u)
        BY <1>0, <1>4, <3>1 DEF IInv, Stages, Live
      <4>. QED  BY <1>7, <2>2, <4>1
    <3>. QED  BY <3>1 DEF Stages
  <2>4. OneEntry' /\ QueueReady' /\ TriesBounded'
    BY <1>0, <1>3, <1>4 DEF IInv, OneEntry, QueueReady, TriesBounded
  <2>5. Recorded' /\ LastTry'
    BY <1>3, <1>4, <1>7 DEF IInv, Recorded, LastTry, Exists
  <2>. QED  BY <1>5, <1>7, <2>1, <2>3, <2>4, <2>5 DEF IInv
<1>8. ASSUME UNCHANGED database PROVE UNCHANGED <<ti, tracked>> /\ TryLeft' /\ OutcomeTracked'
  BY <1>4, <1>8 DEF IInv, database, TryLeft, OutcomeTracked
<1>9. ASSUME UNCHANGED result_queue
      PROVE  OneResult' /\ PodsIn(result_queue') = PodsIn(result_queue) /\ Results(t)' = Results(t)
  BY <1>4, <1>9 DEF IInv, OneResult, PodsIn, Results
\* Of a clean task the pod is that of the try that is sent.
<1>10. ASSUME Clean(t), Stage(t), p \in DOMAIN submitted_pods, ~Processed(p) PROVE Sent(t) /\ p = This(t)
  <2>1. p \in Submitted(t)
    BY <1>10 DEF Submitted, Of
  <2>2. p[2] <= created[t] /\ created[t] \in Nat
    BY <1>0, <1>2, <1>5, <1>10 DEF IInv, Seen, TypeOK
  <2>3. p # NextTry(t)
    <3>1. NextTry(t)[2] = created[t] + 1
      BY DEF NextTry
    <3>. QED  BY <1>2, <2>2, <3>1
  <2>. QED  BY <1>10, <2>1, <2>3 DEF Stage, Idle, Queued, Sent, Done, Handed
<1>11. /\ Running(t)' = Running(t) /\ Queue(t)' = Queue(t) /\ Buffer(t)' = Buffer(t) /\ This(t)' = This(t)
       /\ created'[t] = created[t]
  BY <1>0, <1>3 DEF Running, Queue, Buffer, Of, Range, This
<1>12. CASE UNCHANGED <<database, submitted_pods, result_queue>>
  <2>1. Stage(t) => Stage(t)'
    <3>1. Submitted(t)' = Submitted(t) /\ \A q \in Submitted(t) : Processed(q)' <=> Processed(q)
      BY <1>12 DEF Submitted, Processed, Of
    <3>2. Same(t)
      BY <1>3, <1>8, <1>9, <1>11, <1>12, <3>1 DEF Same
    <3>. QED  BY <3>2, SameStage
  <2>. QED  BY <1>6, <1>7, <1>8, <1>9, <1>12, <2>1
<1>13. CASE /\ p \in DOMAIN submitted_pods /\ submitted_pods' = [submitted_pods EXCEPT ![p].node = TRUE]
            /\ UNCHANGED <<database, result_queue>>
  <2>1. [submitted_pods[p] EXCEPT !.node = TRUE] \in [node : BOOLEAN, processed : BOOLEAN]
    BY <1>6, <1>13
  <2>2. /\ DOMAIN submitted_pods' = DOMAIN submitted_pods
        /\ submitted_pods' \in [DOMAIN submitted_pods -> [node : BOOLEAN, processed : BOOLEAN]]
        /\ \A q \in DOMAIN submitted_pods \ {p} : submitted_pods'[q] = submitted_pods[q]
        /\ submitted_pods'[p].processed = submitted_pods[p].processed
    BY <1>6, <1>13, <2>1
  <2>3. Stage(t) => Stage(t)'
    <3>1. Submitted(t)' = Submitted(t) /\ \A q \in Submitted(t) : Processed(q)' <=> Processed(q)
      BY <2>2 DEF Submitted, Processed, Of
    <3>2. Same(t)
      BY <1>3, <1>8, <1>9, <1>11, <1>13, <3>1 DEF Same
    <3>. QED  BY <3>2, SameStage
  <2>. QED  BY <1>6, <1>7, <1>8, <1>9, <1>13, <2>2, <2>3
<1>14. CASE /\ p \in DOMAIN submitted_pods /\ ~submitted_pods[p].processed
            /\ ProcessPodSuccess(t) \/ ProcessPodFailed(t)
            /\ PutResult(e)
  <2>1. /\ result_queue' = Append(result_queue, e)
        /\ submitted_pods' = [submitted_pods EXCEPT ![p].processed = TRUE]
    BY <1>14 DEF PutResult
  <2>2. [submitted_pods[p] EXCEPT !.processed = TRUE] \in [node : BOOLEAN, processed : BOOLEAN]
    BY <1>6, <1>14
  <2>3. /\ DOMAIN submitted_pods' = DOMAIN submitted_pods
        /\ submitted_pods' \in [DOMAIN submitted_pods -> [node : BOOLEAN, processed : BOOLEAN]]
        /\ \A q \in DOMAIN submitted_pods \ {p} : submitted_pods'[q] = submitted_pods[q]
        /\ submitted_pods'[p].processed
    BY <1>6, <1>14, <2>1, <2>2
  <2>4. /\ result_queue' \in Seq(Reports) /\ Len(result_queue) \in Nat
        /\ DOMAIN result_queue = 1..Len(result_queue) /\ DOMAIN result_queue' = 1..(Len(result_queue) + 1)
        /\ \A i \in DOMAIN result_queue : i \in DOMAIN result_queue' /\ result_queue'[i] = result_queue[i]
        /\ result_queue'[Len(result_queue) + 1] = e
    BY <1>1, <1>6, <2>1, AppendProperties, LenProperties
  <2>5. PodsIn(result_queue') = PodsIn(result_queue) \cup {p}
    BY <2>4 DEF PodsIn
  <2>6. /\ Writes(t) /\ ti'[t].state \in Settled
        /\ ti'[t].try = IF ti[t].state = "queued" THEN ti[t].try + 1 ELSE ti[t].try
        /\ UNCHANGED <<ti, tracked>> \/ tracked'[t] = ti'[t].state
    BY <1>2, <1>14, PodFailedFacts
  <2>7. TryLeft' /\ OutcomeTracked'
    BY <1>2, <1>4, <2>6, WritesFacts
  <2>8. ASSUME Clean(t) PROVE Sent(t) /\ p = This(t)
    <3>1. Stage(t)
      BY <1>0, <1>2, <2>8 DEF IInv, Stages, Live
    <3>. QED  BY <1>10, <1>14, <2>8, <3>1 DEF Processed
  <2>9. OneResult'
    <3>1. t \in CleanTasks => \A i \in DOMAIN result_queue : result_queue[i].pod[1] # t
      <4>1. t \in CleanTasks => Results(t) = {}
        BY <2>8 DEF CleanTasks, Sent
      <4>. QED  BY <4>1 DEF Results, Of, PodsIn
    <3> SUFFICES ASSUME NEW i \in DOMAIN result_queue', NEW j \in DOMAIN result_queue',
                        result_queue'[i].pod[1] \in CleanTasks,
                        result_queue'[i].pod[1] = result_queue'[j].pod[1]
                 PROVE  i = j
      BY <1>4 DEF OneResult
    <3>2. /\ i \in DOMAIN result_queue \/ (i = Len(result_queue) + 1 /\ result_queue'[i].pod[1] = t)
          /\ j \in DOMAIN result_queue \/ (j = Len(result_queue) + 1 /\ result_queue'[j].pod[1] = t)
      BY <2>4
    <3>3. CASE i \in DOMAIN result_queue /\ j \in DOMAIN result_queue
      BY <2>4, <3>3 DEF IInv, OneResult
    <3>4. CASE i \in DOMAIN result_queue /\ j = Len(result_queue) + 1 /\ result_queue'[j].pod[1] = t
      BY <2>4, <3>1, <3>4
    <3>5. CASE j \in DOMAIN result_queue /\ i = Len(result_queue) + 1 /\ result_queue'[i].pod[1] = t
      BY <2>4, <3>1, <3>5
    <3>. QED  BY <3>2, <3>3, <3>4, <3>5
  <2>10. ASSUME Clean(t), Stage(t) PROVE Stage(t)'
    <3>1. Sent(t) /\ p = This(t)
      BY <2>8, <2>10
    <3>2. Submitted(t)' = {This(t)} /\ Processed(This(t))' /\ Results(t)' = {This(t)}
      <4>1. Submitted(t)' = Submitted(t)
        BY <2>3 DEF Submitted, Of
      <4>2. Results(t)' = Results(t) \cup {p}
        BY <2>5 DEF Results, Of
      <4>3. submitted_pods'[This(t)].processed
        BY <2>3, <3>1
      <4>. QED  BY <1>11, <3>1, <4>1, <4>2, <4>3 DEF Sent, Processed
    <3>3. ti'[t].try = created[t]
      BY <2>6, <3>1 DEF Sent, Settled
    <3>4. Done(t)'
      BY <1>3, <1>11, <2>6, <3>1, <3>2, <3>3 DEF Done, Sent
    <3>. QED  BY <3>4 DEF Stage
  <2>. QED  BY <1>7, <2>3, <2>4, <2>5, <2>6, <2>7, <2>9, <2>10 DEF Writes
<1>. QED  BY <1>0, <1>12, <1>13, <1>14 DEF HandleEvent

\* The queue without its head, and with the head put to its end.
Single(queue, tasks) ==
  \A i, j \in DOMAIN queue : queue[i][1] \in tasks /\ queue[i][1] = queue[j][1] => i = j

\* run_next takes the head of the task queue, or puts it back at its end.
LEMMA QueueFacts ==
  ASSUME NEW s \in Seq(Pods), s # <<>>, NEW tasks, Single(s, tasks)
  PROVE  /\ Head(s) \in Pods /\ Tail(s) \in Seq(Pods) /\ Append(Tail(s), Head(s)) \in Seq(Pods)
         /\ Range(s) = Range(Tail(s)) \cup {Head(s)} /\ Range(Append(Tail(s), Head(s))) = Range(s)
         /\ Head(s)[1] \in tasks => \A q \in Range(Tail(s)) : q[1] # Head(s)[1]
         /\ Single(Tail(s), tasks) /\ Single(Append(Tail(s), Head(s)), tasks)
<1> DEFINE h == Head(s)
           r == Tail(s)
           a == Append(r, h)
<1>1. Len(s) \in Nat /\ DOMAIN s = 1..Len(s) /\ 1 \in DOMAIN s /\ h = s[1] /\ h \in Pods
  BY SeqFacts
<1>2. /\ r \in Seq(Pods) /\ DOMAIN r = 1..(Len(s) - 1) /\ Len(s) > 0
      /\ \A i \in DOMAIN r : i + 1 \in DOMAIN s /\ r[i] = s[i + 1]
  BY TailFacts
<1> HIDE DEF h, r
<1>3. Len(r) \in Nat /\ DOMAIN r = 1..Len(r)
  BY <1>2, LenProperties
<1>4. /\ a \in Seq(Pods) /\ DOMAIN a = 1..(Len(r) + 1) /\ a[Len(r) + 1] = h
      /\ \A i \in DOMAIN r : a[i] = r[i]
  BY <1>1, <1>2, <1>3, AppendProperties, LenProperties
<1> HIDE DEF a
<1>5. ASSUME NEW i \in DOMAIN s PROVE s[i] \in Range(r) \cup {h}
  <2>1. CASE i = 1
    BY <1>1, <2>1
  <2>2. CASE i # 1
    <3>1. i - 1 \in DOMAIN r /\ (i - 1) + 1 = i
      BY <1>1, <1>2, <2>2
    <3>2. r[i - 1] = s[(i - 1) + 1]
      BY <1>2, <3>1
    <3>. QED  BY <3>1, <3>2 DEF Range
  <2>. QED  BY <2>1, <2>2
<1>6. Range(s) = Range(r) \cup {h}
  <2>1. Range(s) \subseteq Range(r) \cup {h}
    BY <1>5 DEF Range
  <2>2. h \in Range(s)
    BY <1>1 DEF Range
  <2>3. Range(r) \subseteq Range(s)
    BY <1>2 DEF Range
  <2>. QED  BY <2>1, <2>2, <2>3
<1>7. Range(a) = Range(r) \cup {h}
  <2>1. \A i \in DOMAIN a : i \in DOMAIN r \/ i = Len(r) + 1
    BY <1>3, <1>4
  <2>2. \A i \in DOMAIN r : i \in DOMAIN a
    BY <1>3, <1>4
  <2>3. Len(r) + 1 \in DOMAIN a
    BY <1>3, <1>4
  <2>. QED  BY <1>4, <2>1, <2>2, <2>3 DEF Range
<1>8. ASSUME h[1] \in tasks, NEW i \in DOMAIN r, r[i][1] = h[1] PROVE FALSE
  <2>1. i + 1 = 1
    BY <1>1, <1>2, <1>8 DEF Single
  <2>. QED  BY <1>1, <1>2, <2>1
<1>9. Single(r, tasks)
  <2> SUFFICES ASSUME NEW i \in DOMAIN r, NEW j \in DOMAIN r, r[i][1] \in tasks, r[i][1] = r[j][1]
               PROVE  i = j
    BY DEF Single
  <2>1. i + 1 = j + 1
    BY <1>2 DEF Single
  <2>. QED  BY <1>1, <1>2, <2>1
<1>10. Single(a, tasks)
  <2> SUFFICES ASSUME NEW i \in DOMAIN a, NEW j \in DOMAIN a, a[i][1] \in tasks, a[i][1] = a[j][1]
               PROVE  i = j
    BY DEF Single
  <2>1. (i \in DOMAIN r \/ i = Len(r) + 1) /\ (j \in DOMAIN r \/ j = Len(r) + 1)
    BY <1>3, <1>4
  <2>2. CASE i \in DOMAIN r /\ j \in DOMAIN r
    BY <1>4, <1>9, <2>2 DEF Single
  <2>3. CASE i \in DOMAIN r /\ j = Len(r) + 1
    BY <1>4, <1>8, <2>3
  <2>4. CASE j \in DOMAIN r /\ i = Len(r) + 1
    BY <1>4, <1>8, <2>4
  <2>. QED  BY <2>1, <2>2, <2>3, <2>4
<1>. QED  BY <1>1, <1>2, <1>4, <1>6, <1>7, <1>8, <1>9, <1>10 DEF h, r, a, Range

\* The pod that create_namespaced_pod makes for a clean task is that of its next try.
LEMMA CreateFacts ==
  ASSUME IInv, NEW p \in Pods, CreatePod(p), CleanTasks' \subseteq CleanTasks, UNCHANGED undeleted,
         Clean(p[1]) => p = NextTry(p[1]) /\ Queued(p[1]),
         DOMAIN submitted_pods' = DOMAIN submitted_pods \cup {p}
  PROVE  /\ pods' \in [Pods -> Pod] /\ watcher_queue' \in Seq(Reports) /\ created' \in [Tasks -> Nat]
         /\ created'[p[1]] = created[p[1]] + 1 /\ \A u \in Tasks \ {p[1]} : created'[u] = created[u]
         /\ Recorded' /\ LastTry' /\ Seen' /\ TriesBounded'
<1>0. /\ TypeOK /\ pods \in [Pods -> Pod] /\ created \in [Tasks -> Nat] /\ ti \in [Tasks -> TaskInstance]
      /\ p[1] \in Tasks /\ p[2] \in Nat /\ p = <<p[1], p[2]>> /\ created[p[1]] \in Nat
  BY PodFacts DEF IInv, TypeOK
<1> DEFINE new == [NoPod EXCEPT !.phase = "Pending"]
<1>1. new \in Pod /\ ~new.deleting /\ new.phase = "Pending"
  BY DEF NoPod, Pod
<1> HIDE DEF new
<1>2. ~Exists(p) /\ pods' = [pods EXCEPT ![p] = new] /\ created' = [created EXCEPT ![p[1]] = @ + 1]
      /\ Emit(Event(p, pods'[p], FALSE, FALSE))
  BY DEF CreatePod, new
<1>3. /\ pods' \in [Pods -> Pod] /\ pods'[p] = new /\ \A q \in Pods \ {p} : pods'[q] = pods[q]
      /\ created' \in [Tasks -> Nat] /\ created'[p[1]] = created[p[1]] + 1
      /\ \A u \in Tasks \ {p[1]} : created'[u] = created[u]
  BY <1>0, <1>1, <1>2
<1>4. watcher_queue' \in Seq(Reports) /\ PodsIn(watcher_queue') \subseteq PodsIn(watcher_queue) \cup {p}
  BY <1>0, <1>2, EmitFacts
<1>5. \A u \in Tasks : Clean(u)' => Clean(u)
  BY DEF CleanTasks
<1>6. Recorded'
  BY <1>3 DEF IInv, Recorded, Exists
<1>7. ASSUME Clean(p[1]) PROVE p[2] = created'[p[1]]
  <2>1. p[2] = created[p[1]] + 1
    BY <1>0, <1>7 DEF NextTry
  <2>. QED  BY <1>3, <2>1
<1>8. ASSUME NEW q \in Pods, Exists(q)', Clean(q[1])'
      PROVE  q[2] <= created'[q[1]] /\ (pods'[q].deleting \/ q[2] = created'[q[1]])
  <2>0. q[1] \in Tasks /\ q[2] \in Nat /\ Clean(q[1]) /\ q = <<q[1], q[2]>>
    BY <1>5, <1>8, PodFacts
  <2>1. CASE q = p
    BY <1>0, <1>7, <2>0, <2>1
  <2>2. CASE q # p
    <3>1. Exists(q) /\ pods'[q] = pods[q]
      BY <1>3, <1>8, <2>2 DEF Exists
    <3>2. q[2] <= created[q[1]] /\ (pods[q].deleting \/ q[2] = created[q[1]]) /\ created[q[1]] \in Nat
      BY <1>0, <2>0, <3>1 DEF IInv, LastTry
    <3>3. CASE q[1] # p[1]
      BY <1>3, <2>0, <3>1, <3>2, <3>3
    <3>4. CASE q[1] = p[1]
      <4>1. pods[q].deleting
        <5> SUFFICES ASSUME ~pods[q].deleting PROVE FALSE
          OBVIOUS
        <5>1. q \in Submitted(q[1])
          BY <2>0, <3>1 DEF IInv, Recorded, Clean, Submitted, Of
        <5>2. q = NextTry(q[1])
          BY <2>0, <3>4, <5>1 DEF Queued
        <5>3. q[2] = created[q[1]] + 1
          BY <5>2 DEF NextTry
        <5>. QED  BY <3>2, <5>3
      <4>. QED  BY <1>0, <1>3, <2>0, <3>1, <3>2, <3>4, <4>1
    <3>. QED  BY <3>3, <3>4
  <2>. QED  BY <2>1, <2>2
<1>9. LastTry'
  BY <1>8 DEF LastTry
<1>10. Seen'
  <2> SUFFICES ASSUME NEW q \in PodsIn(watcher_queue'), Clean(q[1])' PROVE q[2] <= created'[q[1]]
    BY DEF Seen
  <2>1. CASE q = p
    BY <1>0, <1>3, <1>5, <1>7, <2>1
  <2>2. CASE q # p
    <3>1. q \in PodsIn(watcher_queue)
      BY <1>4, <2>2
    <3>2. q \in Pods
      <4>1. watcher_queue \in Seq(Reports)
        BY <1>0 DEF TypeOK
      <4>2. PICK i \in DOMAIN watcher_queue : q = watcher_queue[i].pod
        BY <3>1 DEF PodsIn
      <4>3. watcher_queue[i] \in Reports
        BY <4>1, <4>2, SeqFacts
      <4>. QED  BY <4>2, <4>3 DEF Reports
    <3>3. q[1] \in Tasks /\ q[2] \in Nat /\ Clean(q[1])
      BY <1>5, <3>2, PodFacts
    <3>4. q[2] <= created[q[1]] /\ created[q[1]] \in Nat
      BY <1>0, <3>1, <3>3 DEF IInv, Seen
    <3>. QED  BY <1>3, <3>3, <3>4
  <2>. QED  BY <2>1, <2>2
<1>11. TriesBounded'
  <2>1. Clean(p[1]) => created[p[1]] <= MaxRetries /\ MaxRetries \in Nat
    BY <1>0, MaxRetriesFacts DEF IInv, Queued, TryLeft
  <2>. QED  BY <1>0, <1>3, <1>5, <2>1 DEF IInv, TriesBounded
<1>. QED  BY <1>3, <1>4, <1>6, <1>9, <1>10, <1>11

\* run_next: a pod is recorded and sent; a request that failed is queued again.
LEMMA RunNextStep == ASSUME IInv, RunNext PROVE IInv'
<1> PICK p, t : p = Head(task_queue) /\ t = p[1]
  OBVIOUS
<1> DEFINE fresh == [node |-> FALSE, processed |-> FALSE]
<1>0. /\ TypeOK /\ pc = "run" /\ task_queue # <<>> /\ task_queue \in Seq(Pods)
      /\ submitted_pods' = With(submitted_pods, p, fresh) /\ Submit(p) /\ pc' = AfterRun
      /\ UNCHANGED <<ti, watching, result_queue, running, event_buffer, waiting, pods_to_delete, undeleted>>
  BY DEF IInv, TypeOK, RunNext, QueueReady
<1>1. /\ p \in Pods /\ Tail(task_queue) \in Seq(Pods) /\ Append(Tail(task_queue), p) \in Seq(Pods)
      /\ Range(task_queue) = Range(Tail(task_queue)) \cup {p}
      /\ Range(Append(Tail(task_queue), p)) = Range(task_queue)
      /\ t \in CleanTasks => \A q \in Range(Tail(task_queue)) : q[1] # t
      /\ Single(Tail(task_queue), CleanTasks) /\ Single(Append(Tail(task_queue), p), CleanTasks)
  <2>1. Single(task_queue, CleanTasks)
    BY DEF IInv, OneEntry, Single
  <2>. QED  BY <1>0, <2>1, QueueFacts
<1>2. t \in Tasks /\ p = <<t, p[2]>> /\ p[2] \in Nat /\ fresh \in [node : BOOLEAN, processed : BOOLEAN]
  BY <1>1, PodFacts
<1>3. /\ DOMAIN submitted_pods' = DOMAIN submitted_pods \cup {p} /\ submitted_pods'[p] = fresh
      /\ \A q \in DOMAIN submitted_pods \ {p} : submitted_pods'[q] = submitted_pods[q]
      /\ submitted_pods' \in [DOMAIN submitted_pods' -> [node : BOOLEAN, processed : BOOLEAN]]
  BY <1>0, <1>2 DEF TypeOK, With
<1>4. ASSUME Clean(t) PROVE Queued(t) /\ p = NextTry(t)
  <2>1. Stage(t) /\ p \in Queue(t)
    BY <1>0, <1>1, <1>2, <1>4 DEF IInv, Stages, Live, Queue, Of
  <2>. QED  BY <2>1 DEF Stage, Idle, Queued, Sent, Done, Handed
<1>5. pc' \in Places /\ pc' # "run" /\ pc \in Live
  BY <1>0 DEF AfterRun, Places, Live
<1>6. ambiguous' = ambiguous \/ ambiguous' = ambiguous \cup {t}
  BY <1>0 DEF Submit
<1>7. CleanTasks' \subseteq CleanTasks /\ (\A u : Clean(u)' => Clean(u)) /\ ambiguous' \subseteq Tasks
  <2>1. \A u : Clean(u)' => Clean(u)
    BY <1>0, <1>6 DEF Clean
  <2>. QED  BY <1>0, <1>2, <1>6, <2>1 DEF CleanTasks, TypeOK
<1>8. /\ faults' \in 0..MaxFaults
      /\ tracked' \in [Tasks -> States \cup {"cancelled"}] /\ \A u \in Tasks \ {t} : tracked'[u] = tracked[u]
      /\ task_queue' = Tail(task_queue) \/ task_queue' = Append(Tail(task_queue), p)
  <2>1. Fault \/ Faults(2) \/ faults' = faults
    BY <1>0 DEF Submit
  <2>2. faults' \in 0..MaxFaults
    BY <1>0, <2>1, FaultFacts DEF Fault, TypeOK
  <2>3. \E state \in {"queued", "failed"} : tracked' = [tracked EXCEPT ![t] = state]
    BY <1>0 DEF Submit, Track
  <2>4. task_queue' = Tail(task_queue) \/ task_queue' = Append(Tail(task_queue), p)
    BY <1>0 DEF Submit, Requeue
  <2>. QED  BY <1>0, <1>2, <2>2, <2>3, <2>4 DEF TypeOK, States
<1>9. /\ pods' \in [Pods -> Pod] /\ watcher_queue' \in Seq(Reports) /\ created' \in [Tasks -> Nat]
      /\ \A u \in Tasks \ {t} : created'[u] = created[u]
      /\ Recorded' /\ LastTry' /\ Seen' /\ TriesBounded'
  <2>1. CASE CreatePod(p)
    BY <1>0, <1>1, <1>3, <1>4, <1>7, <2>1, CreateFacts
  <2>2. CASE UNCHANGED <<cluster, watcher_queue>>
    <3>1. UNCHANGED <<pods, created, watcher_queue>>
      BY <2>2 DEF cluster
    <3>. QED  BY <1>0, <1>3, <1>7, <3>1 DEF IInv, TypeOK, Recorded, LastTry, Seen, TriesBounded, Exists
  <2>. QED  BY <1>0, <2>1, <2>2 DEF Submit
<1>10. TypeOK'
  <2>1. task_queue' \in Seq(Pods) /\ DOMAIN submitted_pods' \subseteq Pods
    BY <1>0, <1>1, <1>3, <1>8 DEF TypeOK
  <2>. QED  BY <1>0, <1>3, <1>5, <1>7, <1>8, <1>9, <2>1 DEF TypeOK, Places
<1>11. OneEntry'
  <2>1. Single(task_queue', CleanTasks)
    BY <1>1, <1>8
  <2>. QED  BY <1>7, <2>1 DEF OneEntry, Single
<1>12. OneResult' /\ QueueReady' /\ TryLeft'
  BY <1>0, <1>5, <1>7 DEF IInv, OneResult, QueueReady, TryLeft
<1>13. OutcomeTracked'
  <2>1. Clean(t) => ti[t].state \notin Finished
    BY <1>4 DEF Queued, Finished
  <2>. QED  BY <1>0, <1>7, <1>8, <2>1 DEF IInv, OutcomeTracked
<1>14. ASSUME NEW u \in Tasks PROVE Running(u)' = Running(u) /\ Results(u)' = Results(u) /\ Buffer(u)' = Buffer(u)
  BY <1>0 DEF Running, Results, Buffer, Of, PodsIn
<1>15. ASSUME NEW u \in Tasks, u # t, Stage(u) PROVE Stage(u)'
  <2>1. Submitted(u)' = Submitted(u) /\ Queue(u)' = Queue(u)
    <3>1. Range(task_queue') \cup {p} = Range(task_queue)
      BY <1>1, <1>8
    <3>. QED  BY <1>3, <1>15, <3>1 DEF Submitted, Queue, Of
  <2>2. \A q \in Submitted(u) : Processed(q)' <=> Processed(q)
    BY <1>3, <1>15 DEF Submitted, Of, Processed
  <2>3. Same(u)
    BY <1>0, <1>9, <1>14, <1>15, <2>1, <2>2 DEF Same
  <2>. QED  BY <1>15, <2>3, SameStage
<1>16. ASSUME Clean(t)' PROVE Stage(t)'
  <2>1. Queued(t) /\ p = NextTry(t) /\ t \in CleanTasks /\ t \notin ambiguous'
    BY <1>2, <1>4, <1>7, <1>16 DEF CleanTasks, Clean
  <2>2. Submitted(t)' = Submitted(t) \cup {p}
    BY <1>3 DEF Submitted, Of
  <2>3. Submitted(t)' = {p}
    BY <2>1, <2>2 DEF Queued
  <2>4. CASE CreatePod(p) /\ task_queue' = Tail(task_queue)
    <3>1. created'[t] = created[t] + 1
      BY <1>0, <1>1, <1>3, <1>4, <1>7, <2>4, CreateFacts
    <3>2. This(t)' = p
      BY <2>1, <3>1 DEF This, NextTry
    <3>3. Queue(t)' = {}
      BY <1>1, <2>1, <2>4 DEF Queue, Of
    <3>4. ~Processed(This(t))'
      BY <1>3, <3>2 DEF Processed
    <3>5. Sent(t)'
      BY <1>0, <1>2, <1>14, <2>1, <2>3, <3>1, <3>2, <3>3, <3>4 DEF Sent, Queued
    <3>. QED  BY <3>5 DEF Stage
  <2>5. CASE UNCHANGED cluster /\ task_queue' = Append(Tail(task_queue), p)
    <3>1. NextTry(t)' = NextTry(t) /\ created' = created
      BY <2>5 DEF NextTry, cluster
    <3>2. Queue(t)' = Queue(t)
      BY <1>1, <2>5 DEF Queue, Of
    <3>3. Queued(t)'
      BY <1>0, <1>2, <1>14, <2>1, <2>3, <3>1, <3>2 DEF Queued
    <3>. QED  BY <3>3 DEF Stage
  <2>. QED  BY <1>0, <2>1, <2>4, <2>5 DEF Submit, Requeue
<1>17. Stages'
  <2>1. ASSUME NEW u \in Tasks, Clean(u)' PROVE Stage(u)'
    <3>1. Clean(u) /\ Stage(u)
      BY <1>5, <1>7, <2>1 DEF IInv, Stages
    <3>. QED  BY <1>15, <1>16, <2>1, <3>1
  <2>. QED  BY <2>1 DEF Stages
<1>. QED  BY <1>9, <1>10, <1>11, <1>12, <1>13, <1>17 DEF IInv

\* A sequence of the elements of a set has each of them once.
LEMMA SetToSeqsFacts ==
  ASSUME NEW S, IsFiniteSet(S), NEW q \in SetToSeqs(S)
  PROVE  q \in Seq(S) /\ Range(q) = S /\ \A i, j \in DOMAIN q : q[i] = q[j] => i = j
<1>1. PICK n \in Nat : n = Cardinality(S)
  BY FS_CardinalityType
<1>2. q \in [1..n -> S] /\ \A i, j \in 1..n : i # j => q[i] # q[j]
  BY <1>1 DEF SetToSeqs
<1>3. q \in Injection(1..n, S)
  BY <1>2 DEF Injection, IsInjective
<1>4. Cardinality(1..n) = n
  <2>1. Cardinality(1..n) = IF 1 > n THEN 0 ELSE n - 1 + 1
    BY FS_Interval
  <2>. QED  BY <2>1
<1>5. q \in Surjection(1..n, S)
  BY <1>1, <1>3, <1>4, FS_Injection
<1>6. \A x \in S : \E i \in 1..n : q[i] = x
  BY <1>5 DEF Surjection
<1>. QED  BY <1>2, <1>6, SeqDef DEF Range

\* The tasks that are queued were idle, and each gets its next try.
LEMMA ScheduleStep == ASSUME IInv, NEW S \in SUBSET Tasks, ScheduleTasks(S) PROVE IInv'
<1> PICK K : K = {Key(t) : t \in S}
  OBVIOUS
<1>0. /\ TypeOK /\ pc = "schedule" /\ task_queue \in Seq(Pods)
      /\ ti \in [Tasks -> TaskInstance]
      /\ \A t \in S : Runnable(t)
      /\ ti' = [t \in Tasks |-> IF t \in S THEN [ti[t] EXCEPT !.state = "queued"] ELSE ti[t]]
      /\ waiting' = waiting \cup S /\ running' = running \cup K
      /\ pc' \in {"events", "health"}
      /\ UNCHANGED <<tracked, cluster, watcher, submitted_pods, result_queue, event_buffer,
                     pods_to_delete, faults, history>>
  BY DEF IInv, TypeOK, ScheduleTasks
<1>1. PICK q \in SetToSeqs(K) : task_queue' = task_queue \o q
  BY DEF ScheduleTasks
<1>2. UNCHANGED <<pods, created, watching, watcher_queue, ambiguous, undeleted>>
  BY <1>0 DEF cluster, watcher, history
<1>3. CleanTasks' = CleanTasks /\ \A u : Clean(u)' = Clean(u)
  BY <1>2 DEF CleanTasks, Clean
\* The keys
<1>4. ASSUME NEW t \in S
      PROVE  /\ t \in Tasks /\ t \notin waiting /\ ti[t].state \in {"scheduled", "up_for_retry"}
             /\ Key(t) = <<t, ti[t].try + 1>> /\ Key(t) \in Pods
  <2>1. /\ t \in Tasks /\ t \notin waiting /\ ti[t].state \in {"scheduled", "up_for_retry"}
        /\ ti[t].try \in 0..(MaxRetries + 1) /\ MaxRetries \in Nat
    BY <1>0, MaxRetriesFacts DEF Runnable, TaskInstance
  <2>2. ti[t].try <= MaxRetries /\ Key(t) = <<t, ti[t].try + 1>>
    BY <2>1 DEF IInv, TryLeft, Key, TryNumber
  <2>3. ti[t].try + 1 \in Nat /\ ti[t].try + 1 > 0 /\ ti[t].try + 1 <= MaxRetries + 1
    BY <2>1, <2>2
  <2>. QED  BY <2>1, <2>2, <2>3, PodFacts
<1>5. K \subseteq Pods /\ IsFiniteSet(K)
  <2>1. K \subseteq Pods
    BY <1>4
  <2>. QED  BY <2>1, PodFacts, FS_Subset
<1>6. \A k \in K : k[1] \in S /\ k = <<k[1], ti[k[1]].try + 1>>
  BY <1>4
<1>7. q \in Seq(Pods) /\ Range(q) = K /\ \A i, j \in DOMAIN q : q[i] = q[j] => i = j
  <2>1. q \in Seq(K) /\ Range(q) = K /\ \A i, j \in DOMAIN q : q[i] = q[j] => i = j
    BY <1>5, SetToSeqsFacts
  <2>2. q \in Seq(Pods)
    BY <1>5, <2>1, SeqDef
  <2>. QED  BY <2>1, <2>2
<1>8. /\ task_queue' \in Seq(Pods)
      /\ \A i \in DOMAIN task_queue' :
           \/ i \in DOMAIN task_queue /\ task_queue'[i] = task_queue[i]
           \/ i - Len(task_queue) \in DOMAIN q /\ task_queue'[i] = q[i - Len(task_queue)]
      /\ \A i \in DOMAIN task_queue : i \in DOMAIN task_queue' /\ task_queue'[i] = task_queue[i]
      /\ \A i \in DOMAIN q : i + Len(task_queue) \in DOMAIN task_queue' /\ task_queue'[i + Len(task_queue)] = q[i]
  BY <1>0, <1>1, <1>7, ConcatFacts
<1>9. Range(task_queue') = Range(task_queue) \cup K
  <2>1. Range(task_queue') \subseteq Range(task_queue) \cup Range(q)
    BY <1>8 DEF Range
  <2>2. Range(task_queue) \subseteq Range(task_queue')
    BY <1>8 DEF Range
  <2>3. Range(q) \subseteq Range(task_queue')
    <3>1. ASSUME NEW i \in DOMAIN q PROVE q[i] \in Range(task_queue')
      <4>1. i + Len(task_queue) \in DOMAIN task_queue' /\ task_queue'[i + Len(task_queue)] = q[i]
        BY <1>8
      <4>. QED  BY <4>1 DEF Range
    <3>. QED  BY <3>1 DEF Range
  <2>. QED  BY <1>7, <2>1, <2>2, <2>3
\* The database
<1>10. ASSUME NEW t \in Tasks
       PROVE  /\ ti'[t] \in TaskInstance /\ ti'[t].try = ti[t].try
              /\ t \in S => ti'[t].state = "queued"
              /\ t \notin S => ti'[t] = ti[t]
  <2>1. [ti[t] EXCEPT !.state = "queued"] \in TaskInstance
    BY <1>0 DEF TaskInstance, States
  <2>2. [ti[t] EXCEPT !.state = "queued"].try = ti[t].try /\ [ti[t] EXCEPT !.state = "queued"].state = "queued"
    BY <1>0 DEF TaskInstance
  <2>. QED  BY <1>0, <2>1, <2>2
<1>11. TypeOK'
  <2>1. ti' \in [Tasks -> TaskInstance]
    BY <1>0, <1>10
  <2>. QED  BY <1>0, <1>2, <1>5, <1>8, <2>1 DEF TypeOK
<1>12. TryLeft' /\ OutcomeTracked'
  <2>1. TryLeft'
    BY <1>4, <1>10 DEF IInv, TryLeft
  <2>2. OutcomeTracked'
    BY <1>0, <1>3, <1>10 DEF IInv, OutcomeTracked, Finished
  <2>. QED  BY <2>1, <2>2
<1>13. OneResult' /\ QueueReady' /\ Recorded' /\ LastTry' /\ Seen' /\ TriesBounded'
  BY <1>0, <1>2, <1>3 DEF IInv, OneResult, QueueReady, Recorded, LastTry, Seen, TriesBounded, Exists
\* The stages
<1>14. ASSUME NEW u \in Tasks
       PROVE  /\ Submitted(u)' = Submitted(u) /\ Results(u)' = Results(u) /\ Buffer(u)' = Buffer(u)
              /\ created'[u] = created[u] /\ NextTry(u)' = NextTry(u)
              /\ \A p \in Submitted(u) : Processed(p)' <=> Processed(p)
  BY <1>0, <1>2 DEF Submitted, Results, Buffer, Of, PodsIn, NextTry, Processed
<1>15. ASSUME NEW u \in S, Clean(u) PROVE Idle(u)
  <2>1. Stage(u)
    BY <1>0, <1>15 DEF IInv, Stages, Live
  <2>. QED  BY <1>4, <2>1 DEF Stage, Queued, Sent, Done, Handed
<1>16. ASSUME NEW u \in Tasks, Clean(u) PROVE Stage(u)'
  <2>1. Stage(u)
    BY <1>0, <1>16 DEF IInv, Stages, Live
  <2>2. CASE u \in S
    <3>1. Idle(u)
      BY <1>15, <1>16, <2>2
    <3>2. Of(K, u) = {NextTry(u)}
      <4>1. Key(u) = NextTry(u)
        BY <1>4, <2>2, <3>1 DEF NextTry, Idle
      <4>2. \A k \in K : k[1] = u => k = Key(u)
        BY <1>4, <1>6, <2>2
      <4>3. Key(u) \in K /\ Key(u)[1] = u
        BY <1>4, <2>2
      <4>. QED  BY <4>1, <4>2, <4>3 DEF Of
    <3>3. Running(u)' = {NextTry(u)} /\ Queue(u)' = {NextTry(u)}
      <4>1. Running(u)' = Running(u) \cup Of(K, u) /\ Queue(u)' = Queue(u) \cup Of(K, u)
        BY <1>0, <1>9 DEF Running, Queue, Of
      <4>. QED  BY <3>1, <3>2, <4>1 DEF Idle
    <3>4. Queued(u)'
      BY <1>0, <1>10, <1>14, <2>2, <3>1, <3>3 DEF Queued, Idle
    <3>. QED  BY <3>4 DEF Stage
  <2>3. CASE u \notin S
    <3>1. Running(u)' = Running(u) /\ Queue(u)' = Queue(u)
      BY <1>0, <1>6, <1>9, <2>3 DEF Running, Queue, Of
    <3>2. Same(u)
      BY <1>0, <1>10, <1>14, <2>3, <3>1 DEF Same
    <3>. QED  BY <2>1, <3>2, SameStage
  <2>. QED  BY <2>2, <2>3
<1>17. Stages'
  BY <1>3, <1>16 DEF Stages
<1>18. OneEntry'
  <2> SUFFICES ASSUME NEW i \in DOMAIN task_queue', NEW j \in DOMAIN task_queue',
                      task_queue'[i][1] \in CleanTasks, task_queue'[i][1] = task_queue'[j][1]
               PROVE  i = j
    BY <1>3 DEF OneEntry
  <2>1. ASSUME NEW k \in DOMAIN task_queue, NEW l \in DOMAIN q, q[l][1] \in CleanTasks, task_queue[k][1] = q[l][1]
        PROVE  FALSE
    <3>1. q[l][1] \in S /\ Clean(q[l][1])
      BY <1>6, <1>7, <2>1 DEF Range, CleanTasks
    <3>2. task_queue[k] \in Queue(q[l][1])
      BY <2>1 DEF Queue, Of, Range
    <3>. QED  BY <1>15, <3>1, <3>2 DEF Idle
  <2>2. ASSUME NEW k \in DOMAIN q, NEW l \in DOMAIN q, q[k][1] = q[l][1] PROVE k = l
    <3>1. q[k] = q[l]
      <4>1. q[k] \in K /\ q[l] \in K
        BY <1>7, <2>2 DEF Range
      <4>. QED  BY <1>6, <2>2, <4>1
    <3>. QED  BY <1>7, <3>1
  <2>3. CASE i \in DOMAIN task_queue /\ j \in DOMAIN task_queue
    BY <1>8, <2>3 DEF IInv, OneEntry
  <2>4. i \in DOMAIN task_queue \/ (i - Len(task_queue) \in DOMAIN q /\ task_queue'[i] = q[i - Len(task_queue)])
    BY <1>8
  <2>5. j \in DOMAIN task_queue \/ (j - Len(task_queue) \in DOMAIN q /\ task_queue'[j] = q[j - Len(task_queue)])
    BY <1>8
  <2>6. CASE i \in DOMAIN task_queue /\ j \notin DOMAIN task_queue
    BY <1>8, <2>1, <2>5, <2>6
  <2>7. CASE i \notin DOMAIN task_queue /\ j \in DOMAIN task_queue
    BY <1>8, <2>1, <2>4, <2>7
  <2>8. CASE i \notin DOMAIN task_queue /\ j \notin DOMAIN task_queue
    <3>1. i - Len(task_queue) = j - Len(task_queue)
      BY <2>2, <2>4, <2>5, <2>8
    <3>2. i \in Nat /\ j \in Nat /\ Len(task_queue) \in Nat
      BY <1>0, <1>8, SeqFacts
    <3>. QED  BY <3>1, <3>2
  <2>. QED  BY <2>3, <2>6, <2>7, <2>8
<1>. QED  BY <1>11, <1>12, <1>13, <1>17, <1>18 DEF IInv

\* _manage_executor_state: a clean task whose result arrives is settled, and is idle again.
LEMMA ManageStep == ASSUME IInv, NEW p \in Pods, ManageExecutorState(p) PROVE IInv'
<1> PICK t : t = p[1]
  OBVIOUS
<1>0. /\ TypeOK /\ pc = "manage" /\ p \in DOMAIN event_buffer
      /\ ti \in [Tasks -> TaskInstance] /\ t \in Tasks /\ ti[t] \in TaskInstance
      /\ event_buffer' = Without(event_buffer, p) /\ waiting' = waiting \ {t}
      /\ \/ ti' = ti
         \/ ti[t].state \in {"running", "queued"} /\ ti' = [ti EXCEPT ![t] = HandleFailure(ti[t])]
      /\ UNCHANGED <<tracked, cluster, watcher, submitted_pods, result_queue, task_queue, running,
                     pods_to_delete, pc, faults, history>>
  BY PodFacts DEF IInv, TypeOK, ManageExecutorState
<1>1. UNCHANGED <<pods, created, watching, watcher_queue, ambiguous, undeleted>>
  BY <1>0 DEF cluster, watcher, history
<1>2. CleanTasks' = CleanTasks /\ \A u : Clean(u)' = Clean(u)
  BY <1>1 DEF CleanTasks, Clean
<1>3. /\ DOMAIN event_buffer' = DOMAIN event_buffer \ {p}
      /\ event_buffer' \in [DOMAIN event_buffer' -> {"failed", "running", "finished"}]
  BY <1>0 DEF TypeOK, Without
<1>4. ASSUME Clean(t) PROVE Handed(t) /\ p = This(t) /\ ti' = ti
  <2>1. Stage(t) /\ p \in Buffer(t)
    BY <1>0, <1>4 DEF IInv, Stages, Live, Buffer, Of
  <2>2. Handed(t) /\ p = This(t)
    BY <2>1 DEF Stage, Idle, Queued, Sent, Done, Handed
  <2>. QED  BY <1>0, <2>2 DEF Handed, Settled
<1>5. /\ ti' \in [Tasks -> TaskInstance] /\ HasTry(ti'[t]) /\ \A u \in Tasks \ {t} : ti'[u] = ti[u]
  <2>1. CASE ti' = ti
    BY <1>0, <2>1 DEF IInv, TryLeft, HasTry
  <2>2. CASE ti' = [ti EXCEPT ![t] = HandleFailure(ti[t])]
    <3>1. HandleFailure(ti[t]) \in TaskInstance /\ HasTry(HandleFailure(ti[t]))
      BY <1>0, FailureFacts
    <3>. QED  BY <1>0, <2>2, <3>1
  <2>. QED  BY <1>0, <2>1, <2>2
<1>6. TypeOK'
  BY <1>0, <1>1, <1>3, <1>5 DEF TypeOK
<1>7. TryLeft' /\ OutcomeTracked'
  <2>1. TryLeft'
    BY <1>5 DEF IInv, TryLeft, HasTry
  <2>2. OutcomeTracked'
    BY <1>0, <1>2, <1>4, <1>5 DEF IInv, OutcomeTracked
  <2>. QED  BY <2>1, <2>2
<1>8. OneEntry' /\ OneResult' /\ QueueReady' /\ Recorded' /\ LastTry' /\ Seen' /\ TriesBounded'
  BY <1>0, <1>1, <1>2 DEF IInv, OneEntry, OneResult, QueueReady, Recorded, LastTry, Seen, TriesBounded, Exists
<1>9. ASSUME NEW u \in Tasks
      PROVE  /\ Running(u)' = Running(u) /\ Submitted(u)' = Submitted(u) /\ Queue(u)' = Queue(u)
             /\ Results(u)' = Results(u) /\ created'[u] = created[u]
             /\ \A q \in Submitted(u) : Processed(q)' <=> Processed(q)
  BY <1>0, <1>1 DEF Running, Submitted, Queue, Results, Of, PodsIn, Range, Processed
<1>10. ASSUME NEW u \in Tasks, Clean(u) PROVE Stage(u)'
  <2>1. Stage(u)
    BY <1>0, <1>10 DEF IInv, Stages, Live
  <2>2. CASE u = t
    <3>1. Handed(u) /\ p = This(u) /\ ti' = ti
      BY <1>4, <1>10, <2>2
    <3>2. Buffer(u)' = {}
      BY <1>3, <3>1 DEF Handed, Buffer, Of
    <3>3. Idle(u)'
      BY <1>0, <1>9, <2>2, <3>1, <3>2 DEF Idle, Handed
    <3>. QED  BY <3>3 DEF Stage
  <2>3. CASE u # t
    <3>1. Buffer(u)' = Buffer(u)
      BY <1>3, <2>3 DEF Buffer, Of
    <3>2. Same(u)
      BY <1>0, <1>5, <1>9, <2>3, <3>1 DEF Same
    <3>. QED  BY <2>1, <3>2, SameStage
  <2>. QED  BY <2>2, <2>3
<1>11. Stages'
  BY <1>2, <1>10 DEF Stages
<1>. QED  BY <1>6, <1>7, <1>8, <1>11 DEF IInv

\* A clean task that is taken for a zombie has a try that is sent.
LEMMA ZombieStep == ASSUME IInv, NEW t \in Tasks, CleanZombie(t) PROVE IInv'
<1> PICK p : p = Key(t)
  OBVIOUS
<1>0. /\ TypeOK /\ pc = "schedule" /\ p \in running /\ p \in DOMAIN submitted_pods
      /\ RunningZombie(t) \/ PendingZombie(t)
      /\ ProcessPodFailed(t) /\ ChangeState(p, "finished") /\ DeletePod(p)
      /\ ambiguous' = IF p \in Range(task_queue) THEN ambiguous \cup {t} ELSE ambiguous
      /\ UNCHANGED <<created, watching, result_queue, task_queue, job>>
      /\ p \in Pods /\ p[1] = t
  BY DEF IInv, TypeOK, CleanZombie, ClearZombie, ChangeState, Key
<1>1. /\ running' = running \ {p} /\ event_buffer' = With(event_buffer, p, "finished")
      /\ UNCHANGED <<waiting, pods_to_delete, pc>>
  BY <1>0 DEF ChangeState, job
<1>2. /\ pods' \in [Pods -> Pod] /\ watcher_queue' \in Seq(Reports) /\ faults' \in 0..MaxFaults
      /\ DOMAIN submitted_pods' = DOMAIN submitted_pods \ {p}
      /\ submitted_pods' \in [DOMAIN submitted_pods' -> [node : BOOLEAN, processed : BOOLEAN]]
      /\ \A q \in DOMAIN submitted_pods' : submitted_pods'[q] = submitted_pods[q]
      /\ undeleted' \subseteq Pods /\ CleanTasks' \subseteq CleanTasks /\ \A u : Clean(u)' => Clean(u)
      /\ Recorded' /\ LastTry' /\ Seen'
  BY <1>0, DeleteFacts
<1>3. /\ DOMAIN event_buffer' = DOMAIN event_buffer \cup {p}
      /\ event_buffer' \in [DOMAIN event_buffer' -> {"failed", "running", "finished"}]
  BY <1>0, <1>1 DEF With, TypeOK
<1>4. /\ Writes(t) /\ ti'[t].state \in Settled
      /\ ti'[t].try = IF ti[t].state = "queued" THEN ti[t].try + 1 ELSE ti[t].try
      /\ UNCHANGED <<ti, tracked>> \/ tracked'[t] = ti'[t].state
  BY <1>0, PodFailedFacts
<1>5. TypeOK'
  BY <1>0, <1>1, <1>2, <1>3, <1>4 DEF TypeOK, Writes
<1>6. TryLeft' /\ OutcomeTracked'
  BY <1>2, <1>4, WritesFacts
<1>7. OneEntry' /\ OneResult' /\ QueueReady' /\ TriesBounded'
  BY <1>0, <1>1, <1>2 DEF IInv, OneEntry, OneResult, QueueReady, TriesBounded
<1>8. ASSUME Clean(t)' PROVE Sent(t) /\ p = This(t) /\ ti[t].state \in {"queued", "running"}
  <2>0. Stage(t) /\ p \in Running(t) /\ p \in Submitted(t)
    BY <1>0, <1>2, <1>8 DEF IInv, Stages, Live, Running, Submitted, Of
  <2>1. ~Queued(t)
    <3>1. p \notin Range(task_queue)
      BY <1>0, <1>8 DEF Clean
    <3>. QED  BY <2>0, <3>1 DEF Queued, Queue, Of
  <2>2. p = This(t) /\ (Sent(t) \/ Done(t))
    BY <2>0, <2>1 DEF Stage, Idle, Sent, Done, Handed
  <2>3. ti[t].state \in Settled => p # This(t)
    <3>1. ti[t].state \in Settled => p = <<t, ti[t].try + 1>> /\ ti[t].try = created[t]
      BY <2>2 DEF Key, TryNumber, Settled, Sent, Done
    <3>2. created[t] \in Nat
      BY <1>0 DEF TypeOK
    <3>3. <<t, created[t] + 1>> # <<t, created[t]>>
      <4>1. created[t] + 1 # created[t]
        BY <3>2
      <4>. QED  BY <4>1
    <3>. QED  BY <3>1, <3>3 DEF This
  <2>. QED  BY <2>2, <2>3 DEF Sent, Done
<1>9. ASSUME NEW u \in Tasks, Clean(u)' PROVE Stage(u)'
  <2>1. Clean(u) /\ Stage(u)
    BY <1>0, <1>2, <1>9 DEF IInv, Stages, Live
  <2>2. CASE u # t
    <3>1. ti'[u] = ti[u] /\ Results(u)' = Results(u)
      BY <1>0, <1>4, <2>2 DEF Writes, Results, PodsIn
    <3>. QED  BY <1>0, <1>1, <2>1, <2>2, <3>1, ChangeStateFacts
  <2>3. CASE u = t
    <3>1. Sent(u) /\ p = This(u) /\ ti[u].state \in {"queued", "running"}
      BY <1>8, <1>9, <2>3
    <3>2. Running(u)' = {} /\ Submitted(u)' = {} /\ Buffer(u)' = {p}
      <4>1. Running(u) = {p} /\ Submitted(u) = {p} /\ Buffer(u) = {}
        BY <3>1 DEF Sent
      <4>. QED  BY <1>0, <1>1, <1>2, <1>3, <2>3, <4>1 DEF Running, Submitted, Buffer, Of
    <3>3. Queue(u)' = Queue(u) /\ Results(u)' = Results(u) /\ This(u)' = This(u) /\ created'[u] = created[u]
      BY <1>0 DEF Queue, Results, PodsIn, This
    <3>4. ti'[u].try = created[u]
      BY <1>4, <2>3, <3>1 DEF Sent, Settled
    <3>5. Handed(u)'
      BY <1>1, <1>4, <2>3, <3>1, <3>2, <3>3, <3>4 DEF Handed, Sent
    <3>. QED  BY <3>5 DEF Stage
  <2>. QED  BY <2>2, <2>3
<1>10. Stages'
  BY <1>9 DEF Stages
<1>. QED  BY <1>2, <1>5, <1>6, <1>7, <1>10 DEF IInv

\* The loop ends, and its queues are dropped.
LEMMA TerminateStep == ASSUME IInv, JobEnds \/ LoopRaises PROVE IInv'
<1>0. TypeOK /\ Terminate /\ (Fault \/ faults' = faults)
  BY DEF IInv, JobEnds, LoopRaises
<1>1. /\ watching' = FALSE /\ watcher_queue' = <<>>
      /\ result_queue' = <<>> /\ task_queue' = <<>> /\ running' = {} /\ event_buffer' = Nothing
      /\ waiting' = {} /\ pc' = "terminate"
      /\ UNCHANGED <<ti, tracked, pods, created, submitted_pods, pods_to_delete, ambiguous, undeleted>>
  BY <1>0 DEF Terminate, database, cluster, history
<1>2. faults' \in 0..MaxFaults
  BY <1>0, FaultFacts DEF Fault, TypeOK
<1>3. /\ <<>> \in Seq(Reports) /\ <<>> \in Seq(Pods) /\ DOMAIN <<>> = {} /\ PodsIn(<<>>) = {}
      /\ DOMAIN Nothing = {} /\ Nothing \in [DOMAIN Nothing -> {"failed", "running", "finished"}]
  BY EmptySeq DEF PodsIn, Nothing
<1>4. CleanTasks' = CleanTasks /\ \A u : Clean(u)' = Clean(u)
  BY <1>1 DEF CleanTasks, Clean
<1>5. TypeOK'
  BY <1>0, <1>1, <1>2, <1>3 DEF TypeOK
<1>6. Stages' /\ OneEntry' /\ OneResult' /\ QueueReady' /\ Seen'
  BY <1>1, <1>3 DEF Stages, Live, OneEntry, OneResult, QueueReady, Seen
<1>7. Recorded' /\ LastTry' /\ TryLeft' /\ TriesBounded' /\ OutcomeTracked'
  BY <1>1, <1>4 DEF IInv, Recorded, LastTry, TryLeft, TriesBounded, OutcomeTracked, Exists
<1>. QED  BY <1>5, <1>6, <1>7 DEF IInv

\* terminate deletes the pod of a submitted task.
LEMMA TerminatePodStep == ASSUME IInv, NEW p \in Pods, TerminatePod(p) PROVE IInv'
<1>0. /\ TypeOK /\ pc = "terminate" /\ DeletePod(p) /\ pods_to_delete' = pods_to_delete \cup {p}
      /\ UNCHANGED <<ti, tracked, created, watching, result_queue, task_queue, running, event_buffer,
                     waiting, pc, ambiguous>>
  BY DEF IInv, TerminatePod, database
<1>1. /\ pods' \in [Pods -> Pod] /\ watcher_queue' \in Seq(Reports) /\ faults' \in 0..MaxFaults
      /\ DOMAIN submitted_pods' = DOMAIN submitted_pods \ {p}
      /\ submitted_pods' \in [DOMAIN submitted_pods' -> [node : BOOLEAN, processed : BOOLEAN]]
      /\ undeleted' \subseteq Pods /\ CleanTasks' \subseteq CleanTasks /\ \A u : Clean(u)' => Clean(u)
      /\ Recorded' /\ LastTry' /\ Seen'
  BY <1>0, DeleteFacts
<1>2. TypeOK'
  BY <1>0, <1>1 DEF TypeOK
<1>3. Stages' /\ QueueReady'
  BY <1>0 DEF Stages, Live, QueueReady
<1>4. OneEntry' /\ OneResult' /\ TryLeft' /\ TriesBounded' /\ OutcomeTracked'
  BY <1>0, <1>1 DEF IInv, OneEntry, OneResult, TryLeft, TriesBounded, OutcomeTracked
<1>. QED  BY <1>1, <1>2, <1>3, <1>4 DEF IInv

-----------------------------------------------------------------------------
(***************************************************************************)
(* The theorems                                                            *)
(***************************************************************************)
LEMMA NextIInv == ASSUME IInv, [Next]_vars PROVE IInv'
<1>1. CASE Cluster
  BY <1>1, ClusterStep
<1>2. CASE Watcher \/ HealthCheck
  BY <1>2, WatcherStep
<1>3. CASE EventsDone \/ ResultsDone \/ ManageDone \/ PodsTerminated \/ UNCHANGED vars
  BY <1>3, MoveStep
<1>4. CASE ProcessWatcherTask
  BY <1>4, WatcherTaskStep
<1>5. CASE ProcessResult
  BY <1>5, ProcessResultStep
<1>6. CASE RunNext
  BY <1>6, RunNextStep
<1>7. CASE \E p \in Pods : ManageExecutorState(p)
  BY <1>7, ManageStep
<1>8. CASE JobEnds \/ LoopRaises
  BY <1>8, TerminateStep
<1>9. CASE \E p \in Pods : TerminatePod(p)
  BY <1>9, TerminatePodStep
<1>10. CASE SetLastStates
  BY <1>10, LastStatesStep
<1>11. CASE \E S \in SUBSET Tasks : ScheduleTasks(S)
  BY <1>11, ScheduleStep
<1>12. CASE \E t \in Tasks : CleanZombie(t)
  BY <1>12, ZombieStep
<1>. QED  BY <1>1, <1>2, <1>3, <1>4, <1>5, <1>6, <1>7, <1>8, <1>9, <1>10, <1>11, <1>12 DEF Next, Loop

\* Every step of the executor, the pods, the watcher and the zombie cleaner keeps the inductive
\* invariant: each try of a clean task is in one of five stages, and the queues, the database and
\* the cluster agree on which.
THEOREM Invariance == Spec => []IInv
<1>1. Init => IInv
  BY InitIInv
<1>2. IInv /\ [Next]_vars => IInv'
  BY NextIInv
<1>. QED  BY <1>1, <1>2, PTL DEF Spec

\* The database, the cluster, the queues and the loop keep their types; the tries of a task instance
\* never exceed the largest retry count by more than one, so every pod has a name.
THEOREM TypeCorrect == Spec => []TypeOK
<1>1. IInv => TypeOK
  BY DEF IInv
<1>. QED  BY <1>1, Invariance, PTL

\* A pod that takes resources of the cluster is recorded in submitted_pods, so that the scheduler
\* will delete it, or the cluster refused to delete it: run_next records a pod before it is created.
THEOREM PodsTrackedHolds == Spec => []PodsTracked
<1>1. IInv => PodsTracked
  BY DEF IInv, Recorded, PodsTracked, Busy, Exists
<1>. QED  BY <1>1, Invariance, PTL

\* After the loop pods are only taken off the list.
OneSubmitted ==
  \A p, q \in DOMAIN submitted_pods : p[1] = q[1] /\ Clean(p[1]) => p = q

LEMMA OneSubmittedLive ==
  ASSUME IInv, pc \in Live
  PROVE  OneSubmitted
<1>. SUFFICES ASSUME NEW p \in DOMAIN submitted_pods, NEW q \in DOMAIN submitted_pods, p[1] = q[1], Clean(p[1])
              PROVE  p = q
  BY DEF OneSubmitted
<1>1. p \in Pods /\ p[1] \in Tasks
  BY PodFacts DEF IInv, TypeOK
<1>2. p \in Submitted(p[1]) /\ q \in Submitted(p[1]) /\ Stage(p[1])
  BY <1>1 DEF IInv, Stages, Submitted, Of
<1>. QED  BY <1>2 DEF Stage, Idle, Queued, Sent, Done, Handed

LEMMA TakenOff ==
  ASSUME IInv, [Next]_vars, pc' \notin Live
  PROVE  DOMAIN submitted_pods' \subseteq DOMAIN submitted_pods /\ \A u : Clean(u)' => Clean(u)
<1>. USE DEF vars, database, cluster, watcher, executor, job, history, Live
<1>1. CASE Cluster
  <2>1. submitted_pods' = submitted_pods /\ UNCHANGED <<ambiguous, undeleted>>
    BY <1>1 DEF Cluster, PodStarts, PodHasError, PodBoots, PodWrites, PodExits, PodCrashes, PodEvicted,
       PodRemoved, ChangePod
  <2>. QED  BY <2>1 DEF Clean
<1>2. CASE Watcher \/ EventsDone \/ ResultsDone \/ PodsTerminated \/ SetLastStates \/ UNCHANGED vars
  <2>1. submitted_pods' = submitted_pods /\ UNCHANGED <<ambiguous, undeleted>>
    BY <1>2 DEF Watcher, WatchSkips, WatchExpires, WatcherDies, EventsDone, ResultsDone, PodsTerminated, SetLastStates
  <2>. QED  BY <2>1 DEF Clean
<1>3. CASE JobEnds \/ LoopRaises
  <2>1. submitted_pods' = submitted_pods /\ UNCHANGED <<ambiguous, undeleted>>
    BY <1>3 DEF JobEnds, LoopRaises, Terminate
  <2>. QED  BY <2>1 DEF Clean
<1>4. ASSUME NEW p \in Pods, TerminatePod(p)
      PROVE  DOMAIN submitted_pods' \subseteq DOMAIN submitted_pods /\ \A u : Clean(u)' => Clean(u)
  <2>1. DeletePod(p) /\ UNCHANGED <<created, watching, ambiguous>>
    BY <1>4 DEF TerminatePod
  <2>. QED  BY <2>1, DeleteFacts DEF IInv
<1>5. ASSUME NEW p \in Pods, ManageExecutorState(p) PROVE FALSE
  BY <1>5 DEF ManageExecutorState
<1>6. ASSUME NEW S \in SUBSET Tasks, ScheduleTasks(S) PROVE FALSE
  BY <1>6 DEF ScheduleTasks
<1>7. ASSUME NEW t \in Tasks, CleanZombie(t) PROVE FALSE
  BY <1>7 DEF CleanZombie, ClearZombie
<1>8. CASE HealthCheck \/ ProcessWatcherTask \/ ManageDone
  BY <1>8 DEF HealthCheck, ProcessWatcherTask, ManageDone
<1>9. CASE ProcessResult \/ RunNext
  BY <1>9 DEF ProcessResult, RunNext, AfterRun
<1>. QED  BY <1>1, <1>2, <1>3, <1>4, <1>5, <1>6, <1>7, <1>8, <1>9 DEF Next, Loop

\* The scheduler looks after one pod of a task whose calls did what they said, however events are
\* lost or repeated, and the deletion of any other that lives has been asked for: the next try is
\* queued only after that.
THEOREM OnePodSubmittedHolds == Spec => []OnePodSubmitted
<1>1. Init => OneSubmitted
  BY DEF Init, OneSubmitted, Nothing
<1>2. IInv /\ IInv' /\ OneSubmitted /\ [Next]_vars => OneSubmitted'
  <2>1. IInv /\ pc \in Live => OneSubmitted
    BY OneSubmittedLive
  <2>3. (IInv /\ pc \in Live => OneSubmitted)'
    BY <2>1, PTL
  <2>2. ASSUME IInv, OneSubmitted, [Next]_vars, pc' \notin Live PROVE OneSubmitted'
    BY <2>2, TakenOff DEF OneSubmitted
  <2>. QED  BY <2>2, <2>3
<1>3. IInv /\ OneSubmitted => OnePodSubmitted
  <2>. SUFFICES ASSUME IInv, OneSubmitted, NEW p \in DOMAIN submitted_pods, NEW q \in Pods,
                       p # q, p[1] = q[1], Clean(p[1])
                PROVE  q \notin DOMAIN submitted_pods /\ ~Busy(q)
    BY DEF OnePodSubmitted
  <2>1. q \notin DOMAIN submitted_pods
    BY DEF OneSubmitted
  <2>2. q \notin undeleted
    BY DEF Clean
  <2>. QED  BY <2>1, <2>2 DEF IInv, Recorded, Busy, Exists
<1>. QED  BY <1>1, <1>2, <1>3, Invariance, PTL DEF Spec

\* A task whose calls did what they said gets no more pods than it has tries, even if nothing ever
\* ran in them: handling a crash counts the try that the pod did not count.
THEOREM TriesBoundedHolds == Spec => []TriesBounded
<1>1. IInv => TriesBounded
  BY DEF IInv
<1>. QED  BY <1>1, Invariance, PTL

\* Whoever ends a task, the tracking service has the final state that the Airflow database has.
THEOREM OutcomeTrackedHolds == Spec => []OutcomeTracked
<1>1. IInv => OutcomeTracked
  BY DEF IInv
<1>. QED  BY <1>1, Invariance, PTL
=============================================================================
