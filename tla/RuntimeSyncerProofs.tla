------------------------- MODULE RuntimeSyncerProofs -------------------------
(***************************************************************************)
(* Proofs about RuntimeSyncer, for any number of dag runs, changes,        *)
(* failing calls and any size of the chunks.                               *)
(***************************************************************************)
EXTENDS RuntimeSyncer, SequenceTheorems, FiniteSetTheorems, WellFoundedInduction, TLAPS

Loading == {"init", "init_post"}
Sending == {"init", "init_post", "update", "update_post"}

\* The cursors are set together, by the first sync, and the plugin is asked with
\* the cursors that the tracking service still has.
Cursors ==
  /\ (last_seen_dag_run_id = None) <=> (last_seen_log_id = None)
  /\ pc \in {"seed", "seed_post"} => last_seen_dag_run_id = None
  /\ pc \in {"fetch"} \cup Sending => last_seen_dag_run_id # None
  /\ pc = "fetch" => dbnd.run = last_seen_dag_run_id /\ dbnd.log = last_seen_log_id
  /\ pc = "fetch" => dbnd.active \subseteq known
  /\ pc = "seed_post" => dbnd.run # None /\ dbnd.log # None
  /\ pc \notin Loading => to_init = <<>>
  /\ pc \notin Sending => to_update = <<>>

\* The data in hand are those of the next chunk.
InHand ==
  /\ pc = "init_post" => DOMAIN data = Ids(Chunk(to_init))
  /\ pc = "update_post" => DOMAIN data = Ids(Chunk(to_update))
  /\ DOMAIN fix_data \subseteq known

\* Both lists are sorted, and an entry's log is one its dag run has.
Lists ==
  /\ \A i, j \in DOMAIN to_init : i < j => ById(to_init[i], to_init[j])
  /\ \A i, j \in DOMAIN to_update : i < j => ByLog(to_update[i], to_update[j])
  /\ \A i \in DOMAIN to_update : to_update[i].max_log_id <= LastLog(to_update[i].id)
  /\ pc = "update_post" =>
       \A i \in DOMAIN Chunk(to_update) :
         to_update[i].max_log_id <= data[to_update[i].id].last

\* A dag run that the tracking service lacks is in the list, if a later one is.
RunPlan ==
  pc \in Loading =>
    \A r \in DOMAIN af \ known : \A i \in DOMAIN to_init :
      base.run < r /\ r < to_init[i].id => r \in Ids(to_init)

\* The log of r is newer than all that the list of updates will move the cursor to.
Later(r) == \A i \in DOMAIN to_update : to_update[i].max_log_id < LastLog(r)

\* A dag run with a log entry after the cursor was sent with it, is still to be sent, or
\* has the entry only since the plugin was asked.
LogPlan ==
  pc \in Sending =>
    \A r \in DOMAIN af \ dropped : last_seen_log_id < LastLog(r) =>
      \/ sent[r] >= LastLog(r)
      \/ r \in Ids(to_init)
      \/ Later(r)
      \/ \E i \in DOMAIN to_update : to_update[i].id = r /\ to_update[i].max_log_id = LastLog(r)

\* Data fetched for a dag run that is to be created have its last log entry, but for one
\* that is later than every update.
FreshData ==
  pc = "init_post" => \A r \in DOMAIN data : data[r].last >= LastLog(r) \/ Later(r)

\* NoLogSkipped, for dag runs that the tracking service does not have as well.
AllLogs ==
  last_seen_log_id # None =>
    \A r \in DOMAIN af \ dropped :
      base.log < LastLog(r) /\ LastLog(r) <= last_seen_log_id => sent[r] >= LastLog(r)

IInv == /\ TypeOK /\ Cursors /\ InHand /\ Lists
        /\ RunPlan /\ NoRunSkipped /\ LogPlan /\ FreshData /\ AllLogs

-----------------------------------------------------------------------------
(***************************************************************************)
(* The operators of the model                                              *)
(***************************************************************************)
\* A set of integers that is bounded has a maximum: the least distance to the bound.
LEMMA MaxFacts ==
  ASSUME NEW S \in SUBSET Int, S # {}, NEW n \in Int, \A x \in S : x <= n
  PROVE  Max(S) \in S /\ \A x \in S : x <= Max(S)
<1> DEFINE T == {n - x : x \in S}
<1>1. T \subseteq Nat /\ T # {}
  <2>1. ASSUME NEW x \in S PROVE n - x \in Nat
    OBVIOUS
  <2>2. PICK x \in S : TRUE
    OBVIOUS
  <2>3. n - x \in T
    OBVIOUS
  <2>. QED  BY <2>1, <2>3
<1>2. PICK m \in T : \A y \in T : ~(<<y, m>> \in OpToRel(<, Nat))
  BY <1>1, WFMin, NatLessThanWellFounded
<1>3. \A y \in T : ~(y < m)
  BY <1>1, <1>2 DEF OpToRel
<1>4. PICK x \in S : m = n - x
  OBVIOUS
<1>5. ASSUME NEW y \in S PROVE x >= y
  <2>1. n - y \in T /\ ~(n - y < n - x)
    BY <1>3, <1>4
  <2>. QED  BY <2>1
<1>. QED  BY <1>5 DEF Max

\* The larger of two cursors.
LEMMA MaxOfTwo ==
  ASSUME NEW a \in Int, NEW b \in Int
  PROVE  Max({a, b}) = IF a >= b THEN a ELSE b
<1>1. PICK n \in Int : a <= n /\ b <= n
  OBVIOUS
<1>2. Max({a, b}) \in {a, b} /\ \A x \in {a, b} : x <= Max({a, b})
  BY <1>1, MaxFacts
<1>. QED  BY <1>2

\* LastLog, as a function of the log table.
LastIn(L, r) == Max({0} \cup {l \in DOMAIN L : L[l].run = r})

\* LastIn is the last log entry of a dag run, or 0.
LEMMA LastInFacts ==
  ASSUME NEW R, NEW L \in Seq([run : R, view : BOOLEAN]), NEW r
  PROVE  /\ LastIn(L, r) \in 0..Len(L) /\ Len(L) \in Nat
         /\ \A l \in DOMAIN L : L[l].run = r => l <= LastIn(L, r)
         /\ LastIn(L, r) # 0 => LastIn(L, r) \in DOMAIN L /\ L[LastIn(L, r)].run = r
<1>1. Len(L) \in Nat /\ DOMAIN L = 1..Len(L)
  BY LenProperties
<1> DEFINE S == {0} \cup {l \in DOMAIN L : L[l].run = r}
<1>2. S \in SUBSET Int /\ S # {} /\ \A x \in S : x <= Len(L)
  BY <1>1
<1> HIDE DEF S
<1>3. Max(S) \in S /\ \A x \in S : x <= Max(S)
  <2>1. Len(L) \in Int
    BY <1>1
  <2>. QED  BY <1>2, <2>1, MaxFacts
<1>. QED  BY <1>1, <1>3 DEF LastIn, S

\* A new log entry becomes the last one of its dag run and of no other.
LEMMA LastInAppend ==
  ASSUME NEW R, NEW L \in Seq([run : R, view : BOOLEAN]), NEW e \in [run : R, view : BOOLEAN], NEW r
  PROVE  LastIn(Append(L, e), r) = IF r = e.run THEN Len(L) + 1 ELSE LastIn(L, r)
<1> DEFINE N == Append(L, e)
<1>1. Len(L) \in Nat /\ DOMAIN L = 1..Len(L)
  BY LenProperties
<1>2. /\ N \in Seq([run : R, view : BOOLEAN]) /\ Len(N) = Len(L) + 1
      /\ \A l \in 1..Len(L) : N[l] = L[l]
      /\ N[Len(L) + 1] = e
  BY AppendProperties
<1>3. DOMAIN N = 1..(Len(L) + 1)
  BY <1>2, LenProperties
<1> HIDE DEF N
<1>4. CASE r = e.run
  <2>1. /\ LastIn(N, r) \in 0..Len(N)
        /\ \A l \in DOMAIN N : N[l].run = r => l <= LastIn(N, r)
    BY <1>2, LastInFacts
  <2>2. Len(L) + 1 \in DOMAIN N
    BY <1>1, <1>3
  <2>. QED  BY <1>1, <1>2, <1>4, <2>1, <2>2 DEF N
<1>5. CASE r # e.run
  <2>1. {l \in DOMAIN N : N[l].run = r} = {l \in DOMAIN L : L[l].run = r}
    BY <1>1, <1>2, <1>3, <1>5
  <2>2. LastIn(N, r) = LastIn(L, r)
    BY <2>1 DEF LastIn
  <2>. QED  BY <1>5, <2>2 DEF N
<1>. QED  BY <1>4, <1>5 DEF N

\* A chunk and the rest make up the list.
LEMMA ChunkFacts ==
  ASSUME NEW S, NEW s \in Seq(S)
  PROVE  /\ Bulk(s) \in 0..Len(s) /\ Len(s) \in Nat /\ DOMAIN s = 1..Len(s)
         /\ Chunk(s) \in Seq(S) /\ DOMAIN Chunk(s) = 1..Bulk(s)
         /\ \A i \in 1..Bulk(s) : Chunk(s)[i] = s[i]
         /\ Rest(s) \in Seq(S) /\ DOMAIN Rest(s) = 1..(Len(s) - Bulk(s))
         /\ \A i \in 1..(Len(s) - Bulk(s)) : Rest(s)[i] = s[i + Bulk(s)]
<1>1. Len(s) \in Nat /\ DOMAIN s = 1..Len(s) /\ \A i \in 1..Len(s) : s[i] \in S
  BY LenProperties, ElementOfSeq
<1>2. Bulk(s) \in 0..Len(s)
  BY <1>1, RunsAssumption DEF Bulk
<1>3. /\ Chunk(s) \in Seq(S) /\ Len(Chunk(s)) = Bulk(s)
      /\ \A i \in 1..Bulk(s) : Chunk(s)[i] = s[i]
  <2>1. \A i \in 1..Bulk(s) : s[i] \in S
    BY <1>1, <1>2
  <2>. QED  BY <1>1, <1>2, <2>1, SubSeqProperties DEF Chunk
<1>4. /\ Rest(s) \in Seq(S) /\ Len(Rest(s)) = Len(s) - Bulk(s)
      /\ \A i \in 1..(Len(s) - Bulk(s)) : Rest(s)[i] = s[i + Bulk(s)]
  <2>1. \A i \in (Bulk(s) + 1)..Len(s) : s[i] \in S
    BY <1>1, <1>2
  <2>2. /\ Rest(s) \in Seq(S) /\ Len(Rest(s)) = Len(s) - Bulk(s)
        /\ \A i \in 1..(Len(s) - Bulk(s)) : Rest(s)[i] = s[(Bulk(s) + 1) + i - 1]
    <3>1. Bulk(s) + 1 \in 1..(Len(s) + 1) /\ Len(s) \in (Bulk(s) + 1 - 1)..Len(s) /\ Bulk(s) + 1 \in Int
          /\ Len(s) - (Bulk(s) + 1) + 1 = Len(s) - Bulk(s)
      BY ONLY <1>1, <1>2
    <3>. QED  BY <1>1, <1>2, <2>1, <3>1, SubSeqProperties DEF Rest
  <2>. QED  BY <1>1, <1>2, <2>2
<1>. QED  BY <1>1, <1>2, <1>3, <1>4, LenProperties

\* A chunk has the first items of the list, each in its place.
LEMMA ChunkPlace ==
  ASSUME NEW S, NEW s \in Seq(S)
  PROVE  \A i \in DOMAIN Chunk(s) : i \in DOMAIN s /\ Chunk(s)[i] = s[i]
<1>1. /\ Bulk(s) \in 0..Len(s) /\ Len(s) \in Nat /\ DOMAIN s = 1..Len(s)
      /\ DOMAIN Chunk(s) = 1..Bulk(s) /\ \A i \in 1..Bulk(s) : Chunk(s)[i] = s[i]
  BY ChunkFacts
<1>. QED  BY ONLY <1>1

\* A work list is its first chunk and the rest.
LEMMA ChunkIds ==
  ASSUME NEW s \in Seq(Work)
  PROVE  /\ Ids(s) = Ids(Chunk(s)) \cup Ids(Rest(s))
         /\ Ids(s) \subseteq Nat
<1>0. /\ Bulk(s) \in 0..Len(s) /\ Len(s) \in Nat /\ DOMAIN s = 1..Len(s)
      /\ DOMAIN Chunk(s) = 1..Bulk(s) /\ \A i \in 1..Bulk(s) : Chunk(s)[i] = s[i]
      /\ DOMAIN Rest(s) = 1..(Len(s) - Bulk(s))
      /\ \A i \in 1..(Len(s) - Bulk(s)) : Rest(s)[i] = s[i + Bulk(s)]
  BY ChunkFacts
<1>1. ASSUME NEW i \in DOMAIN s PROVE s[i].id \in Ids(Chunk(s)) \cup Ids(Rest(s))
  <2>1. CASE i <= Bulk(s)
    <3>1. i \in DOMAIN Chunk(s) /\ Chunk(s)[i] = s[i]
      BY <1>0, <2>1
    <3>. QED  BY <3>1 DEF Ids
  <2>2. CASE ~(i <= Bulk(s))
    <3>1. i - Bulk(s) \in DOMAIN Rest(s) /\ Rest(s)[i - Bulk(s)] = s[(i - Bulk(s)) + Bulk(s)]
      BY <1>0, <2>2
    <3>2. (i - Bulk(s)) + Bulk(s) = i
      BY <1>0
    <3>. QED  BY <3>1, <3>2 DEF Ids
  <2>. QED  BY <2>1, <2>2
<1>2. ASSUME NEW i \in DOMAIN Chunk(s) PROVE Chunk(s)[i].id \in Ids(s)
  <2>1. i \in DOMAIN s /\ Chunk(s)[i] = s[i]
    BY <1>0
  <2>. QED  BY <2>1 DEF Ids
<1>3. ASSUME NEW i \in DOMAIN Rest(s) PROVE Rest(s)[i].id \in Ids(s)
  <2>1. i + Bulk(s) \in DOMAIN s /\ Rest(s)[i] = s[i + Bulk(s)]
    BY <1>0
  <2>. QED  BY <2>1 DEF Ids
<1>4. ASSUME NEW i \in DOMAIN s PROVE s[i].id \in Nat
  <2>1. s[i] \in Work
    BY <1>0, ElementOfSeq
  <2>. QED  BY <2>1 DEF Work
<1>. QED  BY <1>1, <1>2, <1>3, <1>4 DEF Ids

\* The sequences of the model, as functions, and the last log entries of dag runs.
LEMMA Types ==
  ASSUME TypeOK
  PROVE  /\ Len(af) \in 0..MaxRuns /\ MaxRuns \in Nat /\ DOMAIN af = 1..Len(af) /\ DOMAIN af \subseteq Runs
         /\ Len(logs) \in Nat /\ DOMAIN logs = 1..Len(logs)
         /\ \A r : LastLog(r) \in 0..Len(logs)
         /\ \A i \in DOMAIN to_init : to_init[i] \in Work /\ to_init[i].id \in DOMAIN af
         /\ \A i \in DOMAIN to_update : to_update[i] \in Work /\ to_update[i].id \in DOMAIN af
<1>1. /\ Len(af) \in 0..MaxRuns /\ MaxRuns \in Nat /\ DOMAIN af = 1..Len(af) /\ DOMAIN af \subseteq Runs
      /\ Len(logs) \in Nat /\ DOMAIN logs = 1..Len(logs)
  BY LenProperties, RunsAssumption DEF TypeOK, Runs
<1>2. ASSUME NEW r PROVE LastLog(r) \in 0..Len(logs)
  <2>1. LastLog(r) = LastIn(logs, r)
    BY DEF LastLog, LastIn
  <2>2. logs \in Seq([run : DOMAIN af, view : BOOLEAN])
    BY DEF TypeOK
  <2>3. LastIn(logs, r) \in 0..Len(logs)
    BY <2>2, LastInFacts
  <2>. QED  BY <2>1, <2>3
<1>3. \A i \in DOMAIN to_init : to_init[i] \in Work /\ to_init[i].id \in DOMAIN af
  BY LenProperties, ElementOfSeq DEF TypeOK, Ids
<1>4. \A i \in DOMAIN to_update : to_update[i] \in Work /\ to_update[i].id \in DOMAIN af
  BY LenProperties, ElementOfSeq DEF TypeOK, Ids
<1>. QED  BY <1>1, <1>2, <1>3, <1>4

\* At the start nothing is known and no work is planned.
LEMMA InitIInv == Init => IInv
<1> SUFFICES ASSUME Init PROVE IInv
  OBVIOUS
<1>1. /\ <<>> \in Seq(Work) /\ <<>> \in Seq(Nat) /\ DOMAIN <<>> = {} /\ Len(<<>>) = 0
      /\ \A R : <<>> \in Seq(R)
  BY EmptySeq
<1>2. PICK n \in RunsBefore : af = [r \in 1..n |-> [state |-> "running", paused |-> FALSE]]
  BY DEF Init
<1>3. n \in Nat /\ n <= MaxRuns
  BY BeforeAssumption, RunsAssumption
<1>4. af \in Seq(DagRun) /\ Len(af) = n
  <2>1. af \in [1..n -> DagRun]
    BY <1>2 DEF DagRun
  <2>2. af \in Seq(DagRun)
    BY <1>3, <2>1, SeqDef
  <2>. QED  BY <1>3, <2>1, <2>2, LenProperties
<1>5. known = {}
  BY DEF Init, known
<1>6. Nothing = [run \in {} |-> {}] /\ DOMAIN Nothing = {} /\ IsData(Nothing)
  BY DEF Nothing, IsData
<1>7. Ids(<<>>) = {} /\ Range(<<>>) = {}
  BY <1>1 DEF Ids, Range
<1>8. TypeOK
  <2>1. srv \in [Runs -> Stored] /\ sent \in [Runs -> Nat]
    BY DEF Init, Absent, Stored
  <2>2. dbnd \in [active : SUBSET Runs, run : Int, log : Int] /\ base \in [run : Int, log : Int]
    BY DEF Init, NoResponse, None
  <2>. QED  BY <1>1, <1>3, <1>4, <1>5, <1>6, <1>7, <2>1, <2>2 DEF Init, TypeOK, NoResponse, None
<1>9. Cursors /\ InHand /\ Lists
  BY <1>1, <1>6 DEF Init, Cursors, InHand, Lists, Loading, Sending, None
<1>10. RunPlan /\ NoRunSkipped /\ LogPlan /\ FreshData /\ AllLogs
  BY DEF Init, RunPlan, NoRunSkipped, LogPlan, FreshData, AllLogs, Loading, Sending
<1>. QED  BY <1>8, <1>9, <1>10 DEF IInv

-----------------------------------------------------------------------------
(***************************************************************************)
(* Steps of Airflow                                                        *)
(***************************************************************************)
\* A change of dag runs that are there disturbs nothing.
LEMMA EditStep ==
  ASSUME IInv, af' \in Seq(DagRun), Len(af') = Len(af), DOMAIN af' = DOMAIN af,
         UNCHANGED <<logs, service, syncer, fixer>>
  PROVE  IInv'
<1> USE DEF service, syncer, fixer
<1>1. \A r : LastLog(r)' = LastLog(r)
  BY DEF LastLog
<1>2. known' = known
  BY DEF known
<1>3. TypeOK'
  BY <1>2 DEF IInv, TypeOK, Ids, IsData
<1>4. Cursors' /\ InHand'
  <2>1. Cursors'
    BY <1>2 DEF IInv, Cursors
  <2>2. InHand'
    BY <1>2 DEF IInv, InHand, Ids, Chunk, Bulk
  <2>. QED  BY <2>1, <2>2
<1>5. Lists'
  BY <1>1 DEF IInv, Lists, ById, ByLog, Chunk, Bulk
<1>6. RunPlan' /\ NoRunSkipped'
  BY <1>2 DEF IInv, RunPlan, NoRunSkipped, Ids
<1>7. LogPlan' /\ FreshData' /\ AllLogs'
  BY <1>1 DEF IInv, LogPlan, FreshData, AllLogs, Later, Ids
<1>. QED  BY <1>3, <1>4, <1>5, <1>6, <1>7 DEF IInv

\* A new dag run is behind the cursor and behind every list.
LEMMA StartRunStep == ASSUME IInv, NEW paused \in BOOLEAN, StartRun(paused) PROVE IInv'
<1> USE DEF service, syncer, fixer
<1>0. TypeOK
  BY DEF IInv
<1>1. /\ af' \in Seq(DagRun) /\ Len(af') = Len(af) + 1 /\ Len(af) < MaxRuns
      /\ UNCHANGED <<logs, service, syncer, fixer>>
  <2>1. [state |-> "running", paused |-> paused] \in DagRun /\ af \in Seq(DagRun)
    BY <1>0 DEF DagRun, TypeOK
  <2>. QED  BY <2>1, AppendProperties DEF StartRun
<1>2. /\ DOMAIN af' = 1..(Len(af) + 1) /\ DOMAIN af = 1..Len(af) /\ DOMAIN af \subseteq DOMAIN af'
      /\ Len(af) \in Nat /\ MaxRuns \in Nat /\ DOMAIN af' \subseteq Runs
  BY <1>0, <1>1, Types, LenProperties DEF Runs
<1>3. \A r : LastLog(r)' = LastLog(r)
  BY <1>1 DEF LastLog
<1>4. known' = known
  BY <1>1 DEF known
<1>5. TypeOK'
  <2>1. logs' \in Seq([run : DOMAIN af', view : BOOLEAN])
    <3>1. [run : DOMAIN af, view : BOOLEAN] \subseteq [run : DOMAIN af', view : BOOLEAN]
      BY <1>2
    <3>2. logs \in Seq([run : DOMAIN af, view : BOOLEAN]) /\ logs' = logs
      BY <1>0, <1>1 DEF TypeOK
    <3>. QED  BY ONLY <3>1, <3>2, SeqMonotonic
  <2>2. -1..Len(af) \subseteq -1..Len(af') /\ Len(af') <= MaxRuns
    BY <1>1, <1>2
  <2>3. (Ids(to_init) \cup Ids(to_update))' = Ids(to_init) \cup Ids(to_update)
    BY <1>1 DEF Ids
  <2>. QED  BY <1>0, <1>1, <1>2, <1>4, <2>1, <2>2, <2>3 DEF TypeOK, IsData
<1>6. Cursors' /\ InHand'
  <2>1. Cursors'
    BY <1>1, <1>4 DEF IInv, Cursors
  <2>2. InHand'
    BY <1>1, <1>4 DEF IInv, InHand, Ids, Chunk, Bulk
  <2>. QED  BY <2>1, <2>2
<1>7. Lists'
  BY <1>1, <1>3 DEF IInv, Lists, ById, ByLog, Chunk, Bulk
<1>8. RunPlan'
  <2> SUFFICES ASSUME pc \in Loading, NEW r \in DOMAIN af' \ known, NEW i \in DOMAIN to_init,
                      base.run < r, r < to_init[i].id
               PROVE  r \in Ids(to_init)
    BY <1>1, <1>4 DEF RunPlan, Ids
  <2>1. to_init[i].id \in 1..Len(af)
    BY <1>0, Types
  <2>2. r \in DOMAIN af
    BY <1>2, <2>1
  <2>. QED  BY <2>2 DEF IInv, RunPlan
<1>9. NoRunSkipped'
  <2> SUFFICES ASSUME last_seen_dag_run_id # None, NEW r \in DOMAIN af',
                      base.run < r, r <= last_seen_dag_run_id
               PROVE  r \in known
    BY <1>1, <1>4 DEF NoRunSkipped
  <2>1. last_seen_dag_run_id \in -1..Len(af)
    BY <1>0 DEF TypeOK
  <2>2. r \in DOMAIN af
    BY <1>2, <2>1
  <2>. QED  BY <2>2 DEF IInv, NoRunSkipped
<1>10. LastLog(Len(af) + 1) = 0 /\ sent[Len(af) + 1] \in Nat
  <2>1. LastLog(Len(af) + 1) = LastIn(logs, Len(af) + 1)
    BY DEF LastLog, LastIn
  <2>2. \A l \in DOMAIN logs : logs[l].run \in DOMAIN af
    <3>1. \A l \in 1..Len(logs) : logs[l] \in [run : DOMAIN af, view : BOOLEAN]
      BY <1>0, ElementOfSeq DEF TypeOK
    <3>. QED  BY <1>0, <3>1, Types
  <2>3. Len(af) + 1 \notin DOMAIN af
    BY <1>2
  <2>4. LastIn(logs, Len(af) + 1) # 0 =>
          LastIn(logs, Len(af) + 1) \in DOMAIN logs /\ logs[LastIn(logs, Len(af) + 1)].run = Len(af) + 1
    BY <1>0, LastInFacts DEF TypeOK
  <2>5. Len(af) + 1 \in Runs
    BY <1>2
  <2>. QED  BY <1>0, <2>1, <2>2, <2>3, <2>4, <2>5 DEF TypeOK
<1>11. \A r \in DOMAIN af' : r \in DOMAIN af \/ r = Len(af) + 1
  BY <1>2
<1>12. LogPlan' /\ AllLogs'
  <2>1. sent[Len(af) + 1] >= LastLog(Len(af) + 1)
    BY <1>10
  <2>. QED  BY <1>1, <1>3, <1>11, <2>1 DEF IInv, LogPlan, AllLogs, Later, Ids
<1>13. FreshData'
  BY <1>1, <1>3 DEF IInv, FreshData, Later
<1>. QED  BY <1>5, <1>6, <1>7, <1>8, <1>9, <1>12, <1>13 DEF IInv

\* A new log entry is later than the cursor, and than all that the plugin was asked for.
LEMMA LogStep ==
  ASSUME IInv, NEW q \in DOMAIN af, NEW v \in BOOLEAN,
         logs' = Append(logs, [run |-> q, view |-> v]),
         af' \in Seq(DagRun), Len(af') = Len(af), DOMAIN af' = DOMAIN af,
         UNCHANGED <<service, syncer, fixer>>
  PROVE  IInv'
<1> USE DEF service, syncer, fixer
<1>0. TypeOK
  BY DEF IInv
<1>1. /\ logs' \in Seq([run : DOMAIN af, view : BOOLEAN])
      /\ Len(logs') = Len(logs) + 1 /\ Len(logs) \in Nat
  <2>1. logs \in Seq([run : DOMAIN af, view : BOOLEAN]) /\ [run |-> q, view |-> v] \in [run : DOMAIN af, view : BOOLEAN]
    BY <1>0 DEF TypeOK
  <2>. QED  BY <2>1, AppendProperties, LenProperties
<1>2. ASSUME NEW r PROVE /\ LastLog(r)' = IF r = q THEN Len(logs) + 1 ELSE LastLog(r)
                         /\ LastLog(r) \in 0..Len(logs)
  <2>1. logs \in Seq([run : DOMAIN af, view : BOOLEAN])
    BY <1>0 DEF TypeOK
  <2>2. LastLog(r)' = LastIn(logs', r) /\ LastLog(r) = LastIn(logs, r)
    BY DEF LastLog, LastIn
  <2>3. LastIn(logs', r) = IF r = q THEN Len(logs) + 1 ELSE LastIn(logs, r)
    <3> DEFINE e == [run |-> q, view |-> v]
    <3>1. e \in [run : DOMAIN af, view : BOOLEAN] /\ e.run = q /\ logs' = Append(logs, e)
      OBVIOUS
    <3> HIDE DEF e
    <3>2. LastIn(Append(logs, e), r) = IF r = e.run THEN Len(logs) + 1 ELSE LastIn(logs, r)
      BY <2>1, <3>1, LastInAppend, Zenon
    <3>. QED  BY <3>1, <3>2
  <2>. QED  BY <1>0, <2>2, <2>3, Types
<1>3. known' = known
  BY DEF known
<1>4. TypeOK'
  <2>1. -1..Len(logs) \subseteq -1..Len(logs')
    BY <1>1
  <2>. QED  BY <1>0, <1>1, <1>3, <2>1 DEF TypeOK, Ids, IsData
<1>5. Cursors'
  BY <1>3 DEF IInv, Cursors
<1>6. InHand'
  BY <1>3 DEF IInv, InHand, Ids, Chunk, Bulk
<1>7. ASSUME NEW i \in DOMAIN to_update
      PROVE  /\ to_update[i].max_log_id \in Int
             /\ to_update[i].max_log_id <= LastLog(to_update[i].id)
             /\ to_update[i].max_log_id < Len(logs) + 1
  <2>1. to_update[i].max_log_id \in Int
    BY <1>0, Types DEF Work, None
  <2>2. to_update[i].max_log_id <= LastLog(to_update[i].id)
    BY DEF IInv, Lists
  <2>3. LastLog(to_update[i].id) \in 0..Len(logs)
    BY <1>2
  <2>. QED  BY <1>1, <2>1, <2>2, <2>3
<1>8. Lists'
  <2>1. ASSUME NEW i \in DOMAIN to_update
        PROVE  to_update[i].max_log_id <= LastLog(to_update[i].id)'
    BY <1>1, <1>2, <1>7
  <2>. QED  BY <2>1 DEF IInv, Lists, ById, ByLog, Chunk, Bulk
<1>9. RunPlan' /\ NoRunSkipped'
  BY <1>3 DEF IInv, RunPlan, NoRunSkipped, Ids
<1>10. ASSUME NEW r PROVE (Later(r) => Later(r)') /\ Later(q)'
  <2>1. \A i \in DOMAIN to_update : to_update[i].max_log_id < Len(logs) + 1
    BY <1>7
  <2>. QED  BY <1>2, <2>1 DEF Later
<1>11. LogPlan'
  <2> SUFFICES ASSUME pc \in Sending, NEW r \in DOMAIN af \ dropped,
                      last_seen_log_id < LastLog(r)'
               PROVE  \/ sent[r] >= LastLog(r)'
                      \/ r \in Ids(to_init)
                      \/ Later(r)'
                      \/ \E i \in DOMAIN to_update :
                           to_update[i].id = r /\ to_update[i].max_log_id = LastLog(r)'
    BY DEF LogPlan, Ids
  <2>1. CASE r = q
    BY <1>10, <2>1
  <2>2. CASE r # q
    BY <1>2, <1>10, <2>2 DEF IInv, LogPlan
  <2>. QED  BY <2>1, <2>2
<1>12. FreshData'
  BY <1>2, <1>10 DEF IInv, FreshData
<1>13. AllLogs'
  <2> SUFFICES ASSUME last_seen_log_id # None, NEW r \in DOMAIN af \ dropped,
                      base.log < LastLog(r)', LastLog(r)' <= last_seen_log_id
               PROVE  sent[r] >= LastLog(r)'
    BY DEF AllLogs
  <2>1. last_seen_log_id \in -1..Len(logs)
    BY <1>0 DEF TypeOK
  <2>2. r # q
    BY <1>1, <1>2, <2>1
  <2>. QED  BY <1>2, <2>2 DEF IInv, AllLogs
<1>. QED  BY <1>4, <1>5, <1>6, <1>8, <1>9, <1>11, <1>12, <1>13 DEF IInv

\* A change in Airflow (start, log entry, end of a dag run) keeps the invariant.
LEMMA AirflowStep == ASSUME IInv, Airflow PROVE IInv'
<1>0. TypeOK
  BY DEF IInv
<1>1. ASSUME NEW r \in DOMAIN af, NEW new \in DagRun, af' = [af EXCEPT ![r] = new]
      PROVE  af' \in Seq(DagRun) /\ Len(af') = Len(af) /\ DOMAIN af' = DOMAIN af
  <2>1. af \in Seq(DagRun) /\ r \in 1..Len(af) /\ DOMAIN af = 1..Len(af)
    BY <1>0, Types DEF TypeOK
  <2>2. af' \in Seq(DagRun) /\ Len(af') = Len(af)
    BY <1>1, <2>1, ExceptSeq
  <2>. QED  BY <1>1, <2>2
<1>2. ASSUME NEW r \in DOMAIN af PROVE af[r] \in DagRun
  BY <1>0, Types, ElementOfSeq DEF TypeOK
<1>3. ASSUME NEW r \in DOMAIN af, FinishRun(r) \/ PauseRun(r) PROVE IInv'
  <2>1. PICK new \in DagRun : af' = [af EXCEPT ![r] = new]
    BY <1>2, <1>3 DEF FinishRun, PauseRun, Change, DagRun
  <2>2. UNCHANGED <<logs, service, syncer, fixer>>
    BY <1>3 DEF FinishRun, PauseRun, Change
  <2>. QED  BY <1>1, <2>1, <2>2, EditStep
<1>4. ASSUME NEW r \in DOMAIN af, NEW state \in {"running", "success"}, LogEvent(r, state) PROVE IInv'
  <2>1. PICK new \in DagRun : af' = [af EXCEPT ![r] = new]
    BY <1>2, <1>4 DEF LogEvent, Change, DagRun
  <2>2. logs' = Append(logs, [run |-> r, view |-> FALSE]) /\ UNCHANGED <<service, syncer, fixer>>
    BY <1>4 DEF LogEvent, Change
  <2>. QED  BY <1>1, <2>1, <2>2, LogStep
<1>5. ASSUME NEW r \in DOMAIN af, LogView(r) PROVE IInv'
  <2>1. /\ logs' = Append(logs, [run |-> r, view |-> TRUE]) /\ UNCHANGED <<service, syncer, fixer>>
        /\ af' = af
    BY <1>5 DEF LogView
  <2>. QED  BY <1>0, <2>1, LogStep DEF TypeOK
<1>. QED  BY <1>3, <1>4, <1>5, StartRunStep DEF Airflow

-----------------------------------------------------------------------------
(***************************************************************************)
(* Steps of the syncer                                                     *)
(***************************************************************************)
\* What the tracking service keeps of the data of dag runs.
LEMMA StoreFacts ==
  ASSUME TypeOK, NEW d, IsData(d), Store(d)
  PROVE  /\ srv' \in [Runs -> Stored] /\ sent' \in [Runs -> Nat]
         /\ known' = known \cup DOMAIN d
         /\ \A r \in Runs : sent'[r] >= sent[r]
         /\ \A r \in DOMAIN d : sent'[r] >= d[r].last
<1>1. \A r \in DOMAIN d : r \in Runs /\ d[r] \in Full
  BY DEF IsData
<1>2. Full \subseteq Stored /\ Absent \notin Full
  BY DEF Full, Stored, Absent
<1>3. srv' \in [Runs -> Stored]
  BY <1>1, <1>2 DEF Store, TypeOK
<1>4. known' = known \cup DOMAIN d
  BY <1>1, <1>2 DEF known, Store
<1>5. \A r \in Runs : sent[r] \in Nat
  BY DEF TypeOK
<1>6. \A r \in DOMAIN d : d[r].last \in Nat
  BY <1>1 DEF Full
<1>7. ASSUME NEW r \in Runs
      PROVE  /\ sent'[r] \in Nat /\ sent'[r] >= sent[r]
             /\ r \in DOMAIN d => sent'[r] >= d[r].last
  <2>1. CASE r \in DOMAIN d
    <3>1. sent'[r] = Max({sent[r], d[r].last})
      BY <2>1 DEF Store
    <3>. QED  BY <1>5, <1>6, <2>1, <3>1, MaxOfTwo
  <2>2. CASE r \notin DOMAIN d
    BY <1>5, <2>2 DEF Store
  <2>. QED  BY <2>1, <2>2
<1>8. sent' \in [Runs -> Nat]
  BY <1>7 DEF Store
<1>. QED  BY <1>1, <1>3, <1>4, <1>7, <1>8

\* A sync that is over, or has not yet asked the plugin, has no plan to keep.
LEMMA QuietStep ==
  ASSUME IInv, UNCHANGED <<af, logs, fix, fix_data, dropped>>,
         srv' \in [Runs -> Stored], sent' \in [Runs -> Nat], base' \in [run : Int, log : Int],
         known \subseteq known', known' \subseteq DOMAIN af,
         last_seen_dag_run_id' \in (-1..Len(af)) \cup {None},
         last_seen_log_id' \in (-1..Len(logs)) \cup {None},
         dbnd' \in [active : SUBSET Runs, run : Int, log : Int],
         dbnd'.run \in (-1..Len(af)) \cup {None}, dbnd'.log \in (-1..Len(logs)) \cup {None},
         pc' \in {"idle", "seed", "seed_post", "fetch"},
         to_init' = <<>>, to_update' = <<>>, IsData(data'),
         NoRunSkipped', AllLogs', Cursors'
  PROVE  IInv'
<1>1. DOMAIN <<>> = {} /\ Ids(<<>>) = {} /\ \A S : <<>> \in Seq(S)
  BY EmptySeq DEF Ids
<1>2. TypeOK'
  <2>1. Ids(to_init)' = {} /\ Ids(to_update)' = {}
    BY <1>1 DEF Ids
  <2>. QED  BY <1>1, <2>1 DEF IInv, TypeOK, IsData
<1>3. InHand' /\ Lists'
  BY <1>1 DEF IInv, InHand, Lists
<1>4. RunPlan' /\ LogPlan' /\ FreshData'
  BY DEF RunPlan, LogPlan, FreshData, Loading, Sending
<1>. QED  BY <1>2, <1>3, <1>4 DEF IInv

\* A sync asks the tracking service, and the first one then for the ends of the tables.
LEMMA AskStep ==
  ASSUME IInv, GetActiveDagRuns \/ GetLastSeenValues \/ UpdateLastSeenValues
  PROVE  IInv'
<1> USE DEF airflow, service, syncer, fixer
<1>0. /\ TypeOK /\ known' = known /\ UNCHANGED <<af, logs, fix, fix_data, dropped, srv, sent, data, to_init, to_update>>
      /\ to_init = <<>> /\ to_update = <<>>
  BY DEF IInv, GetActiveDagRuns, GetLastSeenValues, UpdateLastSeenValues, Seed, Works, Raises,
         known, Cursors, Loading, Sending
<1>1. \A r : LastLog(r)' = LastLog(r)
  BY <1>0 DEF LastLog
<1>2. /\ Len(af) \in Nat /\ Len(logs) \in Nat
  BY <1>0, Types
<1>3. last_seen_dag_run_id \in (-1..Len(af)) \cup {None} /\ last_seen_log_id \in (-1..Len(logs)) \cup {None}
  BY <1>0 DEF TypeOK
<1>4. UNCHANGED <<last_seen_dag_run_id, last_seen_log_id, base>> => NoRunSkipped' /\ AllLogs'
  BY <1>0, <1>1 DEF IInv, NoRunSkipped, AllLogs
<1>5. CASE GetActiveDagRuns
  <2>1. /\ UNCHANGED <<last_seen_dag_run_id, last_seen_log_id, base>> /\ Active \subseteq known
        /\ dbnd' = [active |-> Active, run |-> last_seen_dag_run_id, log |-> last_seen_log_id]
        /\ pc' = IF None \in {last_seen_dag_run_id, last_seen_log_id} THEN "seed" ELSE "fetch"
    BY <1>5 DEF GetActiveDagRuns, Active
  <2>2. known \subseteq Runs
    BY DEF known
  <2>3. Cursors'
    BY <1>0, <2>1 DEF IInv, Cursors, Loading, Sending
  <2>4. dbnd' \in [active : SUBSET Runs, run : Int, log : Int]
    BY <1>3, <2>1, <2>2 DEF None
  <2>. QED  BY <1>0, <1>3, <1>4, <2>1, <2>3, <2>4, QuietStep DEF TypeOK
<1>6. CASE GetLastSeenValues
  <2>1. /\ UNCHANGED <<last_seen_dag_run_id, last_seen_log_id, base>> /\ pc = "seed" /\ pc' = "seed_post"
        /\ dbnd' = [dbnd EXCEPT !.run = IF af = <<>> THEN -1 ELSE Len(af),
                                !.log = IF logs = <<>> THEN -1 ELSE Len(logs)]
    BY <1>6 DEF GetLastSeenValues
  <2>2. dbnd \in [active : SUBSET Runs, run : Int, log : Int]
    BY <1>0 DEF TypeOK
  <2>3. /\ dbnd' \in [active : SUBSET Runs, run : Int, log : Int]
        /\ dbnd'.run \in -1..Len(af) /\ dbnd'.log \in -1..Len(logs)
    <3> DEFINE run == IF af = <<>> THEN -1 ELSE Len(af)
               log == IF logs = <<>> THEN -1 ELSE Len(logs)
    <3>1. run \in -1..Len(af) /\ log \in -1..Len(logs) /\ run \in Int /\ log \in Int
      BY <1>2
    <3>2. dbnd' = [dbnd EXCEPT !.run = run, !.log = log]
      BY <2>1
    <3> HIDE DEF run, log
    <3>. QED  BY <2>2, <3>1, <3>2
  <2>4. Cursors'
    BY <1>0, <1>2, <2>1, <2>3 DEF IInv, Cursors, Loading, Sending, None
  <2>. QED  BY <1>0, <1>3, <1>4, <2>1, <2>3, <2>4, QuietStep DEF TypeOK
<1>7. CASE UpdateLastSeenValues
  <2>1. /\ pc = "seed_post" /\ pc' = "idle" /\ dbnd' = NoResponse
        /\ Seed \/ UNCHANGED service
    BY <1>7 DEF UpdateLastSeenValues, Works, Raises
  <2>2. /\ dbnd' \in [active : SUBSET Runs, run : Int, log : Int]
        /\ dbnd'.run = None /\ dbnd'.log = None
    BY <2>1 DEF NoResponse, None
  <2>3. CASE UNCHANGED service
    <3>1. Cursors'
      BY <1>0, <2>1, <2>3 DEF IInv, Cursors, Loading, Sending
    <3>. QED  BY <1>0, <1>3, <1>4, <2>1, <2>2, <2>3, <3>1, QuietStep DEF TypeOK
  <2>4. CASE Seed
    <3>1. /\ last_seen_dag_run_id' = dbnd.run /\ last_seen_log_id' = dbnd.log
          /\ base' = [run |-> dbnd.run, log |-> dbnd.log]
      BY <2>4 DEF Seed
    <3>2. /\ dbnd.run \in -1..Len(af) /\ dbnd.log \in -1..Len(logs) /\ dbnd.run # None /\ dbnd.log # None
      BY <1>0, <2>1 DEF IInv, Cursors, TypeOK
    <3>3. Cursors'
      BY <1>0, <2>1, <3>1, <3>2 DEF Cursors, Loading, Sending
    <3>4. base' \in [run : Int, log : Int] /\ base'.run = dbnd.run /\ base'.log = dbnd.log
      BY <3>1, <3>2
    <3>5. NoRunSkipped'
      <4>1. DOMAIN af \subseteq Int
        BY <1>0, Types
      <4>. QED  BY <1>0, <3>1, <3>2, <3>4, <4>1 DEF NoRunSkipped
    <3>6. AllLogs'
      <4>1. \A r : LastLog(r) \in Int
        BY <1>0, <1>2, Types
      <4>. QED  BY <1>0, <1>1, <3>1, <3>2, <3>4, <4>1 DEF AllLogs
    <3>. QED  BY <1>0, <2>1, <2>2, <3>1, <3>2, <3>3, <3>4, <3>5, <3>6, QuietStep DEF TypeOK
  <2>. QED  BY <2>1, <2>3, <2>4
<1>. QED  BY <1>5, <1>6, <1>7

-----------------------------------------------------------------------------
(***************************************************************************)
(* The plan: what the plugin answers and how the loops work through it      *)
(***************************************************************************)
\* The newest log entry that the plugin gives for r.
Top(r) == IF NewLogs(r) = {} THEN None ELSE Max(NewLogs(r))

\* What the plugin says of r, as the loops use it.  The state is never "RUNNING" and
\* the events are lost on the way, so what is active is updated and all else is new.
LEMMA Answer ==
  ASSUME TypeOK, NEW r \in DOMAIN af
  PROVE  /\ Entry(FromDict(NewDagRun(r))) = [id |-> r, max_log_id |-> Top(r)]
         /\ ToInit(FromDict(NewDagRun(r))) <=> r \notin dbnd.active
         /\ ToUpdate(FromDict(NewDagRun(r))) <=> r \in dbnd.active
         /\ Top(r) \in Nat \cup {None} /\ Top(r) <= LastLog(r)
         /\ dbnd.log < LastLog(r) /\ LastLog(r) # 0 => IsNew(r) /\ Top(r) = LastLog(r)
<1>1. af[r] \in DagRun
  BY Types, ElementOfSeq DEF TypeOK
<1>2. FromDict(NewDagRun(r)) =
        [id |-> r, state |-> af[r].state, is_paused |-> af[r].paused,
         has_updated_task_instances |-> NewLogs(r) # {}, max_log_id |-> Top(r), events |-> {}]
  <2> DEFINE has == NewLogs(r) # {}
             old == {logs[l].view : l \in NewLogs(r)}
             dr == [id |-> r, state |-> af[r].state, is_paused |-> af[r].paused,
                    has_updated_task_instances |-> has, max_log_id |-> Top(r), events |-> old]
  <2>1. FromDict(NewDagRun(r)) = [dr EXCEPT !.events = {}]
    BY DEF FromDict, NewDagRun, Top
  <2> HIDE DEF has, old
  <2>2. [dr EXCEPT !.events = {}] =
          [id |-> r, state |-> af[r].state, is_paused |-> af[r].paused,
           has_updated_task_instances |-> has, max_log_id |-> Top(r), events |-> {}]
    OBVIOUS
  <2>. QED  BY <2>1, <2>2 DEF has
<1>3. IsFinished(FromDict(NewDagRun(r))) /\ ~IsViewOnlyEvents(FromDict(NewDagRun(r)))
  <2>1. FromDict(NewDagRun(r)).state = af[r].state /\ FromDict(NewDagRun(r)).events = {}
    BY <1>2
  <2>2. af[r].state # "RUNNING" /\ {} # {TRUE}
    BY <1>1 DEF DagRun
  <2>. QED  BY <2>1, <2>2 DEF IsFinished, IsViewOnlyEvents
<1>4. FromDict(NewDagRun(r)).id = r
  BY <1>2
<1>5. /\ ToInit(FromDict(NewDagRun(r))) <=> r \notin dbnd.active
      /\ ToUpdate(FromDict(NewDagRun(r))) <=> r \in dbnd.active
  BY <1>3, <1>4 DEF ToInit, ToUpdate
<1>6. Entry(FromDict(NewDagRun(r))) = [id |-> r, max_log_id |-> Top(r)]
  BY <1>2 DEF Entry
<1>7. /\ Len(logs) \in Nat /\ DOMAIN logs = 1..Len(logs) /\ LastLog(r) \in 0..Len(logs)
      /\ \A l \in DOMAIN logs : logs[l].run = r => l <= LastLog(r)
      /\ LastLog(r) # 0 => LastLog(r) \in DOMAIN logs /\ logs[LastLog(r)].run = r
  <2>1. LastLog(r) = LastIn(logs, r)
    BY DEF LastLog, LastIn
  <2>2. logs \in Seq([run : DOMAIN af, view : BOOLEAN])
    BY DEF TypeOK
  <2>3. /\ LastIn(logs, r) \in 0..Len(logs)
        /\ \A l \in DOMAIN logs : logs[l].run = r => l <= LastIn(logs, r)
        /\ LastIn(logs, r) # 0 => LastIn(logs, r) \in DOMAIN logs /\ logs[LastIn(logs, r)].run = r
    BY <2>2, LastInFacts, Zenon
  <2>. QED  BY <2>1, <2>3, Types
<1>8. NewLogs(r) # {} => Max(NewLogs(r)) \in NewLogs(r) /\ \A x \in NewLogs(r) : x <= Max(NewLogs(r))
  <2>1. NewLogs(r) \in SUBSET Int /\ \A x \in NewLogs(r) : x <= Len(logs)
    BY <1>7 DEF NewLogs
  <2>2. Len(logs) \in Int
    BY <1>7
  <2>. QED  BY <2>1, <2>2, MaxFacts
<1>9. Top(r) \in Nat \cup {None} /\ Top(r) <= LastLog(r)
  <2>1. CASE NewLogs(r) = {}
    BY <1>7, <2>1 DEF Top, None
  <2>2. CASE NewLogs(r) # {}
    BY <1>7, <1>8, <2>2 DEF Top, NewLogs
  <2>. QED  BY <2>1, <2>2
<1>10. ASSUME dbnd.log < LastLog(r), LastLog(r) # 0 PROVE IsNew(r) /\ Top(r) = LastLog(r)
  <2>1. LastLog(r) \in NewLogs(r)
    BY <1>7, <1>10 DEF NewLogs, TypeOK, None
  <2>2. Max(NewLogs(r)) <= LastLog(r) /\ LastLog(r) <= Max(NewLogs(r)) /\ Max(NewLogs(r)) \in Int
    BY <1>7, <1>8, <2>1 DEF NewLogs
  <2>. QED  BY <1>7, <2>1, <2>2 DEF IsNew, Top
<1>. QED  BY <1>5, <1>6, <1>9, <1>10

\* The dag runs that the plugin gives, split into the two lists.
Asked(new) == {[id |-> r, max_log_id |-> Top(r)] : r \in {q \in DOMAIN af : IsNew(q) /\ (q \notin dbnd.active <=> new)}}

\* The answer of the export plugin is a finite set of work.
LEMMA AskedFacts ==
  ASSUME TypeOK, NEW new \in BOOLEAN
  PROVE  IsFiniteSet(Asked(new)) /\ Asked(new) \subseteq Work
<1> DEFINE f == [r \in DOMAIN af |-> [id |-> r, max_log_id |-> Top(r)]]
           T == {f[r] : r \in DOMAIN af}
<1>1. IsFiniteSet(DOMAIN af) /\ DOMAIN af \subseteq Nat
  BY Types, FS_Interval
<1>2. f \in Surjection(DOMAIN af, T)
  BY DEF Surjection
<1>3. IsFiniteSet(T)
  BY <1>1, <1>2, FS_Surjection
<1>4. Asked(new) \subseteq T
  BY DEF Asked
<1>5. T \subseteq Work
  <2> SUFFICES ASSUME NEW r \in DOMAIN af PROVE [id |-> r, max_log_id |-> Top(r)] \in Work
    OBVIOUS
  <2>. QED  BY <1>1, Answer DEF Work
<1>. QED  BY <1>3, <1>4, <1>5, FS_Subset

\* An enumeration of a finite set is a sequence over it.
LEMMA FiniteSeq ==
  ASSUME NEW S, IsFiniteSet(S), NEW s \in [1..Cardinality(S) -> S]
  PROVE  s \in Seq(S) /\ DOMAIN s = 1..Cardinality(S)
BY FS_CardinalityType, SeqDef

\* The plan holds when it is made: the cursors that the plugin was asked with are still
\* those of the tracking service.
LEMMA PlanStep == ASSUME IInv, GetDagRunsToSync PROVE IInv'
<1> USE DEF airflow, service, syncer, fixer
<1>0. /\ TypeOK /\ known' = known /\ UNCHANGED <<af, logs, fix, fix_data, dropped, srv, sent, data, base>>
      /\ UNCHANGED <<last_seen_dag_run_id, last_seen_log_id>>
      /\ pc = "fetch" /\ pc' = "init" /\ dbnd' = NoResponse
  BY DEF IInv, GetDagRunsToSync, known
<1>1. \A r : LastLog(r)' = LastLog(r)
  BY <1>0 DEF LastLog
<1>2. /\ last_seen_dag_run_id # None /\ last_seen_log_id # None
      /\ dbnd.run = last_seen_dag_run_id /\ dbnd.log = last_seen_log_id
      /\ dbnd.active \subseteq known
  BY <1>0 DEF IInv, Cursors
<1>3. /\ Len(af) \in 0..MaxRuns /\ MaxRuns \in Nat /\ DOMAIN af = 1..Len(af) /\ DOMAIN af \subseteq Runs
      /\ Len(logs) \in Nat /\ \A r : LastLog(r) \in 0..Len(logs)
  BY <1>0, Types
<1>4. /\ to_init' \in Sorted(Asked(TRUE), ById)
      /\ to_update' \in Sorted(Asked(FALSE), ByLog)
  <2> DEFINE dag_runs == {FromDict(NewDagRun(r)) : r \in {q \in DOMAIN af : IsNew(q)}}
  <2>1. {Entry(dr) : dr \in {x \in dag_runs : ToInit(x)}} = Asked(TRUE)
    BY <1>0, Answer DEF Asked
  <2>2. {Entry(dr) : dr \in {x \in dag_runs : ToUpdate(x)}} = Asked(FALSE)
    BY <1>0, Answer DEF Asked
  <2>. QED  BY <2>1, <2>2 DEF GetDagRunsToSync
<1>5. /\ to_init' \in Seq(Work) /\ Range(to_init') = Asked(TRUE)
      /\ \A i, j \in DOMAIN to_init' : i < j => ById(to_init'[i], to_init'[j])
  <2>1. /\ to_init' \in [1..Cardinality(Asked(TRUE)) -> Asked(TRUE)] /\ Range(to_init') = Asked(TRUE)
        /\ \A i, j \in DOMAIN to_init' : i < j => ById(to_init'[i], to_init'[j])
    BY <1>4 DEF Sorted
  <2>2. IsFiniteSet(Asked(TRUE)) /\ Asked(TRUE) \subseteq Work
    BY <1>0, AskedFacts
  <2>. QED  BY <2>1, <2>2, FiniteSeq, SeqMonotonic
<1>6. /\ to_update' \in Seq(Work) /\ Range(to_update') = Asked(FALSE)
      /\ \A i, j \in DOMAIN to_update' : i < j => ByLog(to_update'[i], to_update'[j])
  <2>1. /\ to_update' \in [1..Cardinality(Asked(FALSE)) -> Asked(FALSE)] /\ Range(to_update') = Asked(FALSE)
        /\ \A i, j \in DOMAIN to_update' : i < j => ByLog(to_update'[i], to_update'[j])
    BY <1>4 DEF Sorted
  <2>2. IsFiniteSet(Asked(FALSE)) /\ Asked(FALSE) \subseteq Work
    BY <1>0, AskedFacts
  <2>. QED  BY <2>1, <2>2, FiniteSeq, SeqMonotonic
<1>7. ASSUME NEW i \in DOMAIN to_init' PROVE to_init'[i].id \in DOMAIN af
  <2>1. to_init'[i] \in Asked(TRUE)
    BY <1>5 DEF Range
  <2>. QED  BY <2>1 DEF Asked
<1>8. ASSUME NEW i \in DOMAIN to_update'
      PROVE  /\ to_update'[i].id \in DOMAIN af
             /\ to_update'[i].max_log_id <= LastLog(to_update'[i].id)
  <2>1. to_update'[i] \in Asked(FALSE)
    BY <1>6 DEF Range
  <2>2. PICK r \in DOMAIN af : to_update'[i] = [id |-> r, max_log_id |-> Top(r)]
    BY <2>1 DEF Asked
  <2>3. to_update'[i].id = r /\ to_update'[i].max_log_id = Top(r)
    BY <2>2
  <2>. QED  BY <1>0, <2>3, Answer
<1>9. ASSUME NEW r \in DOMAIN af, IsNew(r), r \notin dbnd.active PROVE r \in Ids(to_init')
  <2>1. [id |-> r, max_log_id |-> Top(r)] \in Range(to_init')
    BY <1>5, <1>9 DEF Asked
  <2>2. PICK i \in DOMAIN to_init' : to_init'[i] = [id |-> r, max_log_id |-> Top(r)]
    BY <2>1 DEF Range
  <2>3. to_init'[i].id = r
    BY <2>2
  <2>. QED  BY <2>3 DEF Ids
<1>10. ASSUME NEW r \in DOMAIN af, IsNew(r), r \in dbnd.active
       PROVE  \E i \in DOMAIN to_update' : to_update'[i].id = r /\ to_update'[i].max_log_id = Top(r)
  <2>1. [id |-> r, max_log_id |-> Top(r)] \in Range(to_update')
    BY <1>6, <1>10 DEF Asked
  <2>2. PICK i \in DOMAIN to_update' : to_update'[i] = [id |-> r, max_log_id |-> Top(r)]
    BY <2>1 DEF Range
  <2>3. to_update'[i].id = r /\ to_update'[i].max_log_id = Top(r)
    BY <2>2
  <2>. QED  BY <2>3
<1>11. TypeOK'
  <2>1. /\ dbnd' \in [active : SUBSET Runs, run : Int, log : Int]
        /\ dbnd'.run = None /\ dbnd'.log = None
    BY <1>0 DEF NoResponse, None
  <2>2. Ids(to_init') \cup Ids(to_update') \subseteq DOMAIN af
    BY <1>7, <1>8 DEF Ids
  <2>. QED  BY <1>0, <1>5, <1>6, <2>1, <2>2 DEF TypeOK, IsData, Ids
<1>12. Cursors' /\ InHand'
  BY <1>0, <1>2 DEF IInv, Cursors, InHand, Loading, Sending
<1>13. Lists'
  BY <1>0, <1>1, <1>5, <1>6, <1>8 DEF Lists, ById, ByLog
<1>14. RunPlan'
  <2> SUFFICES ASSUME NEW r \in DOMAIN af \ known, base.run < r PROVE r \in Ids(to_init')
    BY <1>0 DEF RunPlan, Ids
  <2>1. r > dbnd.run
    <3>1. ~(r <= last_seen_dag_run_id)
      BY <1>2 DEF IInv, NoRunSkipped
    <3>2. last_seen_dag_run_id \in Int /\ r \in Int
      BY <1>0, <1>3 DEF TypeOK, None
    <3>. QED  BY <1>2, <3>1, <3>2
  <2>2. IsNew(r) /\ r \notin dbnd.active
    BY <1>2, <2>1 DEF IsNew
  <2>. QED  BY <1>9, <2>2
<1>15. LogPlan'
  <2> SUFFICES ASSUME NEW r \in DOMAIN af, last_seen_log_id < LastLog(r)
               PROVE  \/ sent[r] >= LastLog(r)
                      \/ r \in Ids(to_init')
                      \/ \E i \in DOMAIN to_update' :
                           to_update'[i].id = r /\ to_update'[i].max_log_id = LastLog(r)
    BY <1>0, <1>1 DEF LogPlan, Ids
  <2>1. CASE LastLog(r) = 0
    BY <1>0, <1>3, <2>1 DEF TypeOK
  <2>2. CASE LastLog(r) # 0
    <3>1. IsNew(r) /\ Top(r) = LastLog(r)
      BY <1>0, <1>2, <2>2, Answer
    <3>. QED  BY <1>9, <1>10, <3>1
  <2>. QED  BY <2>1, <2>2
<1>16. NoRunSkipped' /\ AllLogs'
  BY <1>0, <1>1 DEF IInv, NoRunSkipped, AllLogs
<1>17. FreshData'
  BY <1>0 DEF FreshData
<1>. QED  BY <1>11, <1>12, <1>13, <1>14, <1>15, <1>16, <1>17 DEF IInv

\* Data that Airflow gives are data of the type the service stores, as new as the log.
LEMMA FetchFacts ==
  ASSUME TypeOK, NEW ids, ids \subseteq DOMAIN af
  PROVE  IsData(Fetch(ids)) /\ DOMAIN Fetch(ids) = ids /\ \A r \in ids : Fetch(ids)[r].last = LastLog(r)
<1>1. ASSUME NEW r \in ids PROVE FullDagRun(r) \in Full /\ FullDagRun(r).last = LastLog(r)
  <2>1. af[r] \in DagRun /\ LastLog(r) \in Nat
    BY Types, ElementOfSeq DEF TypeOK
  <2>. QED  BY <2>1 DEF FullDagRun, Full, DagRun
<1>2. ids \subseteq Runs
  BY Types
<1>. QED  BY <1>1, <1>2 DEF Fetch, IsData

\* Fetching the data of a chunk: it is as new as Airflow is at that moment.
LEMMA FetchStep == ASSUME IInv, FetchToInit \/ FetchToUpdate \/ InitEnds PROVE IInv'
<1> USE DEF airflow, service, syncer, fixer
<1>0. /\ TypeOK /\ known' = known /\ UNCHANGED <<af, logs, fix, fix_data, dropped, srv, sent, base>>
      /\ UNCHANGED <<last_seen_dag_run_id, last_seen_log_id, dbnd, to_init, to_update>>
  BY DEF IInv, FetchToInit, FetchToUpdate, InitEnds, known
<1>1. \A r : LastLog(r)' = LastLog(r) /\ Later(r)' = Later(r)
  BY <1>0 DEF LastLog, Later
<1>2. /\ Ids(to_init)' = Ids(to_init) /\ Ids(to_update)' = Ids(to_update)
      /\ Chunk(to_init)' = Chunk(to_init) /\ Chunk(to_update)' = Chunk(to_update)
      /\ Ids(Chunk(to_init))' = Ids(Chunk(to_init)) /\ Ids(Chunk(to_update))' = Ids(Chunk(to_update))
  BY <1>0 DEF Ids, Chunk, Bulk
<1>3. Ids(Chunk(to_init)) \subseteq DOMAIN af /\ Ids(Chunk(to_update)) \subseteq DOMAIN af
  BY <1>0, ChunkIds DEF TypeOK
<1>4. NoRunSkipped' /\ AllLogs'
  BY <1>0, <1>1 DEF IInv, NoRunSkipped, AllLogs
<1>5. ASSUME IsData(data'), pc' \in {"init_post", "update", "update_post"} PROVE TypeOK'
  BY <1>0, <1>2, <1>5 DEF TypeOK, IsData
<1>6. LogPlan /\ pc \in Sending /\ pc' \in Sending => LogPlan'
  BY <1>0, <1>1, <1>2 DEF LogPlan
<1>7. CASE FetchToInit
  <2>1. pc = "init" /\ pc' = "init_post" /\ data' = Fetch(Ids(Chunk(to_init)))
    BY <1>7 DEF FetchToInit
  <2>2. /\ IsData(data') /\ DOMAIN data' = Ids(Chunk(to_init))
        /\ \A r \in DOMAIN data' : data'[r].last = LastLog(r)
    BY <1>0, <1>3, <2>1, FetchFacts
  <2>3. Cursors' /\ InHand' /\ RunPlan'
    BY <1>0, <1>2, <2>1, <2>2 DEF IInv, Cursors, InHand, RunPlan, Loading, Sending
  <2>4. Lists'
    BY <1>0, <1>1, <2>1 DEF IInv, Lists, ById, ByLog
  <2>5. LogPlan'
    BY <1>6, <2>1 DEF IInv, Sending
  <2>6. FreshData'
    BY <1>0, <1>1, <2>2, Types DEF FreshData
  <2>. QED  BY <1>4, <1>5, <2>1, <2>2, <2>3, <2>4, <2>5, <2>6 DEF IInv
<1>8. CASE FetchToUpdate
  <2>1. pc = "update" /\ pc' = "update_post" /\ data' = Fetch(Ids(Chunk(to_update)))
    BY <1>8 DEF FetchToUpdate
  <2>2. /\ IsData(data') /\ DOMAIN data' = Ids(Chunk(to_update))
        /\ \A r \in Ids(Chunk(to_update)) : data'[r].last = LastLog(r)
    BY <1>0, <1>3, <2>1, FetchFacts
  <2>3. Cursors' /\ InHand' /\ RunPlan' /\ FreshData'
    BY <1>0, <1>2, <2>1, <2>2 DEF IInv, Cursors, InHand, RunPlan, FreshData, Loading, Sending
  <2>4. ASSUME NEW i \in DOMAIN Chunk(to_update)
        PROVE  to_update[i].max_log_id <= data'[to_update[i].id].last
    <3>1. to_update \in Seq(Work)
      BY <1>0 DEF TypeOK
    <3>2. i \in DOMAIN to_update /\ Chunk(to_update)[i] = to_update[i]
      BY ONLY <2>4, <3>1, ChunkPlace
    <3>3. to_update[i].id \in Ids(Chunk(to_update))
      BY <3>2 DEF Ids
    <3>. QED  BY <2>2, <3>2, <3>3 DEF IInv, Lists
  <2>5. Lists'
    BY <1>0, <1>1, <1>2, <2>4 DEF IInv, Lists, ById, ByLog
  <2>6. LogPlan'
    BY <1>6, <2>1 DEF IInv, Sending
  <2>. QED  BY <1>4, <1>5, <2>1, <2>2, <2>3, <2>5, <2>6 DEF IInv
<1>9. CASE InitEnds
  <2>1. pc = "init" /\ pc' = "update" /\ data' = data /\ to_init = <<>>
    BY <1>9 DEF InitEnds
  <2>2. Cursors' /\ InHand' /\ RunPlan' /\ FreshData'
    BY <1>0, <2>1 DEF IInv, Cursors, InHand, RunPlan, FreshData, Loading, Sending
  <2>3. Lists'
    BY <1>0, <1>1, <2>1 DEF IInv, Lists, ById, ByLog
  <2>4. LogPlan'
    BY <1>6, <2>1 DEF IInv, Sending
  <2>. QED  BY <1>0, <1>4, <1>5, <2>1, <2>2, <2>3, <2>4 DEF IInv, TypeOK
<1>. QED  BY <1>7, <1>8, <1>9

-----------------------------------------------------------------------------
(***************************************************************************)
(* Steps that send a chunk                                                 *)
(***************************************************************************)
\* Entries of the rest of a list are entries of the list behind those of the chunk.
LEMMA SplitList ==
  ASSUME NEW s \in Seq(Work), NEW i \in DOMAIN s
  PROVE  \/ i \in DOMAIN Chunk(s) /\ Chunk(s)[i] = s[i]
         \/ /\ i - Bulk(s) \in DOMAIN Rest(s) /\ Rest(s)[i - Bulk(s)] = s[i]
            /\ \A k \in DOMAIN Chunk(s) : k < i
<1>1. /\ Bulk(s) \in 0..Len(s) /\ Len(s) \in Nat /\ DOMAIN s = 1..Len(s)
      /\ DOMAIN Chunk(s) = 1..Bulk(s) /\ \A k \in 1..Bulk(s) : Chunk(s)[k] = s[k]
      /\ DOMAIN Rest(s) = 1..(Len(s) - Bulk(s))
      /\ \A k \in 1..(Len(s) - Bulk(s)) : Rest(s)[k] = s[k + Bulk(s)]
  BY ChunkFacts
<1>2. CASE i <= Bulk(s)
  BY <1>1, <1>2
<1>3. CASE ~(i <= Bulk(s))
  <2>1. i - Bulk(s) \in DOMAIN Rest(s) /\ (i - Bulk(s)) + Bulk(s) = i
    BY <1>1, <1>3
  <2>2. Rest(s)[i - Bulk(s)] = s[(i - Bulk(s)) + Bulk(s)]
    BY <1>1, <2>1
  <2>. QED  BY <1>1, <1>3, <2>1, <2>2
<1>. QED  BY <1>2, <1>3

\* The rest of a work list keeps the order of the list.
LEMMA RestFacts ==
  ASSUME NEW s \in Seq(Work)
  PROVE  /\ Rest(s) \in Seq(Work) /\ Ids(Rest(s)) \subseteq Ids(s)
         /\ \A i \in DOMAIN Chunk(s) : i \in DOMAIN s /\ Chunk(s)[i] = s[i]
         /\ \A i \in DOMAIN Rest(s) : i + Bulk(s) \in DOMAIN s /\ Rest(s)[i] = s[i + Bulk(s)]
         /\ \A i, j \in DOMAIN Rest(s) : i < j => i + Bulk(s) < j + Bulk(s)
<1>1. /\ Bulk(s) \in 0..Len(s) /\ Len(s) \in Nat /\ DOMAIN s = 1..Len(s)
      /\ DOMAIN Chunk(s) = 1..Bulk(s) /\ \A k \in 1..Bulk(s) : Chunk(s)[k] = s[k]
      /\ DOMAIN Rest(s) = 1..(Len(s) - Bulk(s))
      /\ \A k \in 1..(Len(s) - Bulk(s)) : Rest(s)[k] = s[k + Bulk(s)]
      /\ Rest(s) \in Seq(Work)
  BY ChunkFacts
<1>2. Ids(Rest(s)) \subseteq Ids(s)
  BY ChunkIds
<1>. QED  BY <1>1, <1>2

\* The dag run cursor moves to a dag run of the chunk, and every one before it is known then.
LEMMA InitEffect ==
  ASSUME IInv, pc = "init_post", InitDagRuns(data), UNCHANGED <<af, logs>>
  PROVE  /\ srv' \in [Runs -> Stored] /\ sent' \in [Runs -> Nat]
         /\ known' = known \cup Ids(Chunk(to_init)) /\ known' \subseteq DOMAIN af
         /\ last_seen_dag_run_id' \in -1..Len(af)
         /\ UNCHANGED <<last_seen_log_id, base>>
         /\ \A r \in Runs : sent'[r] >= sent[r] /\ sent[r] \in Nat /\ sent'[r] \in Nat
         /\ \A r \in DOMAIN data : sent'[r] >= data[r].last /\ data[r].last \in Nat
         /\ NoRunSkipped'
<1>0. TypeOK /\ IsData(data) /\ DOMAIN data = Ids(Chunk(to_init)) /\ to_init \in Seq(Work)
  BY DEF IInv, InHand, TypeOK
<1>1. /\ srv' \in [Runs -> Stored] /\ sent' \in [Runs -> Nat]
      /\ known' = known \cup DOMAIN data
      /\ \A r \in Runs : sent'[r] >= sent[r]
      /\ \A r \in DOMAIN data : sent'[r] >= data[r].last
  <2>1. Store(data)
    BY DEF InitDagRuns
  <2>. QED  BY <1>0, <2>1, StoreFacts
<1>2. Ids(Chunk(to_init)) \subseteq DOMAIN af
  BY <1>0, ChunkIds DEF TypeOK
<1>3. known' = known \cup Ids(Chunk(to_init)) /\ known' \subseteq DOMAIN af
  BY <1>0, <1>1, <1>2 DEF TypeOK
<1>4. \A r \in DOMAIN data : data[r].last \in Nat
  BY <1>0 DEF IsData, Full
<1>5. Len(af) \in Nat /\ DOMAIN af = 1..Len(af)
  BY <1>0, Types
<1>6. last_seen_dag_run_id \in -1..Len(af) /\ last_seen_dag_run_id # None
  BY <1>0 DEF IInv, Cursors, TypeOK, Sending
<1>7. /\ last_seen_dag_run_id' \in {last_seen_dag_run_id} \cup DOMAIN data
      /\ last_seen_dag_run_id' \in -1..Len(af)
  <2> DEFINE S == {last_seen_dag_run_id} \cup DOMAIN data
  <2>1. S \in SUBSET Int /\ S # {} /\ Len(af) \in Int /\ \A x \in S : x <= Len(af) /\ x >= -1
    BY <1>0, <1>2, <1>5, <1>6
  <2>2. last_seen_dag_run_id' = Max(S)
    BY DEF InitDagRuns
  <2> HIDE DEF S
  <2>3. Max(S) \in S
    BY <2>1, MaxFacts
  <2>4. Max(S) \in -1..Len(af)
    <3>1. Max(S) \in Int /\ Max(S) <= Len(af) /\ Max(S) >= -1
      BY <2>1, <2>3
    <3>. QED  BY <1>5, <3>1
  <2>. QED  BY <2>2, <2>3, <2>4 DEF S
<1>8. NoRunSkipped'
  <2> SUFFICES ASSUME NEW r \in DOMAIN af, base.run < r, r <= last_seen_dag_run_id', r \notin known'
               PROVE  FALSE
    BY DEF NoRunSkipped, InitDagRuns
  <2>1. last_seen_dag_run_id' \in DOMAIN data
    BY <1>1, <1>6, <1>7 DEF IInv, NoRunSkipped
  <2>2. PICK i \in DOMAIN Chunk(to_init) : last_seen_dag_run_id' = Chunk(to_init)[i].id
    BY <1>0, <2>1 DEF Ids
  <2>3. i \in DOMAIN to_init /\ last_seen_dag_run_id' = to_init[i].id
    BY <1>0, <2>2, RestFacts
  <2>4. r < to_init[i].id
    <3>1. last_seen_dag_run_id' \in known'
      BY <1>1, <2>1
    <3>2. r # last_seen_dag_run_id'
      BY <3>1
    <3>. QED  BY <1>5, <1>7, <2>3, <3>2
  <2>5. r \in Ids(to_init)
    BY <1>1, <2>3, <2>4 DEF IInv, RunPlan, Loading
  <2>6. PICK j \in DOMAIN to_init : to_init[j].id = r
    BY <2>5 DEF Ids
  <2>7. j \notin DOMAIN Chunk(to_init)
    <3>1. SUFFICES ASSUME j \in DOMAIN Chunk(to_init) PROVE FALSE
      OBVIOUS
    <3>2. Chunk(to_init)[j].id = r
      BY <1>0, <2>6, <3>1, RestFacts
    <3>. QED  BY <1>3, <3>1, <3>2 DEF Ids
  <2>8. i < j
    BY <1>0, <2>2, <2>7, SplitList
  <2>9. to_init[i].id < r
    BY <2>3, <2>6, <2>8 DEF IInv, Lists, ById
  <2>. QED  BY <1>5, <1>7, <2>3, <2>4, <2>9
<1>. QED  BY <1>0, <1>1, <1>3, <1>4, <1>7, <1>8 DEF TypeOK, InitDagRuns

\* init_dagruns for one chunk, answered, failed or failed after taking effect.
LEMMA InitChunkStep == ASSUME IInv, InitChunk PROVE IInv'
<1> USE DEF airflow, service, syncer, fixer
<1>0. /\ TypeOK /\ pc = "init_post" /\ pc' = "init" /\ InitDagRuns(data)
      /\ UNCHANGED <<af, logs, fix, fix_data, dropped, dbnd, to_update>>
      /\ to_init' = Rest(to_init) /\ data' = Nothing
  BY DEF IInv, InitChunk, Works
<1>1. /\ srv' \in [Runs -> Stored] /\ sent' \in [Runs -> Nat]
      /\ known' = known \cup Ids(Chunk(to_init)) /\ known' \subseteq DOMAIN af
      /\ last_seen_dag_run_id' \in -1..Len(af)
      /\ UNCHANGED <<last_seen_log_id, base>>
      /\ \A r \in Runs : sent'[r] >= sent[r] /\ sent[r] \in Nat /\ sent'[r] \in Nat
      /\ \A r \in DOMAIN data : sent'[r] >= data[r].last /\ data[r].last \in Nat
      /\ NoRunSkipped'
  BY <1>0, InitEffect
<1>2. \A r : LastLog(r)' = LastLog(r) /\ Later(r)' = Later(r)
  BY <1>0 DEF LastLog, Later
<1>3. to_init \in Seq(Work) /\ DOMAIN data = Ids(Chunk(to_init))
  BY <1>0 DEF IInv, TypeOK, InHand
<1>4. /\ Ids(to_init)' = Ids(Rest(to_init)) /\ Ids(to_update)' = Ids(to_update)
      /\ Ids(to_init) = Ids(Chunk(to_init)) \cup Ids(Rest(to_init))
  BY <1>0, <1>3, ChunkIds DEF Ids
<1>5. /\ DOMAIN af \subseteq Runs /\ \A r : LastLog(r) \in Nat
  BY <1>0, Types
<1>6. TypeOK'
  <2>1. Rest(to_init) \in Seq(Work) /\ IsData(Nothing)
    BY <1>3, RestFacts DEF Nothing, IsData
  <2>. QED  BY <1>0, <1>1, <1>4, <2>1 DEF TypeOK, IsData
<1>7. Cursors'
  <2>1. last_seen_dag_run_id' # None /\ last_seen_log_id # None
    BY <1>0, <1>1 DEF IInv, Cursors, Sending, None
  <2>. QED  BY <1>0, <1>1, <2>1 DEF IInv, Cursors, Loading, Sending
<1>8. InHand'
  BY <1>0, <1>1 DEF IInv, InHand
<1>9. Lists'
  <2>1. ASSUME NEW i \in DOMAIN Rest(to_init), NEW j \in DOMAIN Rest(to_init), i < j
        PROVE  ById(Rest(to_init)[i], Rest(to_init)[j])
    <3>1. /\ i + Bulk(to_init) \in DOMAIN to_init /\ Rest(to_init)[i] = to_init[i + Bulk(to_init)]
          /\ j + Bulk(to_init) \in DOMAIN to_init /\ Rest(to_init)[j] = to_init[j + Bulk(to_init)]
          /\ i + Bulk(to_init) < j + Bulk(to_init)
      BY <1>3, <2>1, RestFacts
    <3>. QED  BY <3>1 DEF IInv, Lists
  <2>. QED  BY <1>0, <1>2, <2>1 DEF IInv, Lists, ById, ByLog
<1>10. RunPlan'
  <2> SUFFICES ASSUME NEW r \in DOMAIN af \ known', NEW i \in DOMAIN Rest(to_init),
                      base.run < r, r < Rest(to_init)[i].id
               PROVE  r \in Ids(Rest(to_init))
    BY <1>0, <1>1, <1>4 DEF RunPlan
  <2>1. i + Bulk(to_init) \in DOMAIN to_init /\ Rest(to_init)[i] = to_init[i + Bulk(to_init)]
    BY <1>3, RestFacts
  <2>2. r \in Ids(to_init)
    BY <1>0, <1>1, <2>1 DEF IInv, RunPlan, Loading
  <2>. QED  BY <1>1, <1>4, <2>2
<1>11. LogPlan'
  <2> SUFFICES ASSUME NEW r \in DOMAIN af \ dropped, last_seen_log_id < LastLog(r)
               PROVE  \/ sent'[r] >= LastLog(r)
                      \/ r \in Ids(Rest(to_init))
                      \/ Later(r)
                      \/ \E i \in DOMAIN to_update :
                           to_update[i].id = r /\ to_update[i].max_log_id = LastLog(r)
    BY <1>0, <1>1, <1>2, <1>4 DEF LogPlan
  <2>1. \/ sent[r] >= LastLog(r)
        \/ r \in Ids(Chunk(to_init))
        \/ r \in Ids(Rest(to_init))
        \/ Later(r)
        \/ \E i \in DOMAIN to_update : to_update[i].id = r /\ to_update[i].max_log_id = LastLog(r)
    BY <1>0, <1>4 DEF IInv, LogPlan, Sending
  <2>2. CASE sent[r] >= LastLog(r)
    BY <1>1, <1>5, <2>2
  <2>3. CASE r \in Ids(Chunk(to_init))
    <3>1. data[r].last >= LastLog(r) \/ Later(r)
      BY <1>0, <1>3, <2>3 DEF IInv, FreshData
    <3>2. r \in DOMAIN data /\ r \in Runs
      BY <1>3, <1>5, <2>3
    <3>. QED  BY <1>1, <1>5, <3>1, <3>2
  <2>. QED  BY <2>1, <2>2, <2>3
<1>12. AllLogs'
  <2> SUFFICES ASSUME last_seen_log_id # None, NEW r \in DOMAIN af \ dropped,
                      base.log < LastLog(r), LastLog(r) <= last_seen_log_id
               PROVE  sent'[r] >= LastLog(r)
    BY <1>0, <1>1, <1>2 DEF AllLogs
  <2>1. sent[r] >= LastLog(r)
    BY DEF IInv, AllLogs
  <2>. QED  BY <1>1, <1>5, <2>1
<1>13. FreshData'
  BY <1>0 DEF FreshData
<1>. QED  BY <1>1, <1>6, <1>7, <1>8, <1>9, <1>10, <1>11, <1>12, <1>13 DEF IInv

\* An init that fails gives up the dag runs that it had still to send.
LEMMA InitFailsStep == ASSUME IInv, InitFails PROVE IInv'
<1> USE DEF airflow, service, syncer, fixer
<1>0. /\ TypeOK /\ pc \in Loading /\ pc' = "init"
      /\ \/ UNCHANGED <<srv, sent, last_seen_dag_run_id, last_seen_log_id, base>>
         \/ pc = "init_post" /\ InitDagRuns(data)
      /\ UNCHANGED <<af, logs, fix, fix_data, dbnd, to_update>>
      /\ dropped' = dropped \cup Ids(to_init)
      /\ to_init' = <<>> /\ data' = Nothing
  BY DEF IInv, InitFails, Raises, Loading
<1>1. /\ srv' \in [Runs -> Stored] /\ sent' \in [Runs -> Nat]
      /\ known \subseteq known' /\ known' \subseteq DOMAIN af
      /\ last_seen_dag_run_id' \in -1..Len(af)
      /\ UNCHANGED <<last_seen_log_id, base>>
      /\ \A r \in Runs : sent'[r] >= sent[r] /\ sent[r] \in Nat /\ sent'[r] \in Nat
      /\ NoRunSkipped'
  <2>1. CASE UNCHANGED <<srv, sent, last_seen_dag_run_id, last_seen_log_id, base>>
    <3>1. known' = known
      BY <2>1 DEF known
    <3>2. last_seen_dag_run_id \in -1..Len(af)
      BY <1>0 DEF IInv, TypeOK, Cursors, Loading, Sending
    <3>3. \A r \in Runs : sent[r] \in Nat
      BY <1>0 DEF TypeOK
    <3>4. \A r \in Runs : sent'[r] >= sent[r]
      BY <2>1, <3>3
    <3>. QED  BY <1>0, <2>1, <3>1, <3>2, <3>3, <3>4 DEF IInv, TypeOK, NoRunSkipped
  <2>2. CASE pc = "init_post" /\ InitDagRuns(data)
    BY <1>0, <2>2, InitEffect
  <2>. QED  BY <1>0, <2>1, <2>2
<1>2. \A r : LastLog(r)' = LastLog(r) /\ Later(r)' = Later(r)
  BY <1>0 DEF LastLog, Later
<1>3. <<>> \in Seq(Work) /\ DOMAIN <<>> = {} /\ Ids(<<>>) = {} /\ Ids(to_init)' = {} /\ Ids(to_update)' = Ids(to_update)
  BY <1>0, EmptySeq DEF Ids
<1>4. DOMAIN af \subseteq Runs /\ \A r : LastLog(r) \in Nat
  BY <1>0, Types
<1>5. TypeOK'
  <2>1. IsData(Nothing) /\ Ids(to_init) \subseteq Runs
    BY <1>0, <1>4 DEF Nothing, IsData, TypeOK
  <2>. QED  BY <1>0, <1>1, <1>3, <2>1 DEF TypeOK, IsData
<1>6. Cursors'
  <2>1. last_seen_dag_run_id' # None /\ last_seen_log_id # None
    BY <1>0, <1>1 DEF IInv, Cursors, Loading, Sending, None
  <2>. QED  BY <1>0, <1>1, <2>1 DEF IInv, Cursors, Loading, Sending
<1>7. InHand' /\ RunPlan' /\ FreshData'
  BY <1>0, <1>1, <1>3 DEF IInv, InHand, RunPlan, FreshData
<1>8. Lists'
  BY <1>0, <1>2, <1>3 DEF IInv, Lists, ById, ByLog
<1>9. LogPlan'
  <2> SUFFICES ASSUME NEW r \in DOMAIN af \ dropped, r \notin Ids(to_init), last_seen_log_id < LastLog(r)
               PROVE  \/ sent'[r] >= LastLog(r)
                      \/ Later(r)
                      \/ \E i \in DOMAIN to_update :
                           to_update[i].id = r /\ to_update[i].max_log_id = LastLog(r)
    BY <1>0, <1>1, <1>2, <1>3 DEF LogPlan
  <2>1. sent[r] >= LastLog(r) => sent'[r] >= LastLog(r)
    BY <1>1, <1>4
  <2>. QED  BY <1>0, <2>1 DEF IInv, LogPlan, Loading, Sending
<1>10. AllLogs'
  <2> SUFFICES ASSUME last_seen_log_id # None, NEW r \in DOMAIN af \ dropped,
                      base.log < LastLog(r), LastLog(r) <= last_seen_log_id
               PROVE  sent'[r] >= LastLog(r)
    BY <1>0, <1>1, <1>2 DEF AllLogs
  <2>1. sent[r] >= LastLog(r)
    BY DEF IInv, AllLogs
  <2>. QED  BY <1>1, <1>4, <2>1
<1>. QED  BY <1>1, <1>5, <1>6, <1>7, <1>8, <1>9, <1>10 DEF IInv

\* The log cursor moves to a log entry of the chunk; the last entry of a dag run that it
\* passes then was sent before, or belongs to the chunk: the list is sorted by it.
LEMMA UpdateEffect ==
  ASSUME IInv, pc = "update_post", UpdateDagRuns(data, MaxLog(Chunk(to_update))),
         UNCHANGED <<af, logs, dropped>>
  PROVE  /\ srv' \in [Runs -> Stored] /\ sent' \in [Runs -> Nat]
         /\ known \subseteq known' /\ known' \subseteq DOMAIN af
         /\ last_seen_log_id' \in -1..Len(logs) /\ last_seen_log_id <= last_seen_log_id'
         /\ UNCHANGED <<last_seen_dag_run_id, base>>
         /\ \A r \in Runs : sent'[r] >= sent[r] /\ sent[r] \in Nat /\ sent'[r] \in Nat
         /\ \A i \in DOMAIN Chunk(to_update) : sent'[to_update[i].id] >= to_update[i].max_log_id
         /\ NoRunSkipped' /\ AllLogs'
<1>0. TypeOK /\ IsData(data) /\ DOMAIN data = Ids(Chunk(to_update)) /\ to_update \in Seq(Work)
  BY DEF IInv, InHand, TypeOK
<1>1. /\ srv' \in [Runs -> Stored] /\ sent' \in [Runs -> Nat]
      /\ known' = known \cup DOMAIN data
      /\ \A r \in Runs : sent'[r] >= sent[r]
      /\ \A r \in DOMAIN data : sent'[r] >= data[r].last
  <2>1. Store(data)
    BY DEF UpdateDagRuns
  <2>. QED  BY <1>0, <2>1, StoreFacts
<1>2. known' \subseteq DOMAIN af
  BY <1>0, <1>1, ChunkIds DEF TypeOK
<1>3. \A r \in Runs : sent[r] \in Nat /\ sent'[r] \in Nat
  BY <1>0, <1>1 DEF TypeOK
<1>4. /\ Len(logs) \in Nat /\ DOMAIN af \subseteq Runs /\ \A r : LastLog(r) \in 0..Len(logs)
      /\ \A i \in DOMAIN to_update : to_update[i] \in Work /\ to_update[i].id \in DOMAIN af
  BY <1>0, Types
<1>5. \A i \in DOMAIN Chunk(to_update) : i \in DOMAIN to_update /\ Chunk(to_update)[i] = to_update[i]
  BY <1>0, RestFacts
<1>6. ASSUME NEW i \in DOMAIN Chunk(to_update)
      PROVE  /\ sent'[to_update[i].id] >= to_update[i].max_log_id
             /\ to_update[i].max_log_id \in Int /\ to_update[i].max_log_id <= Len(logs)
             /\ to_update[i].max_log_id >= None
  <2>1. to_update[i].id \in DOMAIN data /\ to_update[i].id \in Runs
    BY <1>0, <1>4, <1>5 DEF Ids
  <2>2. to_update[i].max_log_id <= data[to_update[i].id].last
    BY DEF IInv, Lists
  <2>3. data[to_update[i].id].last \in Nat
    BY <1>0, <2>1 DEF IsData, Full
  <2>4. to_update[i].max_log_id \in Nat \cup {None}
    BY <1>4, <1>5 DEF Work
  <2>5. to_update[i].max_log_id <= LastLog(to_update[i].id)
    BY <1>5 DEF IInv, Lists
  <2>. QED  BY <1>1, <1>3, <1>4, <2>1, <2>2, <2>3, <2>4, <2>5 DEF None
<1> DEFINE top == MaxLog(Chunk(to_update))
<1>7. /\ top \in Int /\ top <= Len(logs)
      /\ top = None \/ \E i \in DOMAIN Chunk(to_update) : top = to_update[i].max_log_id
  <2> DEFINE S == {None} \cup {Chunk(to_update)[i].max_log_id : i \in DOMAIN Chunk(to_update)}
  <2>1. S \in SUBSET Int /\ S # {} /\ Len(logs) \in Int /\ \A x \in S : x <= Len(logs)
    BY <1>4, <1>5, <1>6 DEF None
  <2>2. top = Max(S)
    BY DEF MaxLog
  <2> HIDE DEF S
  <2>3. Max(S) \in S
    BY <2>1, MaxFacts
  <2>4. Max(S) = None \/ \E i \in DOMAIN Chunk(to_update) : Max(S) = to_update[i].max_log_id
    BY <1>5, <2>3 DEF S
  <2> HIDE DEF top
  <2>. QED  BY <2>1, <2>2, <2>3, <2>4
<1>8. last_seen_log_id \in -1..Len(logs) /\ last_seen_log_id # None
  BY <1>0 DEF IInv, Cursors, TypeOK, Sending
<1>9. last_seen_log_id' = IF last_seen_log_id >= top THEN last_seen_log_id ELSE top
  <2>1. last_seen_log_id' = Max({last_seen_log_id, top}) /\ last_seen_log_id \in Int
    BY <1>8 DEF UpdateDagRuns
  <2> HIDE DEF top
  <2>. QED  BY <1>7, <2>1, MaxOfTwo
<1> HIDE DEF top
<1>10. last_seen_log_id' \in -1..Len(logs) /\ last_seen_log_id <= last_seen_log_id'
  BY <1>4, <1>7, <1>8, <1>9
<1>11. UNCHANGED <<last_seen_dag_run_id, base>>
  BY DEF UpdateDagRuns
<1>12. NoRunSkipped'
  BY <1>1, <1>11 DEF IInv, NoRunSkipped
<1>13. \A r : LastLog(r)' = LastLog(r)
  BY DEF LastLog
<1>14. AllLogs'
  <2> SUFFICES ASSUME NEW r \in DOMAIN af \ dropped,
                      base.log < LastLog(r), LastLog(r) <= last_seen_log_id'
               PROVE  sent'[r] >= LastLog(r)
    BY <1>11, <1>13 DEF AllLogs
  <2>0. sent[r] >= LastLog(r) => sent'[r] >= LastLog(r)
    BY <1>1, <1>3, <1>4
  <2>1. CASE LastLog(r) <= last_seen_log_id
    BY <1>8, <2>0, <2>1 DEF IInv, AllLogs
  <2>2. CASE ~(LastLog(r) <= last_seen_log_id)
    <3>1. last_seen_log_id < LastLog(r) /\ last_seen_log_id' = top /\ LastLog(r) <= top
      BY <1>4, <1>7, <1>8, <1>9, <2>2
    <3>2. PICK i \in DOMAIN Chunk(to_update) : top = to_update[i].max_log_id
      BY <1>4, <1>7, <3>1 DEF None
    <3>3. to_init = <<>>
      BY DEF IInv, Cursors, Loading
    <3>4. r \notin Ids(to_init)
      BY <3>3, EmptySeq DEF Ids
    <3>5. ~Later(r)
      <4>1. i \in DOMAIN to_update /\ ~(to_update[i].max_log_id < LastLog(r))
        BY <1>4, <1>5, <1>7, <3>1, <3>2
      <4>. QED  BY <4>1 DEF Later
    <3>6. \/ sent[r] >= LastLog(r)
          \/ \E j \in DOMAIN to_update : to_update[j].id = r /\ to_update[j].max_log_id = LastLog(r)
      BY <3>1, <3>4, <3>5 DEF IInv, LogPlan, Sending
    <3>7. ASSUME NEW j \in DOMAIN to_update, to_update[j].id = r, to_update[j].max_log_id = LastLog(r)
          PROVE  sent'[r] >= LastLog(r)
      <4>1. CASE j \in DOMAIN Chunk(to_update)
        BY <1>6, <3>7, <4>1
      <4>2. CASE j \notin DOMAIN Chunk(to_update)
        <5>1. i < j /\ i \in DOMAIN to_update
          BY <1>0, <1>5, <4>2, SplitList
        <5>2. ByLog(to_update[i], to_update[j])
          BY <5>1 DEF IInv, Lists
        <5>3. LastLog(r) # None /\ top # None
          BY <1>4, <1>7, <3>1 DEF None
        <5>4. top < LastLog(r)
          BY <3>2, <3>7, <5>2, <5>3 DEF ByLog
        <5>. QED  BY <1>4, <1>7, <3>1, <5>4
      <4>. QED  BY <4>1, <4>2
    <3>. QED  BY <2>0, <3>6, <3>7
  <2>. QED  BY <2>1, <2>2
<1>. QED  BY <1>1, <1>2, <1>3, <1>6, <1>10, <1>11, <1>12, <1>14

\* update_dagruns for one chunk; the cursor moves to the last entry the chunk covers.
LEMMA UpdateChunkStep == ASSUME IInv, UpdateChunk PROVE IInv'
<1> USE DEF airflow, service, syncer, fixer
<1>0. /\ TypeOK /\ pc = "update_post" /\ UpdateDagRuns(data, MaxLog(Chunk(to_update)))
      /\ UNCHANGED <<af, logs, fix, fix_data, dropped, dbnd, to_init>>
      /\ to_update' = Rest(to_update) /\ data' = Nothing
      /\ pc' = IF Rest(to_update) = <<>> THEN "idle" ELSE "update"
  BY DEF IInv, UpdateChunk, Works
<1>1. /\ srv' \in [Runs -> Stored] /\ sent' \in [Runs -> Nat]
      /\ known \subseteq known' /\ known' \subseteq DOMAIN af
      /\ last_seen_log_id' \in -1..Len(logs) /\ last_seen_log_id <= last_seen_log_id'
      /\ UNCHANGED <<last_seen_dag_run_id, base>>
      /\ \A r \in Runs : sent'[r] >= sent[r] /\ sent[r] \in Nat /\ sent'[r] \in Nat
      /\ \A i \in DOMAIN Chunk(to_update) : sent'[to_update[i].id] >= to_update[i].max_log_id
      /\ NoRunSkipped' /\ AllLogs'
  BY <1>0, UpdateEffect
<1>2. \A r : LastLog(r)' = LastLog(r)
  BY <1>0 DEF LastLog
<1>3. to_update \in Seq(Work) /\ to_init = <<>>
  BY <1>0 DEF IInv, TypeOK, Cursors, Loading
<1>4. /\ Rest(to_update) \in Seq(Work) /\ Ids(Rest(to_update)) \subseteq Ids(to_update)
      /\ \A i \in DOMAIN Rest(to_update) : /\ i + Bulk(to_update) \in DOMAIN to_update
                                           /\ Rest(to_update)[i] = to_update[i + Bulk(to_update)]
      /\ \A i, j \in DOMAIN Rest(to_update) : i < j => i + Bulk(to_update) < j + Bulk(to_update)
  BY <1>3, RestFacts
<1>5. /\ DOMAIN af \subseteq Runs /\ Len(logs) \in Nat /\ \A r : LastLog(r) \in Nat
  BY <1>0, Types
<1>6. Ids(to_init)' = Ids(to_init) /\ Ids(to_update)' = Ids(Rest(to_update)) /\ Ids(to_init) = {}
  BY <1>0, <1>3, EmptySeq DEF Ids
<1>7. TypeOK'
  <2>1. IsData(Nothing)
    BY DEF Nothing, IsData
  <2>. QED  BY <1>0, <1>1, <1>4, <1>6, <2>1 DEF TypeOK, IsData
<1>8. Cursors'
  <2>1. last_seen_dag_run_id # None /\ last_seen_log_id' # None
    BY <1>0, <1>1, <1>5 DEF IInv, Cursors, Sending, None
  <2>. QED  BY <1>0, <1>1, <1>3, <2>1 DEF Cursors, Loading, Sending
<1>9. InHand' /\ RunPlan' /\ FreshData'
  BY <1>0, <1>1 DEF IInv, InHand, RunPlan, FreshData, Loading
<1>10. Lists'
  <2>1. ASSUME NEW i \in DOMAIN Rest(to_update), NEW j \in DOMAIN Rest(to_update), i < j
        PROVE  ByLog(Rest(to_update)[i], Rest(to_update)[j])
    BY <1>4, <2>1 DEF IInv, Lists
  <2>2. ASSUME NEW i \in DOMAIN Rest(to_update)
        PROVE  Rest(to_update)[i].max_log_id <= LastLog(Rest(to_update)[i].id)
    BY <1>4, <2>2 DEF IInv, Lists
  <2>3. pc' # "update_post" /\ DOMAIN <<>> = {}
    BY <1>0, EmptySeq
  <2>. QED  BY <1>0, <1>2, <1>3, <2>1, <2>2, <2>3 DEF Lists, ById, ByLog
<1>11. LogPlan'
  <2> SUFFICES ASSUME NEW r \in DOMAIN af \ dropped, last_seen_log_id' < LastLog(r)
               PROVE  \/ sent'[r] >= LastLog(r)
                      \/ Later(r)'
                      \/ \E i \in DOMAIN Rest(to_update) :
                           Rest(to_update)[i].id = r /\ Rest(to_update)[i].max_log_id = LastLog(r)
    BY <1>0, <1>1, <1>2 DEF LogPlan
  <2>1. last_seen_log_id < LastLog(r)
    <3>1. last_seen_log_id \in Int /\ last_seen_log_id' \in Int
      BY <1>0, <1>1 DEF TypeOK, None
    <3>. QED  BY <1>1, <1>5, <3>1
  <2>2. \/ sent[r] >= LastLog(r)
        \/ Later(r)
        \/ \E i \in DOMAIN to_update : to_update[i].id = r /\ to_update[i].max_log_id = LastLog(r)
    BY <1>0, <1>6, <2>1 DEF IInv, LogPlan, Sending
  <2>3. sent[r] >= LastLog(r) => sent'[r] >= LastLog(r)
    BY <1>1, <1>5
  <2>4. Later(r) => Later(r)'
    BY <1>0, <1>2, <1>4 DEF Later
  <2>5. ASSUME NEW i \in DOMAIN to_update, to_update[i].id = r, to_update[i].max_log_id = LastLog(r)
        PROVE  \/ sent'[r] >= LastLog(r)
               \/ \E k \in DOMAIN Rest(to_update) :
                    Rest(to_update)[k].id = r /\ Rest(to_update)[k].max_log_id = LastLog(r)
    <3>1. CASE i \in DOMAIN Chunk(to_update)
      BY <1>1, <2>5, <3>1
    <3>2. CASE i \notin DOMAIN Chunk(to_update)
      <4>1. i - Bulk(to_update) \in DOMAIN Rest(to_update) /\ Rest(to_update)[i - Bulk(to_update)] = to_update[i]
        BY <1>3, <3>2, SplitList
      <4>. QED  BY <2>5, <4>1
    <3>. QED  BY <3>1, <3>2
  <2>. QED  BY <2>2, <2>3, <2>4, <2>5
<1>. QED  BY <1>1, <1>7, <1>8, <1>9, <1>10, <1>11 DEF IInv

\* A sync that ends early leaves its lists; the next one asks again from the cursors.
LEMMA SyncEndsStep == ASSUME IInv, SyncEnds PROVE IInv'
<1> USE DEF airflow, service, syncer, fixer
<1>0. /\ TypeOK /\ pc' = "idle" /\ dbnd' = NoResponse
      /\ to_init' = <<>> /\ to_update' = <<>> /\ data' = Nothing
      /\ UNCHANGED <<af, logs, fix, fix_data, dropped>>
      /\ \/ UNCHANGED <<srv, sent, last_seen_dag_run_id, last_seen_log_id, base>>
         \/ pc = "update_post" /\ UpdateDagRuns(data, MaxLog(Chunk(to_update)))
  BY DEF IInv, SyncEnds, Raises
<1>1. /\ dbnd' \in [active : SUBSET Runs, run : Int, log : Int]
      /\ dbnd'.run = None /\ dbnd'.log = None /\ IsData(data')
  BY <1>0 DEF NoResponse, None, Nothing, IsData
<1>2. CASE UNCHANGED <<srv, sent, last_seen_dag_run_id, last_seen_log_id, base>>
  <2>1. known' = known /\ \A r : LastLog(r)' = LastLog(r)
    BY <1>0, <1>2 DEF known, LastLog
  <2>2. NoRunSkipped' /\ AllLogs' /\ Cursors'
    BY <1>0, <1>2, <2>1 DEF IInv, NoRunSkipped, AllLogs, Cursors, Loading, Sending
  <2>. QED  BY <1>0, <1>1, <1>2, <2>1, <2>2, QuietStep DEF TypeOK
<1>3. CASE pc = "update_post" /\ UpdateDagRuns(data, MaxLog(Chunk(to_update)))
  <2>1. /\ srv' \in [Runs -> Stored] /\ sent' \in [Runs -> Nat]
        /\ known \subseteq known' /\ known' \subseteq DOMAIN af
        /\ last_seen_log_id' \in -1..Len(logs)
        /\ UNCHANGED <<last_seen_dag_run_id, base>>
        /\ NoRunSkipped' /\ AllLogs'
    BY <1>0, <1>3, UpdateEffect
  <2>2. last_seen_dag_run_id # None /\ last_seen_log_id' # None
    BY <1>0, <1>3, <2>1, Types DEF IInv, Cursors, Sending, None
  <2>3. Cursors'
    BY <1>0, <2>1, <2>2 DEF Cursors, Loading, Sending
  <2>. QED  BY <1>0, <1>1, <2>1, <2>3, QuietStep DEF TypeOK
<1>. QED  BY <1>0, <1>2, <1>3

-----------------------------------------------------------------------------
(***************************************************************************)
(* Steps of the fixer                                                      *)
(***************************************************************************)
\* The fixer sends dag runs that the tracking service has, and moves no cursor.
LEMMA FixerEffect ==
  ASSUME IInv, UNCHANGED <<af, logs, syncer, last_seen_dag_run_id, last_seen_log_id, base>>,
         srv' \in [Runs -> Stored], sent' \in [Runs -> Nat], known' = known,
         \A r \in Runs : sent'[r] >= sent[r],
         fix' \in Seq(Nat), Range(fix') \subseteq known, IsData(fix_data'), DOMAIN fix_data' \subseteq known
  PROVE  IInv'
<1> USE DEF syncer
<1>0. TypeOK
  BY DEF IInv
<1>1. \A r : LastLog(r)' = LastLog(r) /\ Later(r)' = Later(r)
  BY DEF LastLog, Later
<1>2. /\ Ids(to_init)' = Ids(to_init) /\ Ids(to_update)' = Ids(to_update)
      /\ Chunk(to_init)' = Chunk(to_init) /\ Chunk(to_update)' = Chunk(to_update)
      /\ Ids(Chunk(to_init))' = Ids(Chunk(to_init)) /\ Ids(Chunk(to_update))' = Ids(Chunk(to_update))
  BY DEF Ids, Chunk, Bulk
<1>3. TypeOK'
  BY <1>0, <1>2 DEF TypeOK, IsData, Range
<1>4. Cursors' /\ RunPlan' /\ NoRunSkipped'
  BY <1>2 DEF IInv, Cursors, RunPlan, NoRunSkipped
<1>5. InHand' /\ FreshData'
  BY <1>1, <1>2 DEF IInv, InHand, FreshData
<1>6. Lists'
  BY <1>1, <1>2 DEF IInv, Lists, ById, ByLog
<1>7. ASSUME NEW r \in DOMAIN af PROVE sent[r] >= LastLog(r) => sent'[r] >= LastLog(r)
  <2>1. r \in Runs /\ LastLog(r) \in Nat
    BY <1>0, Types
  <2>2. sent[r] \in Nat /\ sent'[r] \in Nat /\ sent'[r] >= sent[r]
    BY <1>0, <2>1 DEF TypeOK
  <2>. QED  BY <2>1, <2>2
<1>8. LogPlan'
  BY <1>1, <1>2, <1>7 DEF IInv, LogPlan
<1>9. AllLogs'
  BY <1>1, <1>7 DEF IInv, AllLogs
<1>. QED  BY <1>3, <1>4, <1>5, <1>6, <1>8, <1>9 DEF IInv

\* The fixer's update moves no cursor and sends no older log entry.
LEMMA FixSend ==
  ASSUME IInv, UpdateDagRuns(fix_data, None) \/ UNCHANGED service
  PROVE  /\ UNCHANGED <<last_seen_dag_run_id, last_seen_log_id, base>>
         /\ srv' \in [Runs -> Stored] /\ sent' \in [Runs -> Nat] /\ known' = known
         /\ \A r \in Runs : sent'[r] >= sent[r]
<1>0. /\ TypeOK /\ IsData(fix_data) /\ DOMAIN fix_data \subseteq known
      /\ srv \in [Runs -> Stored] /\ sent \in [Runs -> Nat]
  BY DEF IInv, TypeOK, InHand
<1>1. CASE UNCHANGED service
  <2>1. /\ UNCHANGED <<srv, sent, last_seen_dag_run_id, last_seen_log_id, base>> /\ known' = known
    BY <1>1 DEF service, known
  <2>. QED  BY <1>0, <2>1
<1>2. CASE UpdateDagRuns(fix_data, None)
  <2>1. Store(fix_data) /\ last_seen_log_id' = Max({last_seen_log_id, None}) /\ UNCHANGED <<last_seen_dag_run_id, base>>
    BY <1>2 DEF UpdateDagRuns
  <2>2. last_seen_log_id \in Int /\ None \in Int /\ last_seen_log_id >= None
    BY <1>0 DEF TypeOK, None
  <2>3. last_seen_log_id' = last_seen_log_id
    BY <2>1, <2>2, MaxOfTwo
  <2>4. /\ srv' \in [Runs -> Stored] /\ sent' \in [Runs -> Nat]
        /\ known' = known \cup DOMAIN fix_data
        /\ \A r \in Runs : sent'[r] >= sent[r]
    BY <1>0, <2>1, StoreFacts
  <2>. QED  BY <1>0, <2>1, <2>3, <2>4
<1>. QED  BY <1>1, <1>2

\* Every step of the fixer keeps the syncer's invariant.
LEMMA FixerStep == ASSUME IInv, Fixer \/ UNCHANGED vars PROVE IInv'
<1> USE DEF airflow, fixer
<1>0. /\ TypeOK /\ fix \in Seq(Nat) /\ Range(fix) \subseteq known /\ IsData(fix_data)
      /\ DOMAIN fix_data \subseteq known /\ known \subseteq DOMAIN af
  BY DEF IInv, TypeOK, InHand
<1>1. <<>> \in Seq(Nat) /\ Range(<<>>) = {} /\ IsData(Nothing) /\ DOMAIN Nothing = {}
  BY EmptySeq DEF Range, Nothing, IsData
<1>2. CASE GetAllDagRuns
  <2>1. /\ UNCHANGED <<af, logs, syncer, fix_data>> /\ UNCHANGED service
        /\ fix' \in [1..Cardinality(known) -> known] /\ Range(fix') = known
    BY <1>2 DEF GetAllDagRuns, Sorted
  <2>2. IsFiniteSet(known) /\ known \subseteq Nat
    <3>1. IsFiniteSet(DOMAIN af) /\ DOMAIN af \subseteq Nat
      BY <1>0, Types, FS_Interval
    <3>. QED  BY <1>0, <3>1, FS_Subset
  <2>3. fix' \in Seq(Nat)
    BY <2>1, <2>2, FiniteSeq, SeqMonotonic
  <2>. QED  BY <1>0, <2>1, <2>3, FixSend, FixerEffect
<1>3. CASE FetchToFix
  <2>1. /\ UNCHANGED <<af, logs, syncer, fix>> /\ UNCHANGED service
        /\ fix_data' = Fetch(Range(Chunk(fix)))
    BY <1>3 DEF FetchToFix
  <2>2. Range(Chunk(fix)) \subseteq known
    <3>1. /\ \A i \in DOMAIN Chunk(fix) : i \in DOMAIN fix /\ Chunk(fix)[i] = fix[i]
      <4>1. fix \in Seq(Nat)
        BY <1>0
      <4>. QED  BY ONLY <4>1, ChunkPlace
    <3>. QED  BY <1>0, <3>1 DEF Range
  <2>3. IsData(fix_data') /\ DOMAIN fix_data' = Range(Chunk(fix))
    BY <1>0, <2>1, <2>2, FetchFacts
  <2>. QED  BY <1>0, <2>1, <2>2, <2>3, FixSend, FixerEffect
<1>4. CASE FixChunk
  <2>1. /\ UNCHANGED <<af, logs, syncer>> /\ UpdateDagRuns(fix_data, None)
        /\ fix' = Rest(fix) /\ fix_data' = Nothing
    BY <1>4 DEF FixChunk, Works
  <2>2. Rest(fix) \in Seq(Nat) /\ Range(Rest(fix)) \subseteq known
    <3>1. /\ \A i \in DOMAIN Rest(fix) : i + Bulk(fix) \in DOMAIN fix /\ Rest(fix)[i] = fix[i + Bulk(fix)]
          /\ Rest(fix) \in Seq(Nat)
      <4>1. /\ Bulk(fix) \in 0..Len(fix) /\ Len(fix) \in Nat /\ DOMAIN fix = 1..Len(fix)
            /\ Rest(fix) \in Seq(Nat) /\ DOMAIN Rest(fix) = 1..(Len(fix) - Bulk(fix))
            /\ \A i \in 1..(Len(fix) - Bulk(fix)) : Rest(fix)[i] = fix[i + Bulk(fix)]
        BY <1>0, ChunkFacts
      <4>2. \A i \in DOMAIN Rest(fix) : i + Bulk(fix) \in 1..Len(fix)
        BY <4>1
      <4>. QED  BY <4>1, <4>2
    <3>. QED  BY <1>0, <3>1 DEF Range
  <2>. QED  BY <1>1, <2>1, <2>2, FixSend, FixerEffect
<1>5. CASE FixFails
  <2>1. /\ UNCHANGED <<af, logs, syncer>>
        /\ UpdateDagRuns(fix_data, None) \/ UNCHANGED service
        /\ fix' = <<>> /\ fix_data' = Nothing
    BY <1>5 DEF FixFails, Raises
  <2>. QED  BY <1>1, <2>1, FixSend, FixerEffect
<1>6. CASE UNCHANGED vars
  <2>1. UNCHANGED <<af, logs, syncer, fix, fix_data>> /\ UNCHANGED service
    BY <1>6 DEF vars
  <2>. QED  BY <1>0, <2>1, FixSend, FixerEffect
<1>. QED  BY <1>2, <1>3, <1>4, <1>5, <1>6 DEF Fixer

-----------------------------------------------------------------------------
\* Every step of Airflow, the syncer and the fixer keeps the inductive invariant.
LEMMA NextIInv == IInv /\ [Next]_vars => IInv'
<1> SUFFICES ASSUME IInv, [Next]_vars PROVE IInv'
  OBVIOUS
<1>1. CASE Airflow
  BY <1>1, AirflowStep
<1>2. CASE Syncer
  BY <1>2, AskStep, PlanStep, FetchStep, InitChunkStep, InitFailsStep, UpdateChunkStep, SyncEndsStep
     DEF Syncer
<1>3. CASE Fixer \/ UNCHANGED vars
  BY <1>3, FixerStep
<1>. QED  BY <1>1, <1>2, <1>3 DEF Next

\* The inductive invariant holds in every reachable state of syncer, fixer and Airflow.
THEOREM Invariance == Spec => []IInv
<1>. QED  BY InitIInv, NextIInv, PTL DEF Spec

\* The type invariant: in particular the tracking service knows only dag runs that Airflow
\* has, the cursors stay within Airflow's tables, and the fixer's list within what is known.
THEOREM TypeCorrect == Spec => []TypeOK
<1>1. IInv => TypeOK
  BY DEF IInv
<1>. QED  BY Invariance, <1>1, PTL

\* Neither cursor of the tracking service passes a dag run or a log entry that was not sent,
\* however calls fail and the syncer dies, whatever the size of the chunks of init_dagruns
\* and update_dagruns and whether or not the fixer runs beside the syncer.
THEOREM NothingSkippedHolds == Spec => []NothingSkipped
<1>1. IInv => NothingSkipped
  <2> SUFFICES ASSUME IInv PROVE NothingSkipped
    OBVIOUS
  <2>1. known \subseteq DOMAIN af
    BY DEF IInv, TypeOK
  <2>. QED  BY <2>1 DEF IInv, NothingSkipped, AllLogs, NoLogSkipped
<1>. QED  BY Invariance, <1>1, PTL
=============================================================================
