------------------------ MODULE TaskRunsBuilderProofs ------------------------
(***************************************************************************)
(* Proofs about TaskRunsBuilder, for any finite set of tasks and any graph *)
(* over them, cyclic or not.  What the loops compute is proved without an  *)
(* induction over the graph: the invariants say of every set of tasks      *)
(* closed under the search that it holds what was found so far, and of     *)
(* every set of tasks with a cycle in it that none of it was sorted.       *)
(***************************************************************************)
EXTENDS TaskRunsBuilder, SequenceTheorems, FiniteSetTheorems, TLAPS

\* Where _get_all_tasks is: what it saw and what it has still to process.
Walk(stop) ==
  LET reached == seen \cup Range(to_process) IN
    /\ Root \in reached
    /\ \A t \in seen \ stop : upstream[t] \subseteq reached
    /\ found = seen \ stop
    /\ \A x \in SUBSET Tasks : Closed(x, {Root}, stop) => reached \subseteq x

\* The first search, then the second one and what they found.
Collected ==
  /\ pc = "subdag_all" => Walk({})
  /\ pc # "subdag_all" => Walk(disabled) /\ IsSearch(all_tasks, {Root}, {})
  /\ pc \in {"check", "sort_run", "done"} => to_process = <<>> /\ tasks_to_run = found

Cyclic(x) == \A t \in x : upstream[t] \cap x # {}

\* Where topological_sort of the tasks s is: nothing unsorted is upstream of a sorted
\* task, the nodes that this pass has left behind wait for one, and no task of a cycle
\* is sorted.
Order(s) ==
  /\ unsorted \subseteq s
  /\ IsInjective(sorted)
  /\ Range(sorted) = s \ unsorted
  /\ \A i \in DOMAIN sorted : upstream[sorted[i]] \cap unsorted = {}
  /\ \A i \in DOMAIN sorted : \A j \in i..Len(sorted) : sorted[j] \notin upstream[sorted[i]]
  /\ ~acyclic => \A n \in unsorted \ pass : upstream[n] \cap unsorted # {}
  /\ \A x \in SUBSET s : Cyclic(x) => x \subseteq unsorted

\* The tasks that are sorted: all of them, then the ones the executor gets.
Target == IF pc = "sort_all" THEN all_tasks ELSE tasks_to_run \ skipped

Ordered ==
  /\ pc \in {"sort_all", "sort_run", "done"} => Order(Target)
  /\ pc = "done" => unsorted = {}
  /\ pc = "cyclic" => HasCycle(all_tasks)
  /\ pc \in {"subdag_run", "check", "sort_run", "done"} => ~HasCycle(all_tasks)

\* The tasks in the list of the breadth first search.
Listed == {Last(p) : p \in level}

\* u is still to be visited by a frame of the depth first search for t.
Waits(t, u) == \E i \in DOMAIN stack : stack[i][1] = t /\ u \in stack[i][2]

\* Where the search for completed tasks is: what the ended searches checked is closed,
\* what the one under way checked is closed but for what it has still to visit.
Search ==
  /\ \A t \in checked \ complete : upstream[t] \subseteq checked
  /\ \A t \in status \ complete : \A u \in upstream[t] :
       u \in status \/ Waits(t, u) \/ t \in Listed \/ u \in Listed
  /\ \A p \in level \ futures : Last(p) \in status
  /\ \A i \in DOMAIN stack :
       /\ stack[i][1] \in status
       /\ stack[i][2] \subseteq upstream[stack[i][1]]
       /\ stack[i][1] \in complete => stack[i][2] = {}
  /\ \A x \in SUBSET Tasks :
       Closed(x, roots, complete) => (checked \cup status \cup Listed) \subseteq x
  /\ parallel => stack = <<>>
  /\ ~parallel => level = {}
  /\ skip_completed => roots \subseteq (todo \cup checked \cup status \cup Listed)
  /\ todo \subseteq roots

Checked ==
  /\ pc \in {"subdag_all", "sort_all", "subdag_run"} =>
       checked = {} /\ status = {} /\ stack = <<>> /\ level = {}
  /\ pc = "check" => Search
  /\ pc \in {"sort_run", "done"} /\ skip_completed => IsSearch(checked, roots, complete)

\* The flags that build_task_runs gives the task runs.
Planned ==
  /\ pc \in {"check", "sort_run", "done"} => skipped = tasks_to_run \ Subdag(roots)
  /\ pc \in {"sort_run", "done"} =>
       LET enabled == tasks_to_run \ skipped IN
         /\ completed = IF skip_completed THEN enabled \cap checked \cap complete ELSE {}
         /\ not_required = IF skip_completed THEN enabled \ checked ELSE {}

IInv == TypeOK /\ Collected /\ Ordered /\ Checked /\ Planned

-----------------------------------------------------------------------------
\* Upstream tasks are tasks.
LEMMA Graph == ASSUME TypeOK PROVE upstream \in [Tasks -> SUBSET Tasks]
  BY GraphsAssumption DEF TypeOK

\* SetToSeq lists a finite set: each member and nothing else.
LEMMA ListOfSet ==
  ASSUME NEW S \in SUBSET Tasks
  PROVE  SetToSeq(S) \in Seq(Tasks) /\ Range(SetToSeq(S)) = S
<1> DEFINE n == Cardinality(S)
           f == SetToSeq(S)
<1>1. IsFiniteSet(S)
  BY TasksAssumption, FS_Subset
<1>2. n \in Nat /\ ExistsBijection(1..n, S)
  BY <1>1, FS_CardinalityType
<1>3. \E g \in [1..n -> S] : IsInjective(g)
  BY <1>2 DEF ExistsBijection, Bijection, Injection
<1>4. f \in [1..n -> S] /\ IsInjective(f)
  BY <1>3 DEF SetToSeq
<1>5. f \in Injection(1..n, S)
  BY <1>4 DEF Injection
<1>6. IsFiniteSet(1..n) /\ Cardinality(1..n) = n
  BY <1>2, FS_Interval
<1>7. f \in Surjection(1..n, S)
  BY <1>1, <1>5, <1>6, FS_Injection
<1>8. Range(f) = S
  BY <1>4, <1>7 DEF Surjection, Range
<1>9. f \in Seq(Tasks)
  BY <1>2, <1>4
<1>. QED  BY <1>8, <1>9

\* A queue that is not empty holds its head and its tail.
LEMMA RangeHeadTail ==
  ASSUME NEW S, NEW q \in Seq(S), q # <<>>
  PROVE  /\ Head(q) \in S
         /\ Tail(q) \in Seq(S)
         /\ Range(q) = {Head(q)} \cup Range(Tail(q))
<1>1. /\ Head(q) \in S /\ Tail(q) \in Seq(S) /\ Len(Tail(q)) = Len(q) - 1
      /\ \A i \in 1..Len(Tail(q)) : Tail(q)[i] = q[i + 1]
  BY HeadTailProperties
<1>2. Len(q) \in Nat \ {0} /\ Head(q) = q[1]
  OBVIOUS
<1>3. Range(q) = {q[i] : i \in 1..Len(q)} /\ Range(Tail(q)) = {Tail(q)[i] : i \in 1..Len(Tail(q))}
  BY <1>1, RangeEquality
<1>4. ASSUME NEW i \in 1..Len(q) PROVE q[i] = Head(q) \/ q[i] \in Range(Tail(q))
  <2>1. CASE i = 1
    BY <2>1, <1>2
  <2>2. CASE i # 1
    <3>1. i - 1 \in 1..Len(Tail(q)) /\ Tail(q)[i - 1] = q[i]
      BY <2>2, <1>1, <1>2
    <3>. QED  BY <3>1, <1>3
  <2>. QED  BY <2>1, <2>2
<1>5. ASSUME NEW i \in 1..Len(Tail(q)) PROVE Tail(q)[i] \in Range(q)
  BY <1>1, <1>2, <1>3
<1>. QED  BY <1>1, <1>2, <1>3, <1>4, <1>5

\* There is a least set with r that holds the upstream tasks of its members.
LEMMA SubdagIs ==
  ASSUME TypeOK, NEW r \in SUBSET Tasks
  PROVE  Subdag(r) \in SUBSET Tasks /\ IsSearch(Subdag(r), r, {})
<1> DEFINE s == {t \in Tasks : \A x \in SUBSET Tasks : Closed(x, r, {}) => t \in x}
<1>1. Closed(s, r, {})
  BY Graph DEF Closed
<1>2. \A x \in SUBSET s : Closed(x, r, {}) => x = s
  OBVIOUS
<1>3. \E y \in SUBSET Tasks : IsSearch(y, r, {})
  BY <1>1, <1>2 DEF IsSearch
<1>. QED  BY <1>3 DEF Subdag

\* The head of the queue is taken off and what is not yet seen upstream of it is queued.
LEMMA SubdagStepIs ==
  ASSUME TypeOK, NEW only \in BOOLEAN, SubdagStep(only)
  PROVE  \E c \in Tasks :
           /\ Range(to_process) = {c} \cup Range(Tail(to_process))
           /\ to_process' \in Seq(Tasks)
           /\ seen' = seen \cup {c}
           /\ IF only /\ c \in disabled
                THEN /\ Range(to_process') = Range(Tail(to_process))
                     /\ found' = found
                ELSE /\ Range(to_process') = Range(Tail(to_process)) \cup (upstream[c] \ seen')
                     /\ found' = found \cup {c}
<1> DEFINE c == Head(to_process)
<1>1. to_process \in Seq(Tasks) /\ to_process # <<>>
  BY DEF TypeOK, SubdagStep
<1>2. /\ c \in Tasks /\ Tail(to_process) \in Seq(Tasks)
      /\ Range(to_process) = {c} \cup Range(Tail(to_process))
  BY <1>1, RangeHeadTail
<1>3. upstream[c] \ seen' \in SUBSET Tasks
  BY <1>2, Graph
<1> DEFINE more == SetToSeq(upstream[c] \ seen')
<1>4. more \in Seq(Tasks) /\ Range(more) = upstream[c] \ seen'
  BY <1>3, ListOfSet
<1>5. /\ Tail(to_process) \o more \in Seq(Tasks)
      /\ Range(Tail(to_process) \o more) = Range(Tail(to_process)) \cup Range(more)
  <2> HIDE DEF more
  <2>1. Tail(to_process) \o more \in Seq(Tasks)
    BY <1>2, <1>4
  <2>2. Range(Tail(to_process) \o more) = Range(Tail(to_process)) \cup Range(more)
    <3>1. \A a, b \in Seq(Tasks) : Range(a \o b) = Range(a) \cup Range(b)
      BY RangeConcatenation
    <3>. QED  BY <1>2, <1>4, <3>1
  <2>. QED  BY <2>1, <2>2
<1>6. CASE only /\ c \in disabled
  BY <1>2, <1>6 DEF SubdagStep
<1>7. CASE ~(only /\ c \in disabled)
  BY <1>2, <1>4, <1>5, <1>7 DEF SubdagStep
<1>. QED  BY <1>6, <1>7

\* A frame of the depth first search is a task and a set of tasks.
LEMMA FrameType ==
  ASSUME TypeOK, NEW t \in Tasks
  PROVE  Frame(t) \in Tasks \X SUBSET Tasks
  BY Graph DEF Frame

\* What Last and Front of a sequence are.
LEMMA FrontType ==
  ASSUME NEW S, NEW q \in Seq(S), q # <<>>
  PROVE  /\ Last(q) \in S
         /\ Front(q) \in Seq(S)
         /\ Len(Front(q)) = Len(q) - 1
         /\ \A i \in 1..Len(q) - 1 : Front(q)[i] = q[i]
<1>1. Len(q) \in Nat \ {0} /\ \A i \in 1..Len(q) : q[i] \in S
  OBVIOUS
<1>2. \A i \in 1..(Len(q) - 1) : q[i] \in S
  BY <1>1
<1>3. /\ SubSeq(q, 1, Len(q) - 1) \in Seq(S)
      /\ Len(SubSeq(q, 1, Len(q) - 1)) = IF 1 <= Len(q) - 1 THEN Len(q) - 1 - 1 + 1 ELSE 0
      /\ \A i \in 1..(Len(q) - 1 - 1 + 1) : SubSeq(q, 1, Len(q) - 1)[i] = q[1 + i - 1]
  BY <1>1, <1>2, SubSeqProperties
<1>4. \A n \in Nat \ {0} : /\ n - 1 - 1 + 1 = n - 1
                           /\ (IF 1 <= n - 1 THEN n - 1 - 1 + 1 ELSE 0) = n - 1
                           /\ \A i \in 1..(n - 1) : 1 + i - 1 = i
  OBVIOUS
<1>5. q[Len(q)] \in S
  BY <1>1
<1>. QED  BY <1>1, <1>3, <1>4, <1>5 DEF Front, Last

\* Types are kept by every step.
LEMMA TypeStep == ASSUME TypeOK, [Next]_vars PROVE TypeOK'
<1> USE DEF TypeOK, graphVars, subdagVars, sortVars, checkVars, planVars
<1>1. ASSUME NEW only \in BOOLEAN, SubdagStep(only) PROVE TypeOK'
  <2>1. PICK c \in Tasks : /\ to_process' \in Seq(Tasks)
                           /\ seen' = seen \cup {c}
                           /\ found' \in {found, found \cup {c}}
    <3> HIDE DEF TypeOK
    <3>. QED  BY <1>1, SubdagStepIs
  <2>2. UNCHANGED <<graphVars, roots, pc, sortVars, checkVars, planVars>>
    BY <1>1 DEF SubdagStep
  <2>. QED  BY <2>1, <2>2
<1>2. CASE AllCollected
  <2>1. <<Root>> \in Seq(Tasks) /\ <<>> \in Seq(Tasks)
    BY RootAssumption
  <2>. QED  BY <1>2, <2>1 DEF AllCollected, SubdagAgain, StartSort
<1>3. ASSUME NEW n \in Tasks, SortNode(n) PROVE TypeOK'
  <2>1. Append(sorted, n) \in Seq(Tasks)
    BY AppendProperties
  <2>2. sorted' \in Seq(Tasks) /\ unsorted' \in SUBSET Tasks /\ acyclic' \in BOOLEAN
    BY <1>3, <2>1 DEF SortNode
  <2>3. pass' \in SUBSET unsorted'
    BY <1>3 DEF SortNode
  <2>. QED  BY <1>3, <2>2, <2>3 DEF SortNode
<1>4. CASE NextPass
  BY <1>4 DEF NextPass
<1>5. CASE IsDag
  BY <1>5 DEF IsDag
<1>6. ASSUME NEW r \in SUBSET Tasks, RunnableCollected(r) PROVE TypeOK'
  BY <1>6 DEF RunnableCollected
<1>7. ASSUME NEW p \in futures, FutureDone(p) PROVE TypeOK'
  <2>1. Last(p) \in Tasks
    BY FrontType
  <2>. QED  BY <1>7, <2>1 DEF FutureDone
<1>8. CASE NextLevel
  <2>1. ASSUME NEW p \in level, NEW q \in Entries(p) PROVE q \in Seq(Tasks) \ {<<>>}
    <3>1. p \in Seq(Tasks) /\ Last(p) \in Tasks
      BY <2>1, FrontType
    <3>2. PICK u \in upstream[Last(p)] \ status : q = Append(p, u)
      BY <2>1 DEF Entries
    <3>3. u \in Tasks
      BY <3>1, <3>2, Graph
    <3>4. Append(p, u) \in Seq(Tasks) /\ Append(p, u) # <<>>
      BY ONLY <3>1, <3>3, AppendProperties
    <3>. QED  BY <3>2, <3>4
  <2>2. level' \subseteq Seq(Tasks) \ {<<>>}
    BY <1>8, <2>1 DEF NextLevel
  <2>. QED  BY <1>8, <2>2 DEF NextLevel
<1>9. CASE DfsStep
  <2> DEFINE frame == Last(stack)
  <2>1. /\ frame \in Tasks \X SUBSET Tasks
        /\ Front(stack) \in Seq(Tasks \X SUBSET Tasks)
    BY <1>9, FrontType DEF DfsStep
  <2>2. CASE frame[2] = {}
    BY <1>9, <2>1, <2>2 DEF DfsStep
  <2>3. CASE frame[2] # {}
    <3>1. PICK u \in frame[2] :
            LET rest == Append(Front(stack), <<frame[1], frame[2] \ {u}>>) IN
              IF u \in status
                THEN stack' = rest /\ UNCHANGED status
                ELSE stack' = Append(rest, Frame(u)) /\ status' = status \cup {u}
      BY <1>9, <2>3 DEF DfsStep
    <3> DEFINE rest == Append(Front(stack), <<frame[1], frame[2] \ {u}>>)
    <3>2. u \in Tasks /\ <<frame[1], frame[2] \ {u}>> \in Tasks \X SUBSET Tasks
      BY <2>1, <3>1
    <3>3. rest \in Seq(Tasks \X SUBSET Tasks)
      BY <2>1, <3>2, AppendProperties
    <3>4. Append(rest, Frame(u)) \in Seq(Tasks \X SUBSET Tasks)
      BY <3>2, <3>3, FrameType, AppendProperties
    <3>5. stack' \in Seq(Tasks \X SUBSET Tasks) /\ status' \in SUBSET Tasks
      BY <3>1, <3>2, <3>3, <3>4
    <3>. QED  BY <1>9, <3>5 DEF DfsStep
  <2>. QED  BY <2>2, <2>3
<1>10. ASSUME NEW t \in Tasks, NextRoot(t) PROVE TypeOK'
  <2>1. <<Frame(t)>> \in Seq(Tasks \X SUBSET Tasks)
    BY FrameType
  <2>2. <<t>> \in Seq(Tasks) \ {<<>>}
    OBVIOUS
  <2>. QED  BY <1>10, <2>1, <2>2 DEF NextRoot
<1>11. CASE CheckFails
  BY <1>11 DEF CheckFails
<1>12. CASE Build
  <2>1. <<>> \in Seq(Tasks)
    OBVIOUS
  <2>2. /\ completed' \in SUBSET Tasks /\ not_required' \in SUBSET Tasks
        /\ checked' \in SUBSET Tasks
    BY <1>12 DEF Build
  <2>3. /\ unsorted' \in SUBSET Tasks /\ pass' \in SUBSET unsorted'
        /\ acyclic' \in BOOLEAN /\ sorted' \in Seq(Tasks)
    BY <1>12, <2>1 DEF Build, StartSort
  <2>. QED  BY <1>12, <2>2, <2>3 DEF Build
<1>13. CASE Sorted
  BY <1>13 DEF Sorted
<1>14. CASE UNCHANGED vars
  BY <1>14 DEF vars
<1>. QED
  BY <1>1, <1>2, <1>3, <1>4, <1>5, <1>6, <1>7, <1>8, <1>9, <1>10, <1>11, <1>12, <1>13, <1>14
     DEF Next, Step, Over, CollectAll, CollectRunnable

-----------------------------------------------------------------------------
(***************************************************************************)
(* The searches of _get_all_tasks                                          *)
(***************************************************************************)
\* The graph, and what user code says of its tasks, stay as they are.
LEMMA GraphKept == ASSUME [Next]_vars PROVE UNCHANGED graphVars
  BY DEF Next, Step, Over, CollectAll, CollectRunnable, SubdagStep, AllCollected, SortNode,
     NextPass, IsDag, RunnableCollected, FutureDone, NextLevel, DfsStep, NextRoot, CheckFails,
     Build, Sorted, vars

\* A step of the search keeps what Walk says of it.
LEMMA WalkStep ==
  ASSUME TypeOK, NEW only \in BOOLEAN, SubdagStep(only),
         Walk(IF only THEN disabled ELSE {})
  PROVE  Walk(IF only THEN disabled ELSE {})'
<1> DEFINE stop == IF only THEN disabled ELSE {}
           reached == seen \cup Range(to_process)
<1>1. UNCHANGED <<upstream, disabled>>
  BY DEF SubdagStep, graphVars
<1>2. PICK c \in Tasks :
        /\ Range(to_process) = {c} \cup Range(Tail(to_process))
        /\ seen' = seen \cup {c}
        /\ IF c \in stop
             THEN /\ Range(to_process') = Range(Tail(to_process))
                  /\ found' = found
             ELSE /\ Range(to_process') = Range(Tail(to_process)) \cup (upstream[c] \ seen')
                  /\ found' = found \cup {c}
  BY SubdagStepIs
<1>3. /\ Root \in reached
      /\ \A t \in seen \ stop : upstream[t] \subseteq reached
      /\ found = seen \ stop
      /\ \A x \in SUBSET Tasks : Closed(x, {Root}, stop) => reached \subseteq x
  BY DEF Walk
<1>4. stop' = stop
  BY <1>1
<1> HIDE DEF stop
<1>5. c \in reached /\ reached' = (IF c \in stop THEN reached ELSE reached \cup upstream[c])
  BY <1>2
<1>6. \A t \in seen' \ stop : upstream[t] \subseteq reached'
  BY <1>2, <1>3, <1>5
<1>7. found' = seen' \ stop
  BY <1>2, <1>3
<1>8. ASSUME NEW x \in SUBSET Tasks, Closed(x, {Root}, stop) PROVE reached' \subseteq x
  <2>1. reached \subseteq x
    BY <1>3, <1>8
  <2>2. c \notin stop => upstream[c] \subseteq x
    BY <1>5, <1>8, <2>1 DEF Closed
  <2>. QED  BY <1>5, <2>1, <2>2
<1>9. \A x \in SUBSET Tasks : Closed(x, {Root}, stop)' => Closed(x, {Root}, stop)
  BY <1>1, <1>4 DEF Closed
<1>10. Root \in reached'
  BY <1>3, <1>5
<1>11. Walk(stop)'
  BY <1>1, <1>4, <1>6, <1>7, <1>8, <1>9, <1>10 DEF Walk
<1>. QED  BY <1>11 DEF stop

\* A search that is over has found the least closed set.
LEMMA WalkOver ==
  ASSUME TypeOK, NEW STATE stop, Walk(stop), to_process = <<>>
  PROVE  IsSearch(seen, {Root}, stop)
<1>1. Range(to_process) = {}
  BY DEF Range
<1>2. Closed(seen, {Root}, stop)
  BY <1>1 DEF Walk, Closed
<1>3. \A x \in SUBSET seen : Closed(x, {Root}, stop) => x = seen
  BY <1>1 DEF Walk, TypeOK
<1>. QED  BY <1>2, <1>3 DEF IsSearch

\* Collected is kept by every step.
LEMMA CollectedStep == ASSUME TypeOK, Collected, [Next]_vars PROVE Collected'
<1>1. UNCHANGED graphVars
  BY GraphKept
<1>2. CASE CollectAll
  <2>1. Walk({})'
    BY <1>2, WalkStep DEF CollectAll, Collected
  <2>2. pc' = "subdag_all"
    BY <1>2 DEF CollectAll, SubdagStep
  <2>. QED  BY <2>1, <2>2 DEF Collected
<1>3. CASE CollectRunnable
  <2>1. Walk(disabled)'
    BY <1>3, WalkStep DEF CollectRunnable, Collected
  <2>2. pc' = "subdag_run" /\ UNCHANGED <<all_tasks, upstream>> /\ pc = "subdag_run"
    BY <1>3 DEF CollectRunnable, SubdagStep, planVars, graphVars
  <2>3. IsSearch(all_tasks, {Root}, {})'
    BY <2>2 DEF Collected, IsSearch, Closed
  <2>. QED  BY <2>1, <2>2, <2>3 DEF Collected
<1>4. CASE AllCollected
  <2>1. /\ pc = "subdag_all" /\ to_process = <<>> /\ pc' = "sort_all"
        /\ all_tasks' = found /\ to_process' = <<Root>> /\ seen' = {} /\ found' = {}
        /\ UNCHANGED <<upstream, disabled>>
    BY <1>4 DEF AllCollected, SubdagAgain, graphVars
  <2>2. IsSearch(seen, {Root}, {}) /\ found = seen
    BY <2>1, WalkOver DEF Collected, Walk
  <2>3. IsSearch(all_tasks, {Root}, {})'
    BY <2>1, <2>2 DEF IsSearch, Closed
  <2>4. Range(<<Root>>) = {Root}
    BY DEF Range
  <2>5. Walk(disabled)'
    BY <2>1, <2>4 DEF Walk, Closed
  <2>. QED  BY <2>1, <2>3, <2>5 DEF Collected
<1>5. ASSUME NEW r \in SUBSET Tasks, RunnableCollected(r) PROVE Collected'
  BY <1>1, <1>5 DEF RunnableCollected, Collected, Walk, IsSearch, Closed, graphVars, subdagVars
<1>6. CASE /\ UNCHANGED <<subdagVars, all_tasks, tasks_to_run>>
           /\ pc # "subdag_all" => pc' # "subdag_all"
           /\ pc = "subdag_all" => pc' = "subdag_all"
           /\ pc \notin {"check", "sort_run", "done"} => pc' \notin {"check", "sort_run", "done"}
  BY <1>1, <1>6 DEF Collected, Walk, IsSearch, Closed, graphVars, subdagVars
<1>7. CASE \/ (\E n \in Tasks : SortNode(n)) \/ NextPass \/ IsDag \/ NextLevel \/ DfsStep
           \/ (\E p \in futures : FutureDone(p)) \/ (\E t \in Tasks : NextRoot(t))
           \/ CheckFails \/ Build \/ Sorted \/ UNCHANGED vars
  BY <1>6, <1>7 DEF SortNode, NextPass, IsDag, NextLevel, DfsStep, FutureDone, NextRoot,
     CheckFails, Build, Sorted, vars, planVars, subdagVars, Sorting
<1>. QED  BY <1>2, <1>3, <1>4, <1>5, <1>7 DEF Next, Step, Over

-----------------------------------------------------------------------------
(***************************************************************************)
(* topological_sort                                                        *)
(***************************************************************************)
\* A node that is taken comes after all of its upstream tasks, and is on no cycle.
LEMMA OrderSortNode ==
  ASSUME TypeOK, Order(Target), NEW n \in Tasks, SortNode(n)
  PROVE  Order(Target)'
<1> DEFINE s == Target
<1>0. s \in SUBSET Tasks /\ s' = s /\ Order(s)
  BY DEF TypeOK, Target, SortNode, planVars
<1> HIDE DEF s
<1>a. Order(s)' <=> Order(Target)'
  BY DEF s
<1> SUFFICES Order(s)'
  BY <1>a
<1> USE <1>0
<1>1. /\ n \in pass /\ n \in unsorted /\ n \in s
      /\ pass' = pass \ {n}
      /\ upstream' = upstream
      /\ sorted \in Seq(Tasks)
  BY DEF SortNode, TypeOK, Order, graphVars
<1>2. CASE upstream[n] \cap unsorted # {}
  <2>1. UNCHANGED <<acyclic, unsorted, sorted>>
    BY <1>2 DEF SortNode
  <2>. QED  BY <1>1, <1>2, <2>1 DEF Order, Cyclic
<1>3. CASE upstream[n] \cap unsorted = {}
  <2> DEFINE k == Len(sorted) + 1
  <2>1. acyclic' = TRUE /\ unsorted' = unsorted \ {n} /\ sorted' = Append(sorted, n)
    BY <1>3 DEF SortNode
  <2>2. /\ Len(sorted) \in Nat /\ DOMAIN sorted = 1..Len(sorted)
        /\ DOMAIN sorted' = 1..k /\ Len(sorted') = k
        /\ \A i \in 1..Len(sorted) : sorted'[i] = sorted[i]
        /\ sorted'[k] = n
    BY <1>1, <2>1, AppendProperties
  <2>3. \A i \in 1..k : i \in 1..Len(sorted) \/ i = k
    BY <2>2
  <2>4. \A i \in DOMAIN sorted : sorted[i] \notin unsorted
    BY DEF Order, Range
  <2>5. Range(sorted') = Range(sorted) \cup {n}
    BY <2>2, <2>3 DEF Range
  <2>6. Range(sorted') = s \ unsorted'
    BY <1>1, <2>1, <2>5 DEF Order
  <2>7. IsInjective(sorted')
    BY <1>1, <2>2, <2>3, <2>4 DEF Order, IsInjective
  <2>8. \A i \in DOMAIN sorted' : upstream[sorted'[i]] \cap unsorted' = {}
    BY <1>3, <2>1, <2>2, <2>3 DEF Order
  <2>9. ASSUME NEW i \in DOMAIN sorted', NEW j \in i..Len(sorted')
        PROVE  sorted'[j] \notin upstream[sorted'[i]]
    <3>1. CASE j = k
      <4>1. sorted'[j] = n
        BY <2>2, <3>1
      <4>2. CASE i = k
        BY <1>1, <1>3, <2>2, <4>1, <4>2
      <4>3. CASE i # k
        <5>1. i \in DOMAIN sorted /\ sorted'[i] = sorted[i]
          BY <2>2, <2>3, <2>9, <4>3
        <5>. QED  BY <1>1, <4>1, <5>1 DEF Order
      <4>. QED  BY <4>2, <4>3
    <3>2. CASE j # k
      <4>1. /\ i \in DOMAIN sorted /\ j \in i..Len(sorted) /\ j \in 1..Len(sorted)
        BY <2>2, <2>9, <3>2
      <4>. QED  BY <2>2, <4>1 DEF Order
    <3>. QED  BY <3>1, <3>2
  <2>10. ASSUME NEW x \in SUBSET s, Cyclic(x) PROVE x \subseteq unsorted'
    <3>1. x \subseteq unsorted
      BY <2>10 DEF Order
    <3>2. n \notin x
      BY <1>3, <2>10, <3>1 DEF Cyclic
    <3>. QED  BY <2>1, <3>1, <3>2
  <2>11. \A x \in SUBSET s : Cyclic(x)' => Cyclic(x)
    BY <1>1 DEF Cyclic
  <2>12. unsorted' \subseteq s
    BY <2>1 DEF Order
  <2>. QED  BY <1>1, <2>1, <2>6, <2>7, <2>8, <2>9, <2>10, <2>11, <2>12 DEF Order
<1>. QED  BY <1>2, <1>3

\* Ordered is kept by every step.
LEMMA OrderedStep ==
  ASSUME TypeOK, Collected, Ordered, [Next]_vars
  PROVE  Ordered'
<1>1. UNCHANGED graphVars
  BY GraphKept
<1>2. UNCHANGED upstream
  BY <1>1 DEF graphVars
<1>3. ASSUME UNCHANGED all_tasks PROVE HasCycle(all_tasks)' <=> HasCycle(all_tasks)
  BY <1>2, <1>3 DEF HasCycle
<1>5. CASE CollectAll \/ CollectRunnable
  BY <1>3, <1>5 DEF CollectAll, CollectRunnable, SubdagStep, planVars, Ordered
<1>6. CASE AllCollected
  <2>1. StartSort(found) /\ all_tasks' = found /\ pc' = "sort_all"
    BY <1>6 DEF AllCollected
  <2>2. Order(Target)'
    BY <2>1, <1>2 DEF StartSort, Target, Order, IsInjective, Range, Cyclic
  <2>. QED  BY <2>1, <2>2 DEF Ordered
<1>7. ASSUME NEW n \in Tasks, SortNode(n) PROVE Ordered'
  <2>1. pc \in {"sort_all", "sort_run"} /\ pc' = pc /\ UNCHANGED all_tasks
    BY <1>7 DEF SortNode, Sorting, planVars
  <2>2. Order(Target)'
    BY <1>7, <2>1, OrderSortNode DEF Ordered
  <2>. QED  BY <1>3, <2>1, <2>2 DEF Ordered
<1>8. CASE NextPass
  <2>1. /\ pc \in {"sort_all", "sort_run"} /\ pass = {} /\ unsorted # {}
        /\ UNCHANGED <<all_tasks, tasks_to_run, skipped, unsorted, sorted>>
    BY <1>8 DEF NextPass, Sorting, planVars
  <2>2. Order(Target) /\ Target \subseteq all_tasks
    <3>1. CASE pc = "sort_all"
      BY <3>1 DEF Ordered, Target
    <3>2. CASE pc = "sort_run"
      <4>1. tasks_to_run = seen \ disabled /\ IsSearch(all_tasks, {Root}, {})
        BY <3>2 DEF Collected, Walk
      <4>2. Closed(all_tasks, {Root}, disabled)
        BY <4>1 DEF IsSearch, Closed
      <4>3. seen \subseteq all_tasks
        BY <3>2, <4>2 DEF Collected, Walk, TypeOK
      <4>. QED  BY <3>2, <4>1, <4>3 DEF Ordered, Target
    <3>. QED  BY <2>1, <3>1, <3>2
  <2>3. CASE acyclic
    <3>1. pass' = unsorted /\ pc' = pc /\ acyclic' = FALSE
      BY <1>8, <2>3 DEF NextPass
    <3>2. Target' = Target
      BY <2>1, <3>1 DEF Target
    <3>3. Order(Target)'
      BY <2>1, <2>2, <3>1, <3>2, <1>2 DEF Order, Cyclic
    <3>. QED  BY <1>3, <2>1, <3>1, <3>3 DEF Ordered
  <2>4. CASE ~acyclic
    <3>1. pc' = "cyclic"
      BY <1>8, <2>4 DEF NextPass
    <3>2. unsorted \in SUBSET all_tasks /\ \A n \in unsorted : upstream[n] \cap unsorted # {}
      BY <2>1, <2>2, <2>4 DEF Order
    <3>3. HasCycle(all_tasks)
      BY <2>1, <3>2 DEF HasCycle
    <3>. QED  BY <1>3, <2>1, <3>1, <3>3 DEF Ordered
  <2>. QED  BY <2>3, <2>4
<1>9. CASE IsDag
  <2>1. pc = "sort_all" /\ unsorted = {} /\ pc' = "subdag_run" /\ UNCHANGED all_tasks
    BY <1>9 DEF IsDag, planVars
  <2>2. ~HasCycle(all_tasks)
    BY <2>1 DEF Ordered, Order, Target, HasCycle, Cyclic
  <2>. QED  BY <1>3, <2>1, <2>2 DEF Ordered
<1>10. ASSUME NEW r \in SUBSET Tasks, RunnableCollected(r) PROVE Ordered'
  BY <1>3, <1>10 DEF RunnableCollected, Ordered
<1>11. CASE Build
  <2>1. /\ StartSort(tasks_to_run \ skipped) /\ pc = "check" /\ pc' \in {"sort_run", "failed"}
        /\ UNCHANGED <<all_tasks, tasks_to_run, skipped>>
    BY <1>11 DEF Build
  <2>2. Order(Target)'
    BY <2>1, <1>2 DEF StartSort, Target, Order, IsInjective, Range, Cyclic
  <2>. QED  BY <1>3, <2>1, <2>2 DEF Ordered
<1>12. CASE Sorted
  BY <1>2, <1>3, <1>12 DEF Sorted, Ordered, Order, Target, Cyclic, sortVars, planVars
<1>13. CASE \/ NextLevel \/ DfsStep \/ CheckFails
            \/ (\E p \in futures : FutureDone(p)) \/ (\E t \in Tasks : NextRoot(t))
  <2>1. pc = "check" /\ pc' \in {"check", "failed"} /\ UNCHANGED all_tasks
    BY <1>13 DEF NextLevel, DfsStep, FutureDone, NextRoot, CheckFails, planVars
  <2>. QED  BY <1>3, <2>1 DEF Ordered
<1>14. CASE UNCHANGED vars
  BY <1>2, <1>3, <1>14 DEF vars, Ordered, Order, Target, Cyclic, sortVars, planVars
<1>. QED
  BY <1>5, <1>6, <1>7, <1>8, <1>9, <1>10, <1>11, <1>12, <1>13, <1>14 DEF Next, Step, Over

-----------------------------------------------------------------------------
(***************************************************************************)
(* The search for completed tasks                                          *)
(***************************************************************************)
\* The next list has the unchecked upstream tasks of what is in this one.
LEMMA ListedNext ==
  ASSUME TypeOK, NextLevel
  PROVE  Listed' = UNION {upstream[t] \ status : t \in Listed \ complete}
<1>1. ASSUME NEW p \in level
      PROVE  /\ p \in Seq(Tasks) /\ Last(p) \in Tasks
             /\ \A u \in Tasks : Last(Append(p, u)) = u
  <2>1. p \in Seq(Tasks) /\ p # <<>>
    BY DEF TypeOK
  <2>2. \A u \in Tasks : Len(Append(p, u)) = Len(p) + 1 /\ Append(p, u)[Len(p) + 1] = u
    BY <2>1, AppendProperties
  <2>. QED  BY <2>1, <2>2, FrontType DEF Last
<1>2. level' = UNION {Entries(p) : p \in level}
  BY DEF NextLevel
<1>3. ASSUME NEW v \in Listed'
      PROVE  \E t \in Listed \ complete : v \in upstream[t] \ status
  <2>0. PICK p \in level : \E q \in Entries(p) : v = Last(q)
    BY <1>2, <1>3 DEF Listed
  <2>1. PICK q \in Entries(p) : v = Last(q)
    BY <2>0
  <2>2. PICK u \in upstream[Last(p)] \ status : q = Append(p, u) /\ Last(p) \notin complete
    BY <2>1 DEF Entries
  <2>3. u \in Tasks
    BY <1>1, <2>2, Graph
  <2>. QED  BY <1>1, <2>1, <2>2, <2>3 DEF Listed
<1>4. ASSUME NEW t \in Listed \ complete, NEW v \in upstream[t] \ status
      PROVE  v \in Listed'
  <2>1. PICK p \in level : t = Last(p)
    BY <1>4 DEF Listed
  <2>2. v \in Tasks
    BY <1>1, <2>1, Graph
  <2>3. Append(p, v) \in level'
    BY <1>2, <1>4, <2>1 DEF Entries
  <2>. QED  BY <1>1, <2>1, <2>2, <2>3 DEF Listed
<1>. QED  BY <1>3, <1>4

\* The tasks in the list are tasks.
LEMMA ListedType == ASSUME TypeOK PROVE Listed \in SUBSET Tasks
  BY FrontType DEF TypeOK, Listed

\* A level of the breadth first search whose futures are done is checked.
LEMMA SearchNextLevel == ASSUME TypeOK, Search, NextLevel PROVE Search'
<1>1. /\ UNCHANGED <<upstream, complete, parallel, skip_completed, roots, todo, checked,
                     status, stack>>
      /\ futures = {} /\ futures' = level' /\ parallel
  BY DEF NextLevel, graphVars
<1>2. Listed \subseteq status
  BY <1>1 DEF Search, Listed
<1>3. Listed' = UNION {upstream[t] \ status : t \in Listed \ complete}
  BY ListedNext
<1>4. ASSUME NEW t \in status \ complete, NEW u \in upstream[t]
      PROVE  u \in status \/ Waits(t, u) \/ u \in Listed'
  BY <1>2, <1>3 DEF Search
<1>5. ASSUME NEW x \in SUBSET Tasks, Closed(x, roots, complete)
      PROVE  Listed' \subseteq x
  <2>1. Listed \subseteq x
    BY <1>5 DEF Search
  <2>. QED  BY <1>3, <1>5, <2>1 DEF Closed
<1>. QED  BY <1>1, <1>2, <1>4, <1>5 DEF Search, Waits, Closed

\* A future that is done adds its task, whose upstream tasks are for the next level.
LEMMA SearchFutureDone ==
  ASSUME TypeOK, Search, NEW p \in futures, FutureDone(p)
  PROVE  Search'
<1>1. /\ UNCHANGED <<upstream, complete, parallel, skip_completed, roots, todo, checked,
                     level, stack>>
      /\ status' = status \cup {Last(p)} /\ futures' = futures \ {p}
      /\ p \in level
  BY DEF FutureDone, graphVars, TypeOK
<1>2. Last(p) \in Listed /\ Listed' = Listed
  BY <1>1 DEF Listed
<1>. QED  BY <1>1, <1>2 DEF Search, Waits, Closed

\* The next root: what the search that ended checked is closed.
LEMMA SearchNextRoot ==
  ASSUME TypeOK, Search, NEW w \in Tasks, NextRoot(w)
  PROVE  Search'
<1>1. /\ UNCHANGED <<upstream, complete, parallel, skip_completed, roots>>
      /\ stack = <<>> /\ level = {} /\ w \in todo /\ todo' = todo \ {w}
      /\ checked' = checked \cup status
  BY DEF NextRoot, graphVars
<1>2. Listed = {} /\ \A t, u : ~Waits(t, u)
  BY <1>1 DEF Listed, Waits
<1>3. \A t \in checked' \ complete : upstream[t] \subseteq checked'
  BY <1>1, <1>2 DEF Search
<1>4. w \in roots
  BY <1>1 DEF Search
<1>5. CASE parallel
  <2>1. level' = {<<w>>} /\ futures' = level' /\ status' = {} /\ stack' = <<>>
    BY <1>1, <1>5 DEF NextRoot
  <2>2. Listed' = {w}
    BY <2>1 DEF Listed, Last
  <2>. QED  BY <1>1, <1>2, <1>3, <1>4, <1>5, <2>1, <2>2 DEF Search, Closed
<1>6. CASE ~parallel
  <2>1. stack' = <<Frame(w)>> /\ status' = {w} /\ level' = {}
    BY <1>1, <1>6 DEF NextRoot
  <2>2. Listed' = {}
    BY <2>1 DEF Listed
  <2>3. DOMAIN stack' = {1} /\ stack'[1] = <<w, IF w \in complete THEN {} ELSE upstream[w]>>
    BY <2>1 DEF Frame
  <2>4. \A u \in upstream[w] : w \notin complete => Waits(w, u)'
    BY <2>3 DEF Waits
  <2>5. \A i \in DOMAIN stack' : /\ stack'[i][1] \in status'
                                 /\ stack'[i][2] \subseteq upstream[stack'[i][1]]
                                 /\ stack'[i][1] \in complete => stack'[i][2] = {}
    BY <2>1, <2>3
  <2>. QED  BY <1>1, <1>2, <1>3, <1>4, <1>6, <2>1, <2>2, <2>4, <2>5 DEF Search, Closed
<1>. QED  BY <1>5, <1>6

\* A step of the depth first search: an upstream task leaves a frame only when it is
\* checked, and a frame leaves the stack only when it is empty.
LEMMA SearchDfsStep == ASSUME TypeOK, Search, DfsStep PROVE Search'
<1> DEFINE n == Len(stack)
           frame == Last(stack)
           Good(q, st) == \A i \in DOMAIN q : /\ q[i][1] \in st
                                              /\ q[i][2] \subseteq upstream[q[i][1]]
                                              /\ q[i][1] \in complete => q[i][2] = {}
<1>1. /\ UNCHANGED <<upstream, complete, parallel, skip_completed, roots, todo, checked,
                     level, futures>>
      /\ stack # <<>> /\ ~parallel /\ level = {}
  BY DEF DfsStep, graphVars, Search
<1>2. Listed = {} /\ Listed' = {}
  BY <1>1 DEF Listed
<1>3. /\ stack \in Seq(Tasks \X SUBSET Tasks)
      /\ n \in Nat \ {0} /\ DOMAIN stack = 1..n
      /\ frame = stack[n] /\ frame[1] \in Tasks /\ frame[2] \in SUBSET Tasks
      /\ Front(stack) \in Seq(Tasks \X SUBSET Tasks)
      /\ Len(Front(stack)) = n - 1
      /\ \A i \in 1..n - 1 : Front(stack)[i] = stack[i]
  BY <1>1, FrontType DEF TypeOK, Last
<1>4. Good(stack, status) /\ n \in DOMAIN stack
  BY <1>3 DEF Search
<1>5. SUFFICES /\ Good(stack', status')
               /\ status \subseteq status'
               /\ \A t \in status' \ complete : \A u \in upstream[t] : u \in status' \/ Waits(t, u)'
               /\ \A x \in SUBSET Tasks : Closed(x, roots, complete) => status' \subseteq x
  BY <1>1, <1>2 DEF Search, Closed
<1>6. \A t \in status \ complete : \A u \in upstream[t] : u \in status \/ Waits(t, u)
  BY <1>2 DEF Search
<1>7. \A x \in SUBSET Tasks : Closed(x, roots, complete) => status \subseteq x
  BY DEF Search
<1>8. CASE frame[2] = {}
  <2>1. stack' = Front(stack) /\ status' = status
    BY <1>8 DEF DfsStep
  <2>2. DOMAIN stack' = 1..(n - 1) /\ \A i \in 1..(n - 1) : stack'[i] = stack[i] /\ i \in DOMAIN stack
    BY <1>3, <2>1
  <2>3. Good(stack', status')
    BY <1>4, <2>1, <2>2
  <2>4. ASSUME NEW t, NEW u, Waits(t, u) PROVE Waits(t, u)'
    <3>1. PICK i \in DOMAIN stack : stack[i][1] = t /\ u \in stack[i][2]
      BY <2>4 DEF Waits
    <3>2. i # n
      BY <1>3, <1>8, <3>1
    <3>3. i \in 1..(n - 1)
      BY <1>3, <3>2
    <3>. QED  BY <2>2, <3>1, <3>3 DEF Waits
  <2>. QED  BY <1>6, <1>7, <2>1, <2>3, <2>4
<1>9. CASE frame[2] # {}
  <2>1. PICK v \in frame[2] :
          LET rest == Append(Front(stack), <<frame[1], frame[2] \ {v}>>) IN
            IF v \in status
              THEN stack' = rest /\ UNCHANGED status
              ELSE stack' = Append(rest, Frame(v)) /\ status' = status \cup {v}
    BY <1>9 DEF DfsStep
  <2> DEFINE rest == Append(Front(stack), <<frame[1], frame[2] \ {v}>>)
  <2>2. v \in Tasks /\ <<frame[1], frame[2] \ {v}>> \in Tasks \X SUBSET Tasks
    BY <1>3, <2>1
  <2>3. /\ rest \in Seq(Tasks \X SUBSET Tasks) /\ Len(rest) = n /\ DOMAIN rest = 1..n
        /\ \A i \in 1..(n - 1) : rest[i] = stack[i]
        /\ rest[n] = <<frame[1], frame[2] \ {v}>>
    <3>1. /\ rest \in Seq(Tasks \X SUBSET Tasks)
          /\ Len(rest) = Len(Front(stack)) + 1
          /\ \A i \in 1..Len(Front(stack)) : rest[i] = Front(stack)[i]
          /\ rest[Len(Front(stack)) + 1] = <<frame[1], frame[2] \ {v}>>
      <4> DEFINE S == Tasks \X SUBSET Tasks
                 e == <<frame[1], frame[2] \ {v}>>
      <4>1. e \in S /\ Front(stack) \in Seq(S) /\ rest = Append(Front(stack), e)
        BY <1>3, <2>2
      <4> HIDE DEF S, e, rest
      <4>2. /\ rest \in Seq(S) /\ Len(rest) = Len(Front(stack)) + 1
            /\ \A i \in 1..Len(Front(stack)) : rest[i] = Front(stack)[i]
            /\ rest[Len(Front(stack)) + 1] = e
        BY <4>1, AppendProperties
      <4>. QED  BY <4>2 DEF S, e
    <3> HIDE DEF rest, n, frame
    <3>2. Len(Front(stack)) + 1 = n
      BY <1>3
    <3>. QED  BY <1>3, <3>1, <3>2
  <2> HIDE DEF rest
  <2>4. Good(rest, status)
    <3>1. ASSUME NEW i \in 1..n PROVE /\ rest[i][1] = stack[i][1]
                                      /\ rest[i][2] \subseteq stack[i][2]
      <4>1. i = n \/ i \in 1..(n - 1)
        <5>1. n \in Nat
          BY <1>3
        <5> HIDE DEF n
        <5>. QED  BY <3>1, <5>1
      <4>2. CASE i = n
        BY <1>3, <2>3, <4>2
      <4>3. CASE i \in 1..(n - 1)
        BY <2>3, <4>3
      <4>. QED  BY <4>1, <4>2, <4>3
    <3>. QED  BY <1>3, <1>4, <2>3, <3>1
  <2>5. ASSUME NEW t, NEW u, Waits(t, u), u # v
        PROVE  \E i \in DOMAIN rest : rest[i][1] = t /\ u \in rest[i][2]
    <3>1. PICK i \in DOMAIN stack : stack[i][1] = t /\ u \in stack[i][2]
      BY <2>5 DEF Waits
    <3>2. i = n \/ i \in 1..(n - 1)
      BY <1>3, <3>1
    <3>3. CASE i = n
      <4>1. rest[n][1] = t /\ u \in rest[n][2]
        BY <1>3, <2>3, <2>5, <3>1, <3>3
      <4>. QED  BY <1>3, <2>3, <4>1
    <3>4. CASE i \in 1..(n - 1)
      <4>1. rest[i] = stack[i] /\ i \in DOMAIN rest
        BY <1>3, <2>3, <3>4
      <4>. QED  BY <3>1, <4>1
    <3>. QED  BY <3>2, <3>3, <3>4
  <2>6. CASE v \in status
    <3>1. stack' = rest /\ status' = status
      BY <2>1, <2>6 DEF rest
    <3>2. \A t \in status \ complete : \A u \in upstream[t] : u \in status \/ Waits(t, u)'
      BY <1>6, <2>5, <2>6, <3>1 DEF Waits
    <3>. QED  BY <1>7, <2>4, <3>1, <3>2
  <2>7. CASE v \notin status
    <3>1. stack' = Append(rest, Frame(v)) /\ status' = status \cup {v}
      BY <2>1, <2>7 DEF rest
    <3>2. /\ DOMAIN stack' = 1..(n + 1)
          /\ \A i \in 1..n : stack'[i] = rest[i]
          /\ stack'[n + 1] = Frame(v)
      BY <2>2, <2>3, <3>1, FrameType, AppendProperties
    <3>3. Frame(v)[1] = v /\ Frame(v)[2] = (IF v \in complete THEN {} ELSE upstream[v])
      BY DEF Frame
    <3>4. \A i \in 1..(n + 1) : i \in 1..n \/ i = n + 1
      BY <1>3
    <3>5. Good(stack', status')
      BY <2>3, <2>4, <3>1, <3>2, <3>3, <3>4
    <3>6. \A t, u : Waits(t, u) /\ u # v => Waits(t, u)'
      BY <1>3, <2>3, <2>5, <3>2 DEF Waits
    <3>7. \A u \in upstream[v] : v \notin complete => Waits(v, u)'
      <4>1. n + 1 \in DOMAIN stack' /\ stack'[n + 1][1] = v
        BY <1>3, <3>2, <3>3
      <4>2. v \notin complete => stack'[n + 1][2] = upstream[v]
        BY <3>2, <3>3
      <4>. QED  BY <4>1, <4>2 DEF Waits
    <3>8. \A t \in status' \ complete : \A u \in upstream[t] : u \in status' \/ Waits(t, u)'
      BY <1>6, <3>1, <3>6, <3>7
    <3>9. ASSUME NEW x \in SUBSET Tasks, Closed(x, roots, complete) PROVE v \in x
      <4>1. frame[1] \in status /\ v \in upstream[frame[1]] /\ frame[1] \notin complete
        BY <1>3, <1>4, <1>9, <2>1
      <4>. QED  BY <1>7, <3>9, <4>1 DEF Closed
    <3>. QED  BY <1>7, <3>1, <3>5, <3>8, <3>9
  <2>. QED  BY <2>6, <2>7
<1>. QED  BY <1>8, <1>9

\* Checked is kept by every step.
LEMMA CheckedStep == ASSUME TypeOK, Checked, [Next]_vars PROVE Checked'
<1>1. UNCHANGED graphVars
  BY GraphKept
<1>2. ASSUME NEW r \in SUBSET Tasks, RunnableCollected(r) PROVE Checked'
  <2>1. /\ pc = "subdag_run" /\ pc' \in {"check", "failed"} /\ roots' = r
        /\ todo' = IF skip_completed THEN r ELSE {}
        /\ UNCHANGED <<checked, status, stack, level, futures, graphVars>>
    BY <1>2 DEF RunnableCollected
  <2>2. checked' = {} /\ status' = {} /\ stack' = <<>> /\ level' = {}
    BY <2>1 DEF Checked
  <2>3. Listed' = {} /\ DOMAIN stack' = {}
    BY <2>2 DEF Listed
  <2>4. Search'
    BY <2>1, <2>2, <2>3 DEF Search, graphVars
  <2>. QED  BY <2>1, <2>4 DEF Checked
<1>3. ASSUME NEW t \in Tasks, NextRoot(t) PROVE Checked'
  BY <1>3, SearchNextRoot DEF NextRoot, Checked
<1>4. ASSUME NEW p \in futures, FutureDone(p) PROVE Checked'
  BY <1>4, SearchFutureDone DEF FutureDone, Checked
<1>5. CASE NextLevel
  BY <1>5, SearchNextLevel DEF NextLevel, Checked
<1>6. CASE DfsStep
  BY <1>6, SearchDfsStep DEF DfsStep, Checked
<1>7. CASE CheckFails
  BY <1>7 DEF CheckFails, Checked
<1>8. CASE Build
  <2>1. /\ pc = "check" /\ pc' \in {"sort_run", "failed"} /\ stack = <<>> /\ level = {}
        /\ todo = {} /\ checked' = checked \cup status
        /\ UNCHANGED <<roots, complete, upstream, skip_completed>>
    BY <1>8 DEF Build, graphVars
  <2>2. Search /\ Listed = {} /\ \A t, u : ~Waits(t, u)
    BY <2>1 DEF Checked, Listed, Waits
  <2>3. ASSUME skip_completed PROVE IsSearch(checked, roots, complete)'
    <3>1. Closed(checked', roots, complete)
      BY <2>1, <2>2, <2>3 DEF Search, Closed
    <3>2. checked' \in SUBSET Tasks
      BY <2>1 DEF TypeOK
    <3>3. ASSUME NEW x \in SUBSET checked', Closed(x, roots, complete) PROVE x = checked'
      BY <2>1, <2>2, <3>2, <3>3 DEF Search
    <3>. QED  BY <2>1, <3>1, <3>3 DEF IsSearch, Closed
  <2>. QED  BY <2>1, <2>3 DEF Checked
<1>9. CASE \/ CollectAll \/ CollectRunnable \/ AllCollected \/ IsDag \/ Sorted \/ NextPass
           \/ (\E n \in Tasks : SortNode(n)) \/ UNCHANGED vars
  <2>1. /\ UNCHANGED <<roots, checkVars>>
        /\ pc = "check" <=> pc' = "check"
        /\ pc' \in {"subdag_all", "sort_all", "subdag_run"} => pc \in {"subdag_all", "sort_all", "subdag_run"}
        /\ pc' \in {"sort_run", "done"} => pc \in {"sort_run", "done"}
    BY <1>9 DEF CollectAll, CollectRunnable, SubdagStep, AllCollected, IsDag, Sorted, NextPass,
       SortNode, Sorting, vars
  <2>2. Search => Search'
    BY <1>1, <2>1 DEF Search, Waits, Listed, Closed, checkVars, graphVars
  <2>3. IsSearch(checked, roots, complete) => IsSearch(checked, roots, complete)'
    BY <1>1, <2>1 DEF IsSearch, Closed, checkVars, graphVars
  <2>. QED  BY <1>1, <2>1, <2>2, <2>3 DEF Checked, checkVars, graphVars
<1>. QED
  BY <1>2, <1>3, <1>4, <1>5, <1>6, <1>7, <1>8, <1>9 DEF Next, Step, Over

\* Planned is kept by every step.
LEMMA PlannedStep == ASSUME TypeOK, Planned, [Next]_vars PROVE Planned'
<1>1. UNCHANGED graphVars
  BY GraphKept
<1>2. ASSUME UNCHANGED roots PROVE Subdag(roots)' = Subdag(roots)
  BY <1>1, <1>2 DEF Subdag, IsSearch, Closed, graphVars
<1>3. ASSUME NEW r \in SUBSET Tasks, RunnableCollected(r) PROVE Planned'
  <2>1. /\ pc' \in {"check", "failed"} /\ tasks_to_run' = found /\ roots' = r
        /\ skipped' = found \ Subdag(r)
    BY <1>3 DEF RunnableCollected
  <2>2. Subdag(roots)' = Subdag(r)
    BY <1>1, <2>1 DEF Subdag, IsSearch, Closed, graphVars
  <2>. QED  BY <2>1, <2>2 DEF Planned
<1>4. CASE Build
  <2>1. /\ pc = "check" /\ UNCHANGED <<roots, tasks_to_run, skipped, skip_completed, complete>>
        /\ completed' = IF skip_completed THEN (tasks_to_run \ skipped) \cap checked' \cap complete ELSE {}
        /\ not_required' = IF skip_completed THEN (tasks_to_run \ skipped) \ checked' ELSE {}
        /\ pc' \in {"sort_run", "failed"}
    BY <1>4 DEF Build, graphVars
  <2>. QED  BY <1>2, <2>1 DEF Planned
<1>5. CASE AllCollected
  BY <1>5 DEF AllCollected, Planned
<1>6. CASE \/ CollectAll \/ CollectRunnable \/ IsDag \/ Sorted \/ NextPass \/ UNCHANGED vars
           \/ (\E n \in Tasks : SortNode(n))
  <2>1. /\ UNCHANGED <<roots, checked, planVars>>
        /\ pc' \in {"check", "sort_run", "done"} => pc \in {"check", "sort_run", "done"}
        /\ pc' \in {"sort_run", "done"} => pc \in {"sort_run", "done"}
    BY <1>6 DEF CollectAll, CollectRunnable, SubdagStep, IsDag, Sorted, NextPass, SortNode,
       Sorting, checkVars, vars
  <2>. QED  BY <1>1, <1>2, <2>1 DEF Planned, planVars, graphVars
<1>7. CASE \/ NextLevel \/ DfsStep \/ CheckFails
           \/ (\E p \in futures : FutureDone(p)) \/ (\E t \in Tasks : NextRoot(t))
  <2>1. pc = "check" /\ pc' \in {"check", "failed"} /\ UNCHANGED <<roots, planVars>>
    BY <1>7 DEF NextLevel, DfsStep, FutureDone, NextRoot, CheckFails
  <2>. QED  BY <1>2, <2>1 DEF Planned, planVars
<1>. QED  BY <1>3, <1>4, <1>5, <1>6, <1>7 DEF Next, Step, Over

-----------------------------------------------------------------------------
(***************************************************************************)
(* The theorems                                                            *)
(***************************************************************************)
\* The inductive invariant holds for every graph over a finite set of tasks.
THEOREM Invariance == Spec => []IInv
<1>1. Init => IInv
  <2> SUFFICES ASSUME Init PROVE IInv
    OBVIOUS
  <2>1. <<Root>> \in Seq(Tasks) /\ <<>> \in Seq(Tasks) /\ Range(<<Root>>) = {Root}
    BY RootAssumption DEF Range
  <2>2. TypeOK
    <3>1. <<>> \in Seq(Tasks \X SUBSET Tasks)
      OBVIOUS
    <3>2. /\ to_process \in Seq(Tasks) /\ sorted \in Seq(Tasks)
          /\ stack \in Seq(Tasks \X SUBSET Tasks) /\ roots \in SUBSET Tasks
      BY <2>1, <3>1, RootAssumption DEF Init
    <3>. QED  BY <3>2 DEF Init, TypeOK
  <2>3. Collected
    BY <2>1 DEF Init, Collected, Walk, Closed
  <2>. QED  BY <2>2, <2>3 DEF Init, IInv, Ordered, Checked, Planned
<1>2. IInv /\ [Next]_vars => IInv'
  BY TypeStep, CollectedStep, OrderedStep, CheckedStep, PlannedStep DEF IInv
<1>. QED  BY <1>1, <1>2, PTL DEF Spec

\* Types for every graph.
THEOREM TypeCorrect == Spec => []TypeOK
  BY Invariance, PTL DEF IInv

\* Both searches of _get_all_tasks find the least set that is closed under upstream,
\* the second one stopping at disabled tasks, on graphs with cycles too.
THEOREM SubdagRightHolds == Spec => []SubdagRight
<1>1. IInv => SubdagRight
  <2> SUFFICES ASSUME IInv PROVE SubdagRight
    OBVIOUS
  <2>1. ASSUME pc \in {"check", "sort_run", "done"}
        PROVE  /\ tasks_to_run \cap disabled = {}
               /\ \E s \in SUBSET disabled : IsSearch(tasks_to_run \cup s, {Root}, disabled)
    <3>1. Walk(disabled) /\ to_process = <<>> /\ tasks_to_run = found
      BY <2>1 DEF IInv, Collected
    <3>2. IsSearch(seen, {Root}, disabled)
      BY <3>1, WalkOver DEF IInv
    <3>3. found = seen \ disabled /\ seen = found \cup (seen \cap disabled)
      BY <3>1 DEF Walk
    <3>. QED  BY <3>1, <3>2, <3>3
  <2>. QED  BY <2>1 DEF IInv, Collected, SubdagRight
<1>. QED  BY <1>1, Invariance, PTL

\* The sort gives each task once and after all of its upstream tasks, in whatever order
\* the nodes of a pass are looked at, and it fails exactly for a graph with a cycle.
THEOREM SortRightHolds == Spec => []SortRight
<1>1. IInv => SortRight
  BY DEF IInv, Ordered, Order, Target, SortRight, Sorting
<1>. QED  BY <1>1, Invariance, PTL

\* In either mode, and in any order of the futures, the tasks that were checked are the
\* ones that a search from the roots meets which stops at completed tasks.
THEOREM StatusRightHolds == Spec => []StatusRight
<1>1. IInv => StatusRight
  BY DEF IInv, Checked, StatusRight
<1>. QED  BY <1>1, Invariance, PTL

\* An upstream task of a task that will be executed is complete, disabled, or will be
\* executed too.
THEOREM UpstreamCoveredHolds == Spec => []UpstreamCovered
<1>1. ASSUME IInv, pc \in {"sort_run", "done"}, NEW t \in ToExecute, NEW u \in upstream[t]
      PROVE  u \in complete \/ u \in disabled \/ u \in ToExecute
  <2>1. TypeOK /\ roots \in SUBSET Tasks
    BY <1>1 DEF IInv, TypeOK
  <2>2. IsSearch(Subdag(roots), roots, {})
    BY <2>1, SubdagIs
  <2>3. /\ Walk(disabled) /\ to_process = <<>> /\ tasks_to_run = found
        /\ skipped = tasks_to_run \ Subdag(roots)
        /\ completed = IF skip_completed
                         THEN (tasks_to_run \ skipped) \cap checked \cap complete ELSE {}
        /\ not_required = IF skip_completed THEN (tasks_to_run \ skipped) \ checked ELSE {}
    BY <1>1 DEF IInv, Collected, Planned
  <2>4. t \in tasks_to_run /\ t \in Subdag(roots)
    BY <1>1, <2>3 DEF ToExecute
  <2>5. u \in tasks_to_run \/ u \in disabled
    <3>1. IsSearch(seen, {Root}, disabled) /\ found = seen \ disabled
      BY <2>1, <2>3, WalkOver DEF Walk
    <3>. QED  BY <1>1, <2>3, <2>4, <3>1 DEF IsSearch, Closed
  <2>6. u \in Subdag(roots)
    BY <1>1, <2>2, <2>4 DEF IsSearch, Closed
  <2>7. CASE ~skip_completed
    BY <2>3, <2>5, <2>6, <2>7 DEF ToExecute
  <2>8. CASE skip_completed
    <3>1. t \in checked /\ t \notin complete
      BY <1>1, <2>3, <2>8 DEF ToExecute
    <3>2. u \in checked
      BY <1>1, <2>8, <3>1 DEF IInv, Checked, IsSearch, Closed
    <3>. QED  BY <2>3, <2>5, <2>6, <2>8, <3>2 DEF ToExecute
  <2>. QED  BY <2>7, <2>8
<1>2. IInv => UpstreamCovered
  BY <1>1 DEF UpstreamCovered
<1>. QED  BY <1>2, Invariance, PTL

\* What runs is what the root task needs: when the root alone was asked for, a set of the tasks of
\* the run that has the root and, with each task that will be executed, its upstream tasks in the
\* run, has all tasks that will be executed, provided that the search for completed tasks met no
\* disabled task that is not complete (it goes on behind such a task, which is not in the run).
PlanRooted ==
  pc \in {"sort_run", "done"} /\ roots = {Root} /\ checked \cap disabled \subseteq complete =>
    \A s \in SUBSET tasks_to_run :
      Root \in s /\ (\A t \in s \cap ToExecute : upstream[t] \cap tasks_to_run \subseteq s) => ToExecute \subseteq s

\* The tasks that will be executed are reached from the root through tasks that will be executed:
\* this is what RootedSuccessMeansDone of SingleDagRunJobProofs asks of a DAG.
THEOREM PlanRootedHolds == Spec => []PlanRooted
<1>1. ASSUME IInv, pc \in {"sort_run", "done"}, roots = {Root}, checked \cap disabled \subseteq complete,
             NEW s \in SUBSET tasks_to_run, Root \in s,
             \A t \in s \cap ToExecute : upstream[t] \cap tasks_to_run \subseteq s
      PROVE  ToExecute \subseteq s
  <2>1. TypeOK /\ upstream \in [Tasks -> SUBSET Tasks]
    BY <1>1, Graph DEF IInv
  <2>2. /\ Walk(disabled) /\ to_process = <<>> /\ tasks_to_run = found
        /\ skipped = tasks_to_run \ Subdag(roots)
        /\ completed = IF skip_completed
                         THEN (tasks_to_run \ skipped) \cap checked \cap complete ELSE {}
        /\ not_required = IF skip_completed THEN (tasks_to_run \ skipped) \ checked ELSE {}
    BY <1>1 DEF IInv, Collected, Planned
  <2>3. IsSearch(seen, {Root}, disabled) /\ found = seen \ disabled /\ seen \subseteq Tasks
    BY <2>1, <2>2, WalkOver DEF Walk, TypeOK
  <2>4. \A t \in tasks_to_run : upstream[t] \subseteq tasks_to_run \cup (seen \cap disabled)
    BY <2>2, <2>3 DEF IsSearch, Closed
  <2>5. skipped = {}
    <3>1. IsSearch(Subdag(roots), roots, {})
      BY <2>1, SubdagIs DEF TypeOK
    <3>2. Subdag(roots) \cap Tasks \in SUBSET Tasks /\ Closed(Subdag(roots) \cap Tasks, {Root}, disabled)
      BY <1>1, <2>1, <3>1, RootAssumption DEF IsSearch, Closed
    <3>3. seen \subseteq Subdag(roots)
      BY <2>2, <3>2 DEF Walk
    <3>. QED  BY <2>2, <2>3, <3>3
  <2>6. CASE ~skip_completed
    <3>1. ToExecute = tasks_to_run
      BY <2>2, <2>5, <2>6 DEF ToExecute
    <3>2. \A t \in s : upstream[t] \subseteq s \cup (seen \cap disabled)
      BY <1>1, <2>4, <3>1
    <3>3. Closed(s \cup (seen \cap disabled), {Root}, disabled)
      BY <1>1, <3>2 DEF Closed
    <3>4. s \cup (seen \cap disabled) \in SUBSET seen
      BY <1>1, <2>2, <2>3
    <3>5. s \cup (seen \cap disabled) = seen
      BY <2>3, <3>3, <3>4 DEF IsSearch
    <3>. QED  BY <2>2, <2>3, <3>1, <3>5
  <2>7. CASE skip_completed
    <3>. DEFINE x == checked \cap (s \cup disabled)
    <3>1. ToExecute = (tasks_to_run \cap checked) \ complete
      BY <2>2, <2>5, <2>7 DEF ToExecute
    <3>2. IsSearch(checked, roots, complete)
      BY <1>1, <2>7 DEF IInv, Checked
    <3>3. Root \in x
      BY <1>1, <3>2 DEF IsSearch, Closed
    <3>4. ASSUME NEW t \in x \ complete PROVE upstream[t] \subseteq x
      <4>1. t \in s \cap ToExecute
        BY <1>1, <3>1, <3>4
      <4>2. upstream[t] \subseteq s \cup disabled
        BY <1>1, <2>4, <4>1
      <4>3. upstream[t] \subseteq checked
        BY <3>2, <3>4 DEF IsSearch, Closed
      <4>. QED  BY <4>2, <4>3
    <3>5. Closed(x, roots, complete)
      BY <1>1, <3>3, <3>4 DEF Closed
    <3>6. x = checked
      <4>. HIDE DEF x
      <4>1. x \in SUBSET checked
        BY DEF x
      <4>. QED  BY <3>2, <3>5, <4>1 DEF IsSearch
    <3>. QED  BY <2>2, <2>3, <3>1, <3>6
  <2>. QED  BY <2>6, <2>7
<1>2. IInv => PlanRooted
  BY <1>1 DEF PlanRooted
<1>. QED  BY <1>2, Invariance, PTL
=============================================================================
