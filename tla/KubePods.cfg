SPECIFICATION FairSpec
CONSTANTS
  t1 = t1
  Tasks <- MCTasks
  Retries = {0, 1}
  RetryCounts = {0, 1}
  MaxFaults = 3
INVARIANTS PodsTracked OnePodSubmitted TriesBounded OutcomeTracked
PROPERTY JobTerminates
CHECK_DEADLOCK FALSE
