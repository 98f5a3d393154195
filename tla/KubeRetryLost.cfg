SPECIFICATION Spec
CONSTANTS
  t1 = t1
  Tasks <- MCTasks
  Retries = {1}
  RetryCounts = {}
  MaxFaults = 1
PROPERTY RetryKept
CHECK_DEADLOCK FALSE
