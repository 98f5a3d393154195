SPECIFICATION FairSpec
CONSTANTS
  Tasks <- PairTasks
  Order <- PairOrder
  Upstream <- PairUpstream
  Children <- PairChildren
  Reused = {"r"}
  Retries <- PairRetries
  MaxRetries = 1
  Modes <- JobModes
  Skippable = {"b"}
  Killable = {"in_process"}
  AllowRaise = TRUE
  AllowCrash = TRUE
  MaxFaults = 1
CHECK_DEADLOCK FALSE
INVARIANTS
  OneTryAtWork
  AttemptKnown
  SuccessMeansDone
  LeftSettled
PROPERTIES
  UpstreamFirst
  FinalKept
  DagRunCloses
