SPECIFICATION Spec
CONSTANTS
  Tasks <- ChainTasks
  Order <- ChainOrder
  Upstream <- ChainUpstream
  Children <- ChainChildren
  Reused = {}
  Retries <- ChainRetries
  MaxRetries = 0
  Modes <- ChainModes
  Skippable = {}
  Killable = {}
  AllowRaise = FALSE
  AllowCrash = FALSE
  MaxFaults = 0
CHECK_DEADLOCK FALSE
INVARIANT NoFalseDeadlock
