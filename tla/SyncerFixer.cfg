SPECIFICATION FairSpec
CONSTANTS
  MaxRuns = 2
  RunsBefore = {0, 1}
  MaxChanges = 3
  MaxFails = 1
  BulkSize = 1
  FixerEnabled = TRUE
INVARIANTS
  NothingSkipped
PROPERTY Converges
