SPECIFICATION Spec
CONSTANTS
  Tasks <- PipelineTasks
  MayBeDisabled = {"b"}
  Upstream <- PipelineUpstream
  Children <- PipelineChildren
  Reused = {}
  FailFast = TRUE
  AllowKill = FALSE
  AllowCrash = TRUE
  MaxTrackFails = 0
  MaxSigTerms = 3
  MaxInterrupts = 2
INVARIANTS
  SuccessMeansDone
  ServerSettled
  DriverAgrees
