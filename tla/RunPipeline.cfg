SPECIFICATION FairSpec
CONSTANTS
  Tasks <- PipelineTasks
  MayBeDisabled = {"a"}
  Upstream <- PipelineUpstream
  Children <- PipelineChildren
  Reused = {"b"}
  FailFast = FALSE
  AllowKill = TRUE
  AllowCrash = TRUE
  MaxTrackFails = 2
  MaxSigTerms = 2
  MaxInterrupts = 1
INVARIANTS
  TypeOK
PROPERTIES
  UpstreamRespected
  ShutdownHonoured
  NoOrphanSender
