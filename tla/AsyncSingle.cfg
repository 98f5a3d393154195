SPECIFICATION FairSpec
CONSTANTS
  Clients = {c1}
  Nobody = Nobody
  MaxRetries = 2
  RemoveFailedStore = FALSE
  RaiseOnError = TRUE
  AllowFork = FALSE
  MaxCalls = 4
  MaxShutdowns = 2
CHECK_DEADLOCK FALSE
PROPERTIES
  ShutdownReturns
  EventsSettle
