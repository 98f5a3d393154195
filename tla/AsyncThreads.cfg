SPECIFICATION Spec
CONSTANTS
  Clients = {c1, c2}
  Nobody = Nobody
  MaxRetries = 2
  RemoveFailedStore = FALSE
  RaiseOnError = TRUE
  AllowFork = TRUE
  MaxCalls = 2
  MaxShutdowns = 1
CHECK_DEADLOCK FALSE
SYMMETRY ClientSymmetry
INVARIANTS
  TypeOK
  NoEventLost
  DeliveryOrder
PROPERTIES
  SettledNotResent
  ImplementsEventLog
  ShutdownDrains
