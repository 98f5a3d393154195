SPECIFICATION FairSpec
CONSTANTS
  Threads = {t1, t2}
  StoreOrder <- TwoStores
  MaxRetries = 2
  RaiseOnError = TRUE
  RemoveFailedStore = FALSE
  AllowDisable = TRUE
  MaxInvokes = 2
CHECK_DEADLOCK FALSE
PROPERTIES
  EveryStoreServed
  OnlyFailedRemoved
  InvokeEnds
