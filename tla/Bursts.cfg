SPECIFICATION Spec
CONSTANTS
  Debounce = 2
  RescanDelay = 3
  SettleDelay = 3
  MaxTime = 10
  MaxBatches = 5
  MaxOthers = 2
  MaxBusy = 2
  None = None
INVARIANTS TypeOK NeverHeldForLong RescanOwed
PROPERTY BurstWhole
CHECK_DEADLOCK FALSE
