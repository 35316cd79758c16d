SPECIFICATION FairSpec
CONSTANTS
  Acquirers = 1
  Tries = 0
  ClosableTries = 2
  Tasks <- MCTasks
  Slots = 2
  MaxPermits = 0
  StoreDelays = FALSE
PROPERTIES
  WaiterIsServed
  CloseCompletesBarFailedTry
