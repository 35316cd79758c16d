SPECIFICATION FairSpec
CONSTANTS
  Acquirers = 1
  Tries = 0
  ClosableTries = 1
  Tasks <- MCTasks
  Slots = 1
  MaxPermits = 0
  StoreDelays = FALSE
PROPERTIES
  CloseCompletes
