SPECIFICATION Spec
CONSTANTS
  Acquirers = 1
  Tries = 1
  ClosableTries = 2
  Tasks <- MCTasks
  Slots = 5
  MaxPermits = 1
  StoreDelays = TRUE
INVARIANTS
  DealerSafe
  CompletionInHand
PROPERTIES
  CompletesWhenReturned
