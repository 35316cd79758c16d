SPECIFICATION FairSpec
CONSTANTS
  n1 = n1  n2 = n2
  x1 = x1
  CallIds = {n1, n2}
  RequestIds = {x1}
  MaxRetries = 2
  MaxRestarts = 1
  ConnectOnStart = TRUE
  NoId = NoId
  NoCall = NoCall
CHECK_DEADLOCK FALSE
INVARIANTS
  ClientSafe
PROPERTIES
  ImplementsContract
  QueueDrains
