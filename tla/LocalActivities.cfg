SPECIFICATION FairSpec
CONSTANTS
  solo = solo
  one = one
  two = two
  LAs <- AllLAs
  Workloads <- SoloOrBoth
  MaxAttempts <- OneForOne
  Permits = 1
  WaitsForCancel <- SoloAndOne
  SchedToClose <- SoloAndOne
  SchedToStart <- SoloAndTwo
  StartToClose <- SoloAndTwo
  Evictable <- Solo
  MaxEvictions = 1
  MaxBacklog = 1
INVARIANTS PermitsConserved ExecutedOnce
PROPERTIES WaitEnds EveryRequestResolved
CHECK_DEADLOCK FALSE
