SPECIFICATION Spec
CONSTANTS
  a1 = a1
  a2 = a2
  Activities <- TwoActivities
  Eager <- Only1
  Timed <- Only1
  MaxConcurrent = 2
  GracePeriod = TRUE
  MayPreempt = TRUE
  MaxAnswers = 1
INVARIANTS TasksSafe NoResultDropped DepletedWhenPollShutDown
CHECK_DEADLOCK FALSE
