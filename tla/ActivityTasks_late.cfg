SPECIFICATION Spec
CONSTANTS
  a1 = a1
  a2 = a2
  Activities <- TwoActivities
  Eager <- Only1
  Timed <- Only1
  MaxConcurrent = 1
  GracePeriod = FALSE
  MayPreempt = FALSE
  MaxAnswers = 0
INVARIANTS ReceiveHalfNotDropped
CHECK_DEADLOCK FALSE
