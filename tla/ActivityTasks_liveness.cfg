SPECIFICATION FairSpec
CONSTANTS
  a1 = a1
  a2 = a2
  Activities <- TwoActivities
  Eager <- Only1
  Timed <- Only1
  MaxConcurrent = 2
  GracePeriod = TRUE
  MayPreempt = FALSE
  MaxAnswers = 0
PROPERTIES CancelledAfterGrace ShutdownReturnsUnlessMissed
CHECK_DEADLOCK FALSE
