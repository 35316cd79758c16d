SPECIFICATION Spec
CONSTANTS
  Runs = {r1, r2}
  Capacities = {0, 1}
  MaxTasks = 2
  MaxLAs = 1
  MaxFaults = 1
  MaxBeats = 2
  Kinds = {"task", "taskq", "query"}
  Lateness = {FALSE, TRUE}
  PollTimeouts = TRUE
  FailOnND = FALSE
SYMMETRY Symmetry
INVARIANTS
  AssertionsHold
  ActivationHeld
  CallerWillBeAnswered
  CacheBounded
  NoTaskStranded
  ShutdownWaits
