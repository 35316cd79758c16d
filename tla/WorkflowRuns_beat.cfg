SPECIFICATION Spec
CONSTANTS
  Runs = {r1, r2}
  Capacities = {1}
  MaxTasks = 3
  MaxLAs = 1
  MaxFaults = 0
  MaxBeats = 2
  Kinds = {"task"}
  Lateness = {FALSE}
  PollTimeouts = FALSE
  FailOnND = FALSE
INVARIANTS
  OneActivationOutstanding
