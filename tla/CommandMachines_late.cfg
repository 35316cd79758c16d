SPECIFICATION Spec
CONSTANTS
  Ops = {"a", "b"}
  Casts <- MCSignal
  MaxDoes = 2
  MaxCancels = 2
  MaxWfts = 3
  MaxSignals = 1
  MaxEvictions = 1
INVARIANT LateCancelsIgnored
CHECK_DEADLOCK FALSE
