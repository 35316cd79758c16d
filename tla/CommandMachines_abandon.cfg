SPECIFICATION Spec
CONSTANTS
  Ops = {"a", "b"}
  Casts <- MCAbandonedNexus
  MaxDoes = 2
  MaxCancels = 2
  MaxWfts = 3
  MaxSignals = 1
  MaxEvictions = 1
INVARIANT AbandonedMayFinish
CHECK_DEADLOCK FALSE
