SPECIFICATION Spec
CONSTANTS
  Ops = {"a", "b"}
  Casts <- MCCasts
  MaxDoes = 2
  MaxCancels = 2
  MaxWfts = 3
  MaxSignals = 1
  MaxEvictions = 1
INVARIANTS NothingElseBreaks ReplayAgrees ToldRight CancelsTakeEffect
CHECK_DEADLOCK FALSE
