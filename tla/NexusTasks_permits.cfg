SPECIFICATION Spec
CONSTANTS
  Setups <- MCFewPermits
  Tokens = {1, 2}
  Timed = {1}
  MayPreempt = TRUE
INVARIANT BothKindsHavePermits
